------------------------------ MODULE Baseline ------------------------------
(***************************************************************************)
(* The documents of a baseline: a candidate made from a collection, the    *)
(* approved baseline made from a candidate, and the comparisons that read  *)
(* the latter (create_candidate, approve_candidate,                        *)
(* verify_approved_baseline, compare_collection and run_snapshot).         *)
(*                                                                         *)
(* Commands run at the same time in one directory of documents, and a      *)
(* person may edit or remove a file between any two steps.  A digest is    *)
(* the value it is computed from: no two values share one, and an edit of  *)
(* a file by hand leaves its digests as they were.                         *)
(***************************************************************************)
EXTENDS Naturals

CONSTANTS
  Commands,     \* processes of kdiag
  Paths,        \* files in the directory of documents
  Collections,  \* completed collections, their manifests valid
  Blockers,     \* critical findings and material gaps
  BlockersOf,   \* those of each collection: [Collections -> SUBSET Blockers]
  Authors,      \* values of --approved-by
  MaxEdits      \* bound on what people do to the files

ASSUME BaselineAssumption ==
  /\ BlockersOf \in [Collections -> SUBSET Blockers]
  /\ "none" \notin Authors   \* approve_candidate rejects an empty author
  /\ MaxEdits \in Nat

VARIABLES
  files,      \* document at each path
  command,    \* what each command has checked and is about to do
  used,       \* history: document of the last comparison
  approvals,  \* history: documents approve_candidate made
  claimed,    \* history: paths where a file appeared since the command looked
  edits       \* how often a person touched a file

vars == <<files, command, used, approvals, claimed, edits>>

NoDocument == [kind |-> "none"]
NoApproval == [author |-> "none", unsafe_override |-> FALSE, override_reasons |-> {}]
Idle == [step |-> "idle"]

-----------------------------------------------------------------------------
(* Documents *)

\* The stable objects are the collection they were projected from; the quality metadata is kept apart, as in
\* the code.
BuildProfile(c) == [objects |-> c, blockers |-> BlockersOf[c]]

\* The summary of critical findings and gaps agrees with the objects.
ValidProfile(profile) == profile.blockers = BlockersOf[profile.objects]

\* Everything document_sha256 is computed from.
Body(document) == [ kind |-> document.kind, profile |-> document.profile,
                    profile_sha256 |-> document.profile_sha256, approval |-> document.approval ]

\* Mutant of Candidate: no section for the approval.
CandidateBare(c) ==
  [ kind |-> "candidate", profile |-> BuildProfile(c), profile_sha256 |-> BuildProfile(c),
    approval |-> NoDocument, document_sha256 |-> NoDocument, canonical |-> TRUE ]

Candidate(c) ==
  [ kind |-> "candidate", profile |-> BuildProfile(c), profile_sha256 |-> BuildProfile(c),
    approval |-> NoApproval, document_sha256 |-> NoDocument, canonical |-> TRUE ]

ValidCandidate(document) ==
  /\ document.kind = "candidate"
  /\ document.profile_sha256 = document.profile
  /\ ValidProfile(document.profile)

\* approve_candidate: a candidate with blockers needs the override, which records them.
Approvable(document, override) == document.profile.blockers = {} \/ override

\* Mutant of Approved: the digest is computed before the approval is added.
ApprovedTooSoon(document, author, override) ==
  [document EXCEPT
     !.kind = "approved",
     !.approval = [ author |-> author, unsafe_override |-> override,
                    override_reasons |-> IF override THEN document.profile.blockers ELSE {} ],
     !.document_sha256 = [Body(document) EXCEPT !.kind = "approved"], !.canonical = TRUE]

Approved(document, author, override) ==
  LET approval == [ author |-> author, unsafe_override |-> override,
                    override_reasons |-> IF override THEN document.profile.blockers ELSE {} ]
      body == [Body(document) EXCEPT !.kind = "approved", !.approval = approval]
  IN  [document EXCEPT !.kind = "approved", !.approval = approval,
                       !.document_sha256 = body, !.canonical = TRUE]

\* verify_approved_baseline.
Verifies(document) ==
  /\ document.kind = "approved"
  /\ document.canonical
  /\ document.profile_sha256 = document.profile
  /\ ValidProfile(document.profile)
  /\ document.document_sha256 = Body(document)
  /\ document.approval.author # "none"
  /\ document.profile.blockers # {} => document.approval.unsafe_override
  /\ document.approval.unsafe_override => document.approval.override_reasons # {}

-----------------------------------------------------------------------------
(* Commands *)

Init ==
  /\ files = [p \in Paths |-> NoDocument]
  /\ command = [k \in Commands |-> Idle]
  /\ used = NoDocument
  /\ approvals = {}
  /\ claimed = [k \in Commands |-> {}]
  /\ edits = 0

\* Mutant of Free: only candidates are protected from being overwritten.
FreeOfCandidates(p) == files[p].kind # "candidate"

\* _output_path refuses an existing file.
Free(p) == files[p] = NoDocument

\* A command that has passed all its checks; what it writes is settled.
Settle(k, p, document) ==
  /\ command' = [command EXCEPT ![k] = [step |-> "write", path |-> p, document |-> document]]
  /\ claimed' = [claimed EXCEPT ![k] = {}]

\* create_candidate up to its write.
Create(k, c, p) ==
  /\ command[k] = Idle
  /\ Free(p)
  /\ Settle(k, p, Candidate(c))
  /\ UNCHANGED <<files, used, approvals, edits>>

\* approve_candidate up to its write.
Approve(k, source, author, p, override) ==
  /\ command[k] = Idle
  /\ ValidCandidate(files[source])
  /\ Free(p)
  /\ Approvable(files[source], override)
  /\ LET document == Approved(files[source], author, override)
     IN  Settle(k, p, document) /\ approvals' = approvals \cup {document}
  /\ UNCHANGED <<files, used, edits>>

\* atomic_write_json puts the document in place of whatever is there now.
Write(k) ==
  /\ command[k].step = "write"
  /\ files' = [files EXCEPT ![command[k].path] = command[k].document]
  /\ command' = [command EXCEPT ![k] = Idle]
  /\ claimed' = [j \in Commands |-> claimed[j] \cup {command[k].path}]
  /\ UNCHANGED <<used, approvals, edits>>

\* compare_collection of a finished collection.
Compare(k, p) ==
  /\ command[k] = Idle
  /\ Verifies(files[p])
  /\ used' = files[p]
  /\ UNCHANGED <<files, command, approvals, claimed, edits>>

\* snapshot --baseline verifies the document before anything is collected ...
SnapshotBegins(k, p) ==
  /\ command[k] = Idle
  /\ Verifies(files[p])
  /\ command' = [command EXCEPT ![k] = [step |-> "collect", path |-> p]]
  /\ UNCHANGED <<files, used, approvals, claimed, edits>>

\* Mutant of SnapshotCompares: the document is not verified again.
SnapshotTrusts(k) ==
  /\ command[k].step = "collect"
  /\ used' = files[command[k].path]
  /\ command' = [command EXCEPT ![k] = Idle]
  /\ UNCHANGED <<files, approvals, claimed, edits>>

\* ... and reads and verifies it again hours later, when there is something to compare; a document that has
\* become invalid in between ends the snapshot with an error.
SnapshotCompares(k) ==
  /\ command[k].step = "collect"
  /\ used' = IF Verifies(files[command[k].path]) THEN files[command[k].path] ELSE used
  /\ command' = [command EXCEPT ![k] = Idle]
  /\ UNCHANGED <<files, approvals, claimed, edits>>

\* A command that is killed leaves no document: the temporary file was never renamed.
Interrupt(k) ==
  /\ command[k] # Idle
  /\ command' = [command EXCEPT ![k] = Idle]
  /\ UNCHANGED <<files, used, approvals, claimed, edits>>

-----------------------------------------------------------------------------
(* People *)

Approvals ==
  [author : Authors \cup {"none"}, unsafe_override : BOOLEAN, override_reasons : SUBSET Blockers]

\* One part of a document changed by hand.
Edited(document) ==
  {[document EXCEPT !.approval = a] : a \in Approvals}
  \cup {[document EXCEPT !.profile.blockers = b] : b \in SUBSET Blockers}
  \cup {[document EXCEPT !.profile.objects = c] : c \in Collections}
  \cup {[document EXCEPT !.kind = "approved"], [document EXCEPT !.canonical = FALSE]}

Edit(p) ==
  /\ edits < MaxEdits
  /\ files[p] # NoDocument
  /\ \E document \in Edited(files[p]) : files' = [files EXCEPT ![p] = document]
  /\ edits' = edits + 1
  /\ UNCHANGED <<command, used, approvals, claimed>>

Remove(p) ==
  /\ edits < MaxEdits
  /\ files[p] # NoDocument
  /\ files' = [files EXCEPT ![p] = NoDocument]
  /\ edits' = edits + 1
  /\ UNCHANGED <<command, used, approvals, claimed>>

CommandStep(k) ==
  \/ \E c \in Collections, p \in Paths : Create(k, c, p)
  \/ \E source, p \in Paths, author \in Authors, override \in BOOLEAN :
       Approve(k, source, author, p, override)
  \/ Write(k)
  \/ \E p \in Paths : Compare(k, p)
  \/ \E p \in Paths : SnapshotBegins(k, p)
  \/ SnapshotCompares(k)
  \/ Interrupt(k)

Next ==
  \/ \E k \in Commands : CommandStep(k)
  \/ \E p \in Paths : Edit(p) \/ Remove(p)

Spec == Init /\ [][Next]_vars

-----------------------------------------------------------------------------
(* Properties *)

Profiles == [objects : Collections, blockers : SUBSET Blockers]

\* The blockers of the collection behind an approved document are those it
\* was approved with, and a person overrode each of them by name.
Honest(document) ==
  /\ ValidProfile(document.profile)
  /\ document.approval.author \in Authors
  /\ document.profile.blockers # {} =>
       /\ document.approval.unsafe_override
       /\ document.approval.override_reasons = document.profile.blockers

\* A comparison is only ever made with a document that approve_candidate made, as it made it, and whose
\* blockers somebody took on by name, whatever
\* became of the files before, between the two verifications of a snapshot, and after
\* (baseline.py:627-687, orchestrator.py:85-86 and 247-254).
ComparedIsApproved == used # NoDocument => used \in approvals /\ Honest(used)

\* A document that was there when a command looked is never replaced by that command: one is lost only when
\* another command put it there after the first had looked (baseline.py:116-118
\* checks, util.py:80 replaces).
ReplacesOnlyInRace ==
  [][ \A k \in Commands :
        Write(k) /\ files[command[k].path] # NoDocument => command[k].path \in claimed[k] ]_vars

\* An approved document nobody has touched can be compared with, except one approved with an override it did
\* not need: that records no reason, and verify_approved_baseline
\* refuses it (baseline.py:649-650 against 685-686).
ApprovedVerifies ==
  \A p \in Paths :
    files[p] \in approvals =>
      (Verifies(files[p]) <=>
         ~(files[p].approval.unsafe_override /\ files[p].profile.blockers = {}))

TypeOK ==
  /\ \A p \in Paths : files[p] # NoDocument => files[p].profile \in Profiles /\ files[p].approval \in Approvals
  /\ \A k \in Commands : command[k].step \in {"idle", "write", "collect"}
  /\ claimed \in [Commands -> SUBSET Paths]
  /\ edits \in 0 .. MaxEdits
=============================================================================
