--------------------------- MODULE BaselineProofs ---------------------------
(***************************************************************************)
(* Only a document that approve_candidate made is ever compared with, for  *)
(* any number of commands, documents, collections and edits.               *)
(*                                                                         *)
(* An edit leaves digests alone, so wherever a digest is found it is the   *)
(* digest of an approval (DigestsAreOfApprovals); verification then means  *)
(* that nothing of the document differs from that approval.                *)
(***************************************************************************)
EXTENDS Baseline, TLAPS

Kinds == {"candidate", "approved"}

Bodies == [kind : Kinds, profile : Profiles, profile_sha256 : Profiles, approval : Approvals]

Documents ==
  [ kind : Kinds, profile : Profiles, profile_sha256 : Profiles, approval : Approvals,
    document_sha256 : Bodies \cup {NoDocument}, canonical : BOOLEAN ]

CommandStates ==
  {Idle} \cup [step : {"write"}, path : Paths, document : Documents] \cup [step : {"collect"}, path : Paths]

Shapes ==
  /\ files \in [Paths -> Documents \cup {NoDocument}]
  /\ command \in [Commands -> CommandStates]
  /\ approvals \subseteq Documents

\* The digest of a document is that of an approval.
HasDigest(document) ==
  document.document_sha256 # NoDocument =>
    \E a \in approvals : a.document_sha256 = document.document_sha256

DigestsAreOfApprovals ==
  /\ \A p \in Paths : files[p] # NoDocument => HasDigest(files[p])
  /\ \A k \in Commands : command[k].step = "write" => HasDigest(command[k].document)

ApprovalsAreHonest ==
  \A a \in approvals :
    /\ a.kind = "approved" /\ a.canonical /\ a.document_sha256 = Body(a) /\ Honest(a)
    /\ a.profile_sha256 = a.profile
    /\ a.approval.override_reasons = IF a.approval.unsafe_override THEN a.profile.blockers ELSE {}

IInv == Shapes /\ DigestsAreOfApprovals /\ ApprovalsAreHonest /\ ComparedIsApproved

-----------------------------------------------------------------------------
(* Documents *)

LEMMA NoDocumentIsNone ==
  /\ NoDocument \notin Documents /\ NoDocument \notin Bodies
  /\ NoDocument.kind = "none"
BY DEF NoDocument, Documents, Bodies, Kinds

LEMMA CandidateShape ==
  ASSUME NEW c \in Collections
  PROVE  Candidate(c) \in Documents /\ Candidate(c).document_sha256 = NoDocument
<1>1. BlockersOf[c] \in SUBSET Blockers BY BaselineAssumption
<1>2. BuildProfile(c) \in Profiles BY <1>1 DEF BuildProfile, Profiles
<1>3. NoApproval \in Approvals BY DEF NoApproval, Approvals
<1> QED BY <1>2, <1>3 DEF Candidate, Documents, Kinds

\* What approve_candidate makes of a valid candidate is honest and carries its own digest.
LEMMA ApprovedShape ==
  ASSUME NEW d \in Documents, NEW author \in Authors, NEW override \in BOOLEAN,
         ValidCandidate(d), Approvable(d, override),
         NEW new, new = Approved(d, author, override)
  PROVE  /\ new \in Documents
         /\ new.kind = "approved" /\ new.canonical /\ new.document_sha256 = Body(new)
         /\ Honest(new)
         /\ new.profile_sha256 = new.profile
         /\ new.approval.override_reasons =
              IF new.approval.unsafe_override THEN new.profile.blockers ELSE {}
<1> DEFINE reasons == IF override THEN d.profile.blockers ELSE {}
           approval == [author |-> author, unsafe_override |-> override, override_reasons |-> reasons]
           body == [ kind |-> "approved", profile |-> d.profile,
                     profile_sha256 |-> d.profile_sha256, approval |-> approval ]
<1>1. d.profile \in Profiles /\ d.profile_sha256 \in Profiles BY DEF Documents
<1>2. d.profile.blockers \in SUBSET Blockers BY <1>1 DEF Profiles
<1>3. approval \in Approvals BY <1>2 DEF Approvals
<1>4. body \in Bodies BY <1>1, <1>3 DEF Bodies, Kinds
<1>5. new = [ kind |-> "approved", profile |-> d.profile, profile_sha256 |-> d.profile_sha256,
              approval |-> approval, document_sha256 |-> body, canonical |-> TRUE ]
  BY DEF Approved, Body, Documents
<1> HIDE DEF body
<1>6. new \in Documents BY <1>1, <1>3, <1>4, <1>5 DEF Documents, Kinds
<1>7. new.document_sha256 = Body(new) BY <1>5 DEF Body, body
<1>8. Honest(new) BY <1>5 DEF Honest, ValidCandidate, ValidProfile, Approvable
<1>9. new.profile_sha256 = new.profile BY <1>5 DEF ValidCandidate
<1>10. new.approval.override_reasons =
         IF new.approval.unsafe_override THEN new.profile.blockers ELSE {}
  BY <1>5
<1> QED BY <1>5, <1>6, <1>7, <1>8, <1>9, <1>10

LEMMA EditedShape ==
  ASSUME NEW d \in Documents, NEW new \in Edited(d)
  PROVE  new \in Documents /\ new.document_sha256 = d.document_sha256
<1>1. CASE \E a \in Approvals : new = [d EXCEPT !.approval = a]
  BY <1>1 DEF Documents
<1>2. CASE \E b \in SUBSET Blockers : new = [d EXCEPT !.profile.blockers = b]
  <2>1. PICK b \in SUBSET Blockers : new = [d EXCEPT !.profile = [d.profile EXCEPT !.blockers = b]]
    BY <1>2
  <2>2. [d.profile EXCEPT !.blockers = b] \in Profiles BY DEF Documents, Profiles
  <2> QED BY <2>1, <2>2 DEF Documents
<1>3. CASE \E c \in Collections : new = [d EXCEPT !.profile.objects = c]
  <2>1. PICK c \in Collections : new = [d EXCEPT !.profile = [d.profile EXCEPT !.objects = c]]
    BY <1>3
  <2>2. [d.profile EXCEPT !.objects = c] \in Profiles BY DEF Documents, Profiles
  <2> QED BY <2>1, <2>2 DEF Documents
<1>4. CASE new = [d EXCEPT !.kind = "approved"] \/ new = [d EXCEPT !.canonical = FALSE]
  BY <1>4 DEF Documents, Kinds
<1> QED BY <1>1, <1>2, <1>3, <1>4 DEF Edited

LEMMA SameDocument ==
  ASSUME NEW a \in Documents, NEW d \in Documents,
         a.kind = d.kind, a.profile = d.profile, a.profile_sha256 = d.profile_sha256,
         a.approval = d.approval, a.document_sha256 = d.document_sha256, a.canonical = d.canonical
  PROVE  a = d
<1>1. ASSUME NEW x \in Documents
      PROVE  x = [ kind |-> x.kind, profile |-> x.profile, profile_sha256 |-> x.profile_sha256,
                   approval |-> x.approval, document_sha256 |-> x.document_sha256,
                   canonical |-> x.canonical ]
  BY DEF Documents
<1>2. a = [ kind |-> a.kind, profile |-> a.profile, profile_sha256 |-> a.profile_sha256,
            approval |-> a.approval, document_sha256 |-> a.document_sha256, canonical |-> a.canonical ]
  BY <1>1
<1>3. d = [ kind |-> d.kind, profile |-> d.profile, profile_sha256 |-> d.profile_sha256,
            approval |-> d.approval, document_sha256 |-> d.document_sha256, canonical |-> d.canonical ]
  BY <1>1
<1> QED BY <1>2, <1>3

\* A document that verifies is an approval, and nothing of it was changed.
LEMMA VerifiedIsApproval ==
  ASSUME IInv, NEW p \in Paths, Verifies(files[p])
  PROVE  files[p] \in approvals /\ Honest(files[p])
<1> DEFINE d == files[p]
<1>1. d \in Documents BY NoDocumentIsNone DEF IInv, Shapes, Verifies
<1>2. d.document_sha256 = Body(d) /\ d.canonical BY DEF Verifies
<1>3. Body(d) \in Bodies BY <1>1 DEF Body, Bodies, Documents
<1>4. d # NoDocument /\ d.document_sha256 # NoDocument BY <1>1, <1>2, <1>3, NoDocumentIsNone
<1>5. PICK a \in approvals : a.document_sha256 = d.document_sha256
  BY <1>4 DEF IInv, DigestsAreOfApprovals, HasDigest
<1>6. a \in Documents /\ a.canonical /\ a.document_sha256 = Body(a) /\ Honest(a)
  BY DEF IInv, Shapes, ApprovalsAreHonest
<1>7. Body(a) = Body(d) BY <1>2, <1>5, <1>6
<1>8. /\ a.kind = d.kind /\ a.profile = d.profile /\ a.profile_sha256 = d.profile_sha256
      /\ a.approval = d.approval
  BY <1>7 DEF Body
<1>9. a.canonical = TRUE /\ d.canonical = TRUE BY <1>1, <1>2, <1>6 DEF Documents
<1> HIDE DEF d
<1>10. a = d BY <1>1, <1>5, <1>6, <1>8, <1>9, SameDocument
<1> QED BY <1>6, <1>10 DEF d

-----------------------------------------------------------------------------
(* Steps *)

LEMMA InitHolds == Init => IInv
<1> SUFFICES ASSUME Init PROVE IInv OBVIOUS
<1>1. Shapes BY DEF Init, Shapes, CommandStates
<1>2. DigestsAreOfApprovals BY DEF Init, DigestsAreOfApprovals, Idle
<1>3. ApprovalsAreHonest /\ ComparedIsApproved BY DEF Init, ApprovalsAreHonest, ComparedIsApproved
<1> QED BY <1>1, <1>2, <1>3 DEF IInv

\* A command settles what it will write; the approvals may grow by it.
LEMMA SettleKeeps ==
  ASSUME IInv, NEW k \in Commands, NEW p \in Paths, NEW document \in Documents,
         Settle(k, p, document), files' = files, used' = used,
         approvals \subseteq approvals', approvals' \subseteq Documents, ApprovalsAreHonest',
         document.document_sha256 # NoDocument =>
           \E a \in approvals' : a.document_sha256 = document.document_sha256
  PROVE  IInv'
<1>1. command' = [command EXCEPT ![k] = [step |-> "write", path |-> p, document |-> document]]
  BY DEF Settle
<1>2. Shapes'
  <2>1. [step |-> "write", path |-> p, document |-> document] \in CommandStates BY DEF CommandStates
  <2> QED BY <1>1, <2>1 DEF IInv, Shapes
<1>3. DigestsAreOfApprovals'
  <2>1. ASSUME NEW q \in Paths, files'[q] # NoDocument,
               files'[q].document_sha256 # NoDocument
        PROVE  \E a \in approvals' : a.document_sha256 = files'[q].document_sha256
    BY <2>1 DEF IInv, DigestsAreOfApprovals, HasDigest
  <2>2. ASSUME NEW j \in Commands, command'[j].step = "write",
               command'[j].document.document_sha256 # NoDocument
        PROVE  \E a \in approvals' : a.document_sha256 = command'[j].document.document_sha256
    <3>1. CASE j = k
      <4>1. command'[j].document = document BY <3>1, <1>1 DEF IInv, Shapes
      <4> QED BY <2>2, <4>1
    <3>2. CASE j # k
      <4>1. command'[j] = command[j] BY <3>2, <1>1 DEF IInv, Shapes
      <4> QED BY <2>2, <4>1 DEF IInv, DigestsAreOfApprovals, HasDigest
    <3> QED BY <3>1, <3>2
  <2> QED BY <2>1, <2>2 DEF DigestsAreOfApprovals, HasDigest
<1>4. ComparedIsApproved' BY DEF IInv, ComparedIsApproved, Honest, ValidProfile
<1> QED BY <1>2, <1>3, <1>4 DEF IInv

LEMMA CreateKeeps ==
  ASSUME IInv, NEW k \in Commands, NEW c \in Collections, NEW p \in Paths, Create(k, c, p)
  PROVE  IInv'
<1>1. Settle(k, p, Candidate(c)) /\ UNCHANGED <<files, used, approvals>> BY DEF Create
<1>2. ApprovalsAreHonest' /\ approvals' \subseteq Documents
  BY <1>1 DEF IInv, Shapes, ApprovalsAreHonest, Honest, ValidProfile
<1> QED BY <1>1, <1>2, CandidateShape, SettleKeeps

LEMMA ApproveKeeps ==
  ASSUME IInv, NEW k \in Commands, NEW source \in Paths, NEW author \in Authors, NEW p \in Paths,
         NEW override \in BOOLEAN, Approve(k, source, author, p, override)
  PROVE  IInv'
<1>1. files[source] \in Documents
  BY NoDocumentIsNone DEF Approve, ValidCandidate, IInv, Shapes
<1>2. PICK document : /\ document = Approved(files[source], author, override)
                      /\ Settle(k, p, document) /\ approvals' = approvals \cup {document}
  BY DEF Approve
<1>3. ValidCandidate(files[source]) /\ Approvable(files[source], override)
      /\ files' = files /\ used' = used
  BY DEF Approve
<1>4. /\ document \in Documents
      /\ document.kind = "approved" /\ document.canonical /\ document.document_sha256 = Body(document)
      /\ Honest(document)
      /\ document.profile_sha256 = document.profile
      /\ document.approval.override_reasons =
           IF document.approval.unsafe_override THEN document.profile.blockers ELSE {}
  BY <1>1, <1>2, <1>3, ApprovedShape
<1>5. approvals' \subseteq Documents BY <1>2, <1>4 DEF IInv, Shapes
<1>6. ApprovalsAreHonest'
  BY <1>2, <1>4 DEF IInv, ApprovalsAreHonest
<1> QED BY <1>2, <1>3, <1>4, <1>5, <1>6, SettleKeeps

LEMMA WriteKeeps ==
  ASSUME IInv, NEW k \in Commands, Write(k)
  PROVE  IInv'
<1> DEFINE p == command[k].path
           d == command[k].document
<1>1. /\ command[k].step = "write" /\ files' = [files EXCEPT ![p] = d]
      /\ command' = [command EXCEPT ![k] = Idle] /\ UNCHANGED <<used, approvals>>
  BY DEF Write
<1>2. p \in Paths /\ d \in Documents /\ HasDigest(d)
  BY <1>1 DEF IInv, Shapes, CommandStates, DigestsAreOfApprovals, Idle
<1> HIDE DEF p, d
<1>3. Shapes' BY <1>1, <1>2 DEF IInv, Shapes, CommandStates
<1>4. DigestsAreOfApprovals'
  <2>1. ASSUME NEW q \in Paths, files'[q] # NoDocument PROVE HasDigest(files'[q])
    <3>1. CASE q = p BY <3>1, <1>1, <1>2 DEF IInv, Shapes
    <3>2. CASE q # p
      <4>1. files'[q] = files[q] BY <3>2, <1>1 DEF IInv, Shapes
      <4> QED BY <2>1, <4>1 DEF IInv, DigestsAreOfApprovals
    <3> QED BY <3>1, <3>2
  <2>2. ASSUME NEW j \in Commands, command'[j].step = "write" PROVE HasDigest(command'[j].document)
    <3>1. j # k BY <2>2, <1>1 DEF IInv, Shapes, Idle
    <3>2. command'[j] = command[j] BY <3>1, <1>1 DEF IInv, Shapes
    <3> QED BY <2>2, <3>2 DEF IInv, DigestsAreOfApprovals
  <2> QED BY <2>1, <2>2, <1>1 DEF DigestsAreOfApprovals, HasDigest
<1>5. ApprovalsAreHonest' /\ ComparedIsApproved'
  BY <1>1 DEF IInv, ApprovalsAreHonest, ComparedIsApproved
<1> QED BY <1>3, <1>4, <1>5 DEF IInv

\* A command that reads a document, if it verifies, or that does something with nothing but itself.
LEMMA ReadKeeps ==
  ASSUME IInv, NEW k \in Commands, UNCHANGED <<files, approvals>>,
         \/ UNCHANGED command
         \/ command' = [command EXCEPT ![k] = Idle]
         \/ \E p \in Paths : command' = [command EXCEPT ![k] = [step |-> "collect", path |-> p]],
         used' = used \/ \E p \in Paths : Verifies(files[p]) /\ used' = files[p]
  PROVE  IInv'
<1>1. Shapes' BY DEF IInv, Shapes, CommandStates
<1>2. DigestsAreOfApprovals'
  <2>1. ASSUME NEW j \in Commands, command'[j].step = "write" PROVE command'[j] = command[j]
    BY <2>1 DEF IInv, Shapes, Idle
  <2> QED BY <2>1 DEF IInv, DigestsAreOfApprovals, HasDigest
<1>3. ApprovalsAreHonest' BY DEF IInv, ApprovalsAreHonest
<1>4. ComparedIsApproved'
  <2>1. CASE used' = used BY <2>1 DEF IInv, ComparedIsApproved
  <2>2. ASSUME NEW p \in Paths, Verifies(files[p]), used' = files[p]
        PROVE  used' \in approvals' /\ Honest(used')
    BY <2>2, VerifiedIsApproval
  <2> QED BY <2>1, <2>2 DEF ComparedIsApproved
<1> QED BY <1>1, <1>2, <1>3, <1>4 DEF IInv

\* A person edits a file, which leaves its digest, or removes it.
LEMMA PersonKeeps ==
  ASSUME IInv, NEW p \in Paths, Edit(p) \/ Remove(p)
  PROVE  IInv'
<1>1. UNCHANGED <<command, used, approvals>> BY DEF Edit, Remove
<1>2. files[p] \in Documents BY DEF Edit, Remove, IInv, Shapes
<1>3. PICK new \in Edited(files[p]) \cup {NoDocument} : files' = [files EXCEPT ![p] = new]
  BY DEF Edit, Remove
<1>4. new # NoDocument => new \in Documents /\ new.document_sha256 = files[p].document_sha256
  BY <1>2, <1>3, EditedShape
<1>5. Shapes' BY <1>1, <1>3, <1>4 DEF IInv, Shapes
<1>6. DigestsAreOfApprovals'
  <2>1. ASSUME NEW q \in Paths, files'[q] # NoDocument PROVE HasDigest(files'[q])
    <3>1. CASE q = p
      <4>1. files'[q] = new BY <3>1, <1>3 DEF IInv, Shapes
      <4>2. HasDigest(files[p]) BY <1>2, NoDocumentIsNone DEF IInv, DigestsAreOfApprovals
      <4> QED BY <2>1, <4>1, <4>2, <1>4 DEF HasDigest
    <3>2. CASE q # p
      <4>1. files'[q] = files[q] BY <3>2, <1>3 DEF IInv, Shapes
      <4> QED BY <2>1, <4>1 DEF IInv, DigestsAreOfApprovals
    <3> QED BY <3>1, <3>2
  <2> QED BY <2>1, <1>1 DEF IInv, DigestsAreOfApprovals, HasDigest
<1>7. ApprovalsAreHonest' /\ ComparedIsApproved'
  BY <1>1 DEF IInv, ApprovalsAreHonest, ComparedIsApproved
<1> QED BY <1>5, <1>6, <1>7 DEF IInv

LEMMA CommandKeeps ==
  ASSUME IInv, NEW k \in Commands, CommandStep(k)
  PROVE  IInv'
<1>1. ASSUME NEW c \in Collections, NEW p \in Paths, Create(k, c, p) PROVE IInv'
  BY <1>1, CreateKeeps
<1>2. ASSUME NEW source \in Paths, NEW p \in Paths, NEW author \in Authors, NEW override \in BOOLEAN,
             Approve(k, source, author, p, override)
      PROVE  IInv'
  BY <1>2, ApproveKeeps
<1>3. CASE Write(k) BY <1>3, WriteKeeps
<1>4. ASSUME NEW p \in Paths, Compare(k, p) PROVE IInv'
  BY <1>4, ReadKeeps DEF Compare
<1>5. ASSUME NEW p \in Paths, SnapshotBegins(k, p) PROVE IInv'
  BY <1>5, ReadKeeps DEF SnapshotBegins
<1>6. CASE SnapshotCompares(k)
  <2>1. command[k].path \in Paths BY <1>6 DEF SnapshotCompares, IInv, Shapes, CommandStates, Idle
  <2>2. used' = used \/ \E p \in Paths : Verifies(files[p]) /\ used' = files[p]
    BY <1>6, <2>1 DEF SnapshotCompares
  <2> QED BY <1>6, <2>2, ReadKeeps DEF SnapshotCompares
<1>7. CASE Interrupt(k) BY <1>7, ReadKeeps DEF Interrupt
<1> QED BY <1>1, <1>2, <1>3, <1>4, <1>5, <1>6, <1>7 DEF CommandStep

LEMMA StepKeeps == IInv /\ [Next]_vars => IInv'
<1> SUFFICES ASSUME IInv, [Next]_vars PROVE IInv' OBVIOUS
<1>1. ASSUME NEW k \in Commands, CommandStep(k) PROVE IInv' BY <1>1, CommandKeeps
<1>2. ASSUME NEW p \in Paths, Edit(p) \/ Remove(p) PROVE IInv' BY <1>2, PersonKeeps
<1>3. CASE UNCHANGED vars
  BY <1>3 DEF vars, IInv, Shapes, DigestsAreOfApprovals, HasDigest, ApprovalsAreHonest, ComparedIsApproved
<1> QED BY <1>1, <1>2, <1>3 DEF Next

THEOREM BaselineInvariant == Spec => []IInv
BY InitHolds, StepKeeps, PTL DEF Spec

\* Nothing but a document as approved is ever compared with, and its blockers
\* were taken on by name.
THEOREM OnlyApprovedCompared == Spec => []ComparedIsApproved
<1>1. IInv => ComparedIsApproved BY DEF IInv
<1> QED BY <1>1, BaselineInvariant, PTL

\* A document as approve_candidate made it passes verify_approved_baseline, but
\* for an override that had nothing to override (baseline.py:649-687).
THEOREM ApprovedCanBeCompared == Spec => []ApprovedVerifies
<1>1. IInv => ApprovedVerifies
  <2> SUFFICES ASSUME IInv, NEW p \in Paths, files[p] \in approvals
               PROVE  Verifies(files[p]) <=>
                        ~(files[p].approval.unsafe_override /\ files[p].profile.blockers = {})
    BY DEF ApprovedVerifies
  <2> DEFINE a == files[p]
  <2>1. /\ a.kind = "approved" /\ a.canonical /\ a.document_sha256 = Body(a) /\ Honest(a)
        /\ a.profile_sha256 = a.profile
        /\ a.approval.override_reasons = IF a.approval.unsafe_override THEN a.profile.blockers ELSE {}
    BY DEF IInv, ApprovalsAreHonest
  <2>2. a.approval.author # "none" BY <2>1, BaselineAssumption DEF Honest
  <2> HIDE DEF a
  <2>3. Verifies(a) <=> ~(a.approval.unsafe_override /\ a.profile.blockers = {})
    BY <2>1, <2>2 DEF Verifies, Honest
  <2> QED BY <2>3 DEF a
<1> QED BY <1>1, BaselineInvariant, PTL

-----------------------------------------------------------------------------
(* What is replaced *)

\* The output of a command is free, or somebody put a file there since it looked.
FreeOrClaimed ==
  /\ claimed \in [Commands -> SUBSET Paths]
  /\ \A k \in Commands :
       command[k].step = "write" =>
         files[command[k].path] = NoDocument \/ command[k].path \in claimed[k]

LEMMA SettleIsFree ==
  ASSUME Shapes, FreeOrClaimed, NEW k \in Commands, NEW p \in Paths, NEW document,
         Free(p), Settle(k, p, document), files' = files
  PROVE  FreeOrClaimed'
<1>1. /\ command' = [command EXCEPT ![k] = [step |-> "write", path |-> p, document |-> document]]
      /\ claimed' = [claimed EXCEPT ![k] = {}]
  BY DEF Settle
<1>2. claimed' \in [Commands -> SUBSET Paths] BY <1>1 DEF FreeOrClaimed
<1>3. ASSUME NEW j \in Commands, command'[j].step = "write"
      PROVE  files'[command'[j].path] = NoDocument \/ command'[j].path \in claimed'[j]
  <2>1. CASE j = k
    <3>1. command'[j].path = p BY <2>1, <1>1 DEF Shapes
    <3> QED BY <3>1 DEF Free
  <2>2. CASE j # k
    <3>1. command'[j] = command[j] /\ claimed'[j] = claimed[j] BY <2>2, <1>1 DEF Shapes, FreeOrClaimed
    <3> QED BY <1>3, <3>1 DEF FreeOrClaimed
  <2> QED BY <2>1, <2>2
<1> QED BY <1>2, <1>3 DEF FreeOrClaimed

LEMMA WriteClaims ==
  ASSUME Shapes, FreeOrClaimed, NEW k \in Commands, Write(k)
  PROVE  FreeOrClaimed'
<1> DEFINE p == command[k].path
           d == command[k].document
<1>1. /\ files' = [files EXCEPT ![p] = d] /\ command' = [command EXCEPT ![k] = Idle]
      /\ claimed' = [j \in Commands |-> claimed[j] \cup {p}]
  BY DEF Write
<1>2. p \in Paths BY DEF Write, Shapes, CommandStates, Idle
<1> HIDE DEF p, d
<1>3. claimed' \in [Commands -> SUBSET Paths] BY <1>1, <1>2 DEF FreeOrClaimed
<1>4. ASSUME NEW j \in Commands, command'[j].step = "write"
      PROVE  files'[command'[j].path] = NoDocument \/ command'[j].path \in claimed'[j]
  <2>1. j # k /\ command'[j] = command[j] BY <1>4, <1>1 DEF Shapes, Idle
  <2>2. command[j].path \in Paths BY <1>4, <2>1 DEF Shapes, CommandStates, Idle
  <2>3. CASE command[j].path = p BY <2>1, <2>3, <1>1
  <2>4. CASE command[j].path # p
    <3>1. files'[command[j].path] = files[command[j].path] BY <2>2, <2>4, <1>1 DEF Shapes
    <3> QED BY <1>4, <2>1, <3>1, <1>1 DEF FreeOrClaimed
  <2> QED BY <2>3, <2>4
<1> QED BY <1>3, <1>4 DEF FreeOrClaimed

\* A command that settles nothing, or a person who finds a file where one was.
LEMMA OthersKeepClaims ==
  ASSUME Shapes, FreeOrClaimed, claimed' = claimed,
         \A k \in Commands : command'[k].step = "write" => command'[k] = command[k],
         \A p \in Paths : files[p] = NoDocument => files'[p] = NoDocument
  PROVE  FreeOrClaimed'
<1>1. ASSUME NEW k \in Commands, command'[k].step = "write"
      PROVE  files'[command'[k].path] = NoDocument \/ command'[k].path \in claimed'[k]
  <2>1. command'[k] = command[k] BY <1>1
  <2>2. command[k].path \in Paths BY <1>1, <2>1 DEF Shapes, CommandStates, Idle
  <2> QED BY <1>1, <2>1, <2>2 DEF FreeOrClaimed
<1> QED BY <1>1 DEF FreeOrClaimed

LEMMA StepClaims == IInv /\ FreeOrClaimed /\ [Next]_vars => FreeOrClaimed'
<1> SUFFICES ASSUME Shapes, FreeOrClaimed, [Next]_vars PROVE FreeOrClaimed'
  BY DEF IInv
<1>1. ASSUME NEW k \in Commands, NEW c \in Collections, NEW p \in Paths, Create(k, c, p)
      PROVE  FreeOrClaimed'
  BY <1>1, SettleIsFree DEF Create
<1>2. ASSUME NEW k \in Commands, NEW source \in Paths, NEW p \in Paths, NEW author \in Authors,
             NEW override \in BOOLEAN, Approve(k, source, author, p, override)
      PROVE  FreeOrClaimed'
  <2>1. Free(p) /\ files' = files /\ Settle(k, p, Approved(files[source], author, override))
    BY <1>2 DEF Approve
  <2> QED BY <2>1, SettleIsFree
<1>3. ASSUME NEW k \in Commands, Write(k) PROVE FreeOrClaimed'
  BY <1>3, WriteClaims
<1>4. ASSUME NEW k \in Commands, NEW p \in Paths, Compare(k, p) \/ SnapshotBegins(k, p)
      PROVE  FreeOrClaimed'
  <2>1. \A j \in Commands : command'[j].step = "write" => command'[j] = command[j]
    BY <1>4 DEF Compare, SnapshotBegins, Shapes
  <2> QED BY <1>4, <2>1, OthersKeepClaims DEF Compare, SnapshotBegins
<1>5. ASSUME NEW k \in Commands, SnapshotCompares(k) \/ Interrupt(k) PROVE FreeOrClaimed'
  <2>1. \A j \in Commands : command'[j].step = "write" => command'[j] = command[j]
    BY <1>5 DEF SnapshotCompares, Interrupt, Shapes, Idle
  <2> QED BY <1>5, <2>1, OthersKeepClaims DEF SnapshotCompares, Interrupt
<1>6. ASSUME NEW p \in Paths, Edit(p) \/ Remove(p) PROVE FreeOrClaimed'
  <2>1. \A q \in Paths : files[q] = NoDocument => files'[q] = NoDocument
    BY <1>6 DEF Edit, Remove, Shapes
  <2> QED BY <1>6, <2>1, OthersKeepClaims DEF Edit, Remove
<1>7. CASE UNCHANGED vars
  BY <1>7, OthersKeepClaims DEF vars
<1> QED BY <1>1, <1>2, <1>3, <1>4, <1>5, <1>6, <1>7 DEF Next, CommandStep

\* A document is lost to a command only when it was not there when the command looked.
THEOREM ReplacesOnlyLatecomers == Spec => ReplacesOnlyInRace
<1>1. Init => FreeOrClaimed BY DEF Init, FreeOrClaimed, Idle
<1>2. IInv /\ FreeOrClaimed /\ [Next]_vars =>
        [ \A k \in Commands :
            Write(k) /\ files[command[k].path] # NoDocument => command[k].path \in claimed[k] ]_vars
  BY DEF FreeOrClaimed, Write
<1> QED BY <1>1, <1>2, StepClaims, BaselineInvariant, PTL DEF Spec, ReplacesOnlyInRace

-----------------------------------------------------------------------------
(* Type correctness *)

\* The documents, the commands and the bound on edits keep their shape.
THEOREM BaselineTypeOK == Spec => []TypeOK
<1> DEFINE Counted == edits \in 0 .. MaxEdits
<1>1. Init => FreeOrClaimed /\ Counted BY BaselineAssumption DEF Init, FreeOrClaimed, Idle
<1>2. Counted /\ [Next]_vars => Counted'
  BY BaselineAssumption
  DEF Next, CommandStep, Create, Approve, Settle, Write, Compare, SnapshotBegins,
      SnapshotCompares, Interrupt, Edit, Remove, vars
<1>3. IInv /\ FreeOrClaimed /\ Counted => TypeOK
  <2> SUFFICES ASSUME Shapes, FreeOrClaimed, Counted PROVE TypeOK
    BY DEF IInv
  <2>1. \A p \in Paths : files[p] # NoDocument =>
          files[p].profile \in Profiles /\ files[p].approval \in Approvals
    BY DEF Shapes, Documents
  <2>2. \A k \in Commands : command[k].step \in {"idle", "write", "collect"}
    BY DEF Shapes, CommandStates, Idle
  <2> QED BY <2>1, <2>2 DEF TypeOK, FreeOrClaimed
<1> QED BY <1>1, <1>2, <1>3, StepClaims, BaselineInvariant, PTL DEF Spec
=============================================================================
