------------------------------- MODULE Bundle -------------------------------
(***************************************************************************)
(* A collection directory and the kdiag commands that work on it:          *)
(* snapshot, report, verify, compare and baseline create.  Each command is *)
(* a process of its own that goes through its steps; a file is written to  *)
(* a temporary name and renamed; a manifest is a listing, then one digest  *)
(* per file, then a rename.  Commands may overlap, fail or be killed at    *)
(* any step, and files may be changed by accident.                         *)
(*                                                                         *)
(* The evidence bundles with collection.json are one file here, "facts"    *)
(* stands for the derived files build_report writes before report.md, and  *)
(* "comparison" for the two files compare writes.  A content is what it    *)
(* was made from: build_report and build_profile have no other input.      *)
(***************************************************************************)
EXTENDS Naturals, Sequences, FiniteSets

CONSTANTS
  Commands,       \* invocations of kdiag on this directory
  Rules,          \* rule packs of the installed versions
  MaxRunning,     \* bound: commands that run at the same time, and accidents so far
  MaxAccidents    \* bound: accidental changes of files

ASSUME BundleAssumption ==
  /\ "none" \notin Rules
  /\ MaxRunning \in Nat
  /\ MaxAccidents \in Nat

VARIABLES
  dir,        \* content of each file of the directory
  manifest,   \* manifest.json: content by member name, empty when there is none
  temps,      \* commands whose temporary file is in the directory
  kind,       \* what each command is, "idle" before it starts
  rules,      \* the rule pack of a command that builds the report
  steps,      \* what each command still has to do
  loaded,     \* the evidence each command has read
  todo,       \* members still to hash or check
  members,    \* manifest being built or checked
  outcome,    \* "raised", "killed", or "none" of the two
  accidents,  \* number of accidental changes
  quiet,      \* history: started while nobody else changed the directory since
  raced       \* history: the directory changed under a running writer

cmdVars == <<kind, rules, steps, loaded, todo, members, outcome>>
vars == <<dir, manifest, temps, cmdVars, accidents, quiet, raced>>

Names == {"comparison", "evidence", "facts", "report"}

\* The name of a temporary file begins with a dot and is no other file's (util.py).
ASSUME TemporaryNames == Commands \cap Names = {}

Contents == [rules : Rules \cup {"none"}, of : {"nothing", "collected", "accident"}]

Absent   == [rules |-> "none", of |-> "nothing"]
Evidence == [rules |-> "none", of |-> "collected"]
Damaged  == [rules |-> "none", of |-> "accident"]
PartFile == [rules |-> "none", of |-> "nothing"]

\* What build_report makes of the evidence it has loaded.
Derived(c) == [rules |-> rules[c], of |-> loaded[c].of]

\* _data_files: every file but the manifest, temporary files included.  The
\* temporary file of a command goes by the name of the command.
Listed == {n \in Names : dir[n] # Absent} \cup temps
Content(n) == IF n \in temps THEN PartFile ELSE dir[n]

\* Sorted by name; temporary names begin with a dot.
Rank(n) ==
  CASE n = "comparison" -> 1 [] n = "evidence" -> 2
    [] n = "facts" -> 3 [] n = "report" -> 4 [] OTHER -> 0
IsFirst(n, S) == n \in S /\ \A m \in S : Rank(n) <= Rank(m)

-----------------------------------------------------------------------------
(* The commands. *)

BuildSteps    == <<"load", "write_facts", "write_report">>
CompareSteps  == <<"profile", "write_comparison">>
ManifestSteps == <<"list", "hash", "write_manifest">>
VerifySteps   == <<"read_manifest", "check", "relist">>

\* Mutants of Program: the report is not sealed again; a candidate is made of a
\* directory nobody verified.
ReportUnsealed(k) ==
  CASE k = "snapshot" -> <<"write_evidence">> \o BuildSteps \o ManifestSteps
    [] k = "snapshot_baseline" ->
         <<"write_evidence">> \o BuildSteps \o CompareSteps \o ManifestSteps
    [] k = "report" -> BuildSteps
    [] k = "verify" -> VerifySteps
    [] k = "compare" -> VerifySteps \o CompareSteps \o ManifestSteps
    [] k = "create" -> VerifySteps \o <<"profile">>

CreateUnverified(k) == IF k = "create" THEN <<"profile">> ELSE ReportUnsealed(k)

Program(k) ==
  CASE k = "snapshot" -> <<"write_evidence">> \o BuildSteps \o ManifestSteps
    [] k = "snapshot_baseline" ->
         <<"write_evidence">> \o BuildSteps \o CompareSteps \o ManifestSteps
    [] k = "report" -> BuildSteps \o ManifestSteps
    [] k = "verify" -> VerifySteps
    [] k = "compare" -> VerifySteps \o CompareSteps \o ManifestSteps
    [] k = "create" -> VerifySteps \o <<"profile">>

Snapshots == {"snapshot", "snapshot_baseline"}
Writers   == Snapshots \cup {"report", "compare"}
Kinds     == Writers \cup {"verify", "create"}

WriteSteps == {"write_evidence", "write_facts", "write_report", "write_comparison",
               "write_manifest"}

At(c, step) == steps[c] # <<>> /\ Head(steps[c]) = step
Running(c)  == steps[c] # <<>>
Succeeded(c) == kind[c] # "idle" /\ ~Running(c) /\ outcome[c] = "none"

Init ==
  /\ dir = [n \in Names |-> Absent]
  /\ manifest = <<>>
  /\ temps = {}
  /\ kind = [c \in Commands |-> "idle"]
  /\ rules = [c \in Commands |-> "none"]
  /\ steps = [c \in Commands |-> <<>>]
  /\ loaded = [c \in Commands |-> Absent]
  /\ todo = [c \in Commands |-> {}]
  /\ members = [c \in Commands |-> <<>>]
  /\ outcome = [c \in Commands |-> "none"]
  /\ accidents = 0
  /\ quiet = {}
  /\ raced = FALSE

\* The directory belongs to one snapshot, which creates it.
Start(c, k, v) ==
  /\ kind[c] = "idle"
  /\ Cardinality({d \in Commands : Running(d)}) + accidents < MaxRunning
  /\ k \in Snapshots <=> \A d \in Commands : kind[d] = "idle"
  /\ k \in {"verify", "compare", "create"} <=> v = "none"
  /\ kind' = [kind EXCEPT ![c] = k]
  /\ rules' = [rules EXCEPT ![c] = v]
  /\ steps' = [steps EXCEPT ![c] = Program(k)]
  /\ quiet' = quiet \cup {c}
  /\ UNCHANGED <<dir, manifest, temps, loaded, todo, members, outcome, accidents, raced>>

Advance(c) == steps' = [steps EXCEPT ![c] = Tail(@)]

\* A command that ends leaves no locals behind.
Forget(c) ==
  /\ loaded' = [loaded EXCEPT ![c] = Absent]
  /\ todo' = [todo EXCEPT ![c] = {}]
  /\ members' = [members EXCEPT ![c] = <<>>]

\* Mutant of Raise: run_snapshot writes the manifest whatever raised.
RaiseAndSeal(c) ==
  /\ outcome' = [outcome EXCEPT ![c] = "raised"]
  /\ steps' = [steps EXCEPT ![c] =
       IF kind[c] \in Snapshots /\ Head(@) \notin {"hash", "write_manifest"}
       THEN ManifestSteps ELSE <<>>]
  /\ Forget(c)

\* An exception ends the command; run_snapshot writes the manifest all the
\* same when the comparison is what raised.
Raise(c) ==
  /\ outcome' = [outcome EXCEPT ![c] = "raised"]
  /\ steps' = [steps EXCEPT ![c] =
       IF kind[c] = "snapshot_baseline" /\ Head(@) \in {"profile", "write_comparison"}
       THEN ManifestSteps ELSE <<>>]
  /\ Forget(c)

\* The directory changes under the hands of the others.
Disturbs(others) ==
  /\ quiet' = quiet \ others
  /\ raced' = (raced \/ \E d \in others : Running(d) /\ kind[d] \in Writers)

Undisturbing == UNCHANGED <<dir, manifest, temps, accidents, quiet, raced>>

\* load_collection: there is nothing to read before the evidence is complete.
Load(c) ==
  /\ At(c, "load")
  /\ \/ /\ dir["evidence"] # Absent
        /\ loaded' = [loaded EXCEPT ![c] = dir["evidence"]]
        /\ Advance(c)
        /\ UNCHANGED <<todo, members, outcome>>
     \/ Raise(c)
  /\ UNCHANGED <<kind, rules>> /\ Undisturbing

\* build_profile reads the evidence and report.json.
Profile(c) ==
  /\ At(c, "profile")
  /\ \/ /\ dir["evidence"] # Absent /\ dir["report"] # Absent
        /\ loaded' = [loaded EXCEPT ![c] = dir["evidence"]]
        /\ Advance(c)
        /\ UNCHANGED <<todo, members, outcome>>
     \/ Raise(c)
  /\ UNCHANGED <<kind, rules>> /\ Undisturbing

\* atomic_write_bytes, first half: the temporary file appears.
OpenTemp(c) ==
  /\ Running(c) /\ Head(steps[c]) \in WriteSteps
  /\ c \notin temps
  /\ temps' = temps \cup {c}
  /\ Disturbs(Commands \ {c})
  /\ UNCHANGED <<dir, manifest, cmdVars, accidents>>

\* The rename: the temporary file becomes the file.
Target(step) ==
  CASE step = "write_evidence" -> "evidence"
    [] step = "write_facts" -> "facts"
    [] step = "write_report" -> "report"
    [] step = "write_comparison" -> "comparison"

NewContent(c) == IF At(c, "write_evidence") THEN Evidence ELSE Derived(c)

Rename(c) ==
  /\ c \in temps /\ Running(c)
  /\ temps' = temps \ {c}
  /\ IF At(c, "write_manifest")
     THEN manifest' = members[c] /\ Forget(c) /\ UNCHANGED dir
     ELSE dir' = [dir EXCEPT ![Target(Head(steps[c]))] = NewContent(c)]
          /\ UNCHANGED <<manifest, loaded, todo, members>>
  /\ Advance(c)
  /\ Disturbs(Commands \ {c})
  /\ UNCHANGED <<kind, rules, outcome, accidents>>

\* The write fails and removes its temporary file.
WriteFails(c) ==
  /\ c \in temps /\ Running(c)
  /\ temps' = temps \ {c}
  /\ Raise(c)
  /\ Disturbs(Commands \ {c})
  /\ UNCHANGED <<dir, manifest, kind, rules, accidents>>

\* build_manifest lists the directory ...
List(c) ==
  /\ At(c, "list")
  /\ todo' = [todo EXCEPT ![c] = Listed]
  /\ members' = [members EXCEPT ![c] = <<>>]
  /\ Advance(c)
  /\ UNCHANGED <<kind, rules, loaded, outcome>> /\ Undisturbing

\* ... and reads the files one by one; one that has gone raises.
Hash(c) ==
  /\ At(c, "hash")
  /\ \/ /\ todo[c] = {}
        /\ Advance(c)
        /\ UNCHANGED <<loaded, todo, members, outcome>>
     \/ \E n \in todo[c] :
          /\ IsFirst(n, todo[c])
          /\ \/ /\ n \in Listed
                /\ todo' = [todo EXCEPT ![c] = @ \ {n}]
                /\ members' = [members EXCEPT ![c] =
                     [m \in DOMAIN @ \cup {n} |-> IF m = n THEN Content(n) ELSE @[m]]]
                /\ UNCHANGED <<loaded, steps, outcome>>
             \/ /\ n \notin Listed
                /\ Raise(c)
  /\ UNCHANGED <<kind, rules>> /\ Undisturbing

\* verify_manifest reads the manifest ...
ReadManifest(c) ==
  /\ At(c, "read_manifest")
  /\ \/ /\ DOMAIN manifest # {}
        /\ members' = [members EXCEPT ![c] = manifest]
        /\ todo' = [todo EXCEPT ![c] = DOMAIN manifest]
        /\ Advance(c)
        /\ UNCHANGED <<loaded, outcome>>
     \/ /\ DOMAIN manifest = {}
        /\ Raise(c)
  /\ UNCHANGED <<kind, rules>> /\ Undisturbing

AsListed(c, n) == n \in Listed /\ Content(n) = members[c][n]

\* ... compares its members with the files one by one ...
Check(c) ==
  /\ At(c, "check")
  /\ \/ /\ todo[c] = {}
        /\ Advance(c)
        /\ UNCHANGED <<loaded, todo, members, outcome>>
     \/ \E n \in todo[c] :
          /\ IsFirst(n, todo[c])
          /\ \/ /\ AsListed(c, n)
                /\ todo' = [todo EXCEPT ![c] = @ \ {n}]
                /\ UNCHANGED <<loaded, members, steps, outcome>>
             \/ /\ ~AsListed(c, n)
                /\ Raise(c)
  /\ UNCHANGED <<kind, rules>> /\ Undisturbing

\* Mutant of Relist: nobody looks.
RelistSkipped(c) ==
  /\ At(c, "relist")
  /\ Advance(c)
  /\ members' = [members EXCEPT ![c] = <<>>]
  /\ UNCHANGED <<loaded, todo, outcome, kind, rules>> /\ Undisturbing

\* ... and looks for files the manifest does not list.
Relist(c) ==
  /\ At(c, "relist")
  /\ \/ /\ Listed \subseteq DOMAIN members[c]
        /\ Advance(c)
        /\ members' = [members EXCEPT ![c] = <<>>]
        /\ UNCHANGED <<loaded, todo, outcome>>
     \/ /\ ~(Listed \subseteq DOMAIN members[c])
        /\ Raise(c)
  /\ UNCHANGED <<kind, rules>> /\ Undisturbing

\* The process is killed; its temporary file stays.
Crash(c) ==
  /\ Running(c)
  /\ steps' = [steps EXCEPT ![c] = <<>>]
  /\ outcome' = [outcome EXCEPT ![c] = "killed"]
  /\ Forget(c)
  /\ UNCHANGED <<kind, rules>> /\ Undisturbing

\* A file is changed, deleted or added by accident, between two commands: no
\* property speaks of a command the directory changed under.
Accident(n) ==
  /\ accidents < MaxAccidents
  /\ \A d \in Commands : ~Running(d)
  /\ accidents' = accidents + 1
  /\ \E new \in {Absent, Damaged} \ {dir[n]} : dir' = [dir EXCEPT ![n] = new]
  /\ Disturbs(Commands)
  /\ UNCHANGED <<manifest, temps, cmdVars>>

Step(c) ==
  \/ Load(c) \/ Profile(c) \/ OpenTemp(c) \/ Rename(c) \/ WriteFails(c)
  \/ List(c) \/ Hash(c) \/ ReadManifest(c) \/ Check(c) \/ Relist(c)

Next ==
  \/ \E c \in Commands :
       Step(c) \/ Crash(c) \/ \E k \in Kinds, v \in Rules \cup {"none"} : Start(c, k, v)
  \/ \E n \in Names : Accident(n)

Spec == Init /\ [][Next]_vars
-----------------------------------------------------------------------------
(* Properties. *)

\* The shape of the directory and of the commands.
TypeOK ==
  /\ dir \in [Names -> Contents]
  /\ DOMAIN manifest \subseteq Names \cup Commands
  /\ temps \subseteq Commands
  /\ kind \in [Commands -> Kinds \cup {"idle"}]
  /\ rules \in [Commands -> Rules \cup {"none"}]
  /\ loaded \in [Commands -> Contents]
  /\ \A c \in Commands : todo[c] \subseteq Names \cup Commands
  /\ outcome \in [Commands -> {"none", "raised", "killed"}]
  /\ accidents \in 0..MaxAccidents
  /\ quiet \subseteq Commands
  /\ raced \in BOOLEAN

\* What verify_manifest has to decide.
MatchesManifest ==
  /\ DOMAIN manifest # {} /\ DOMAIN manifest = Listed
  /\ \A n \in Listed : manifest[n] = Content(n)

\* As long as nothing changes the directory under a running writer, a manifest
\* covers the evidence and a complete report, and the report is one build from
\* that evidence: commands killed or failing half-way never get theirs listed
\* (report.py:1029-1266 comes before cli.py:242 and orchestrator.py:256).
ManifestCoversOneBuild ==
  ~raced /\ DOMAIN manifest # {} =>
    /\ {"evidence", "facts", "report"} \subseteq DOMAIN manifest
    /\ manifest["facts"] = manifest["report"]
    /\ manifest["report"].of = manifest["evidence"].of
    /\ manifest["report"].rules # "none"

\* verify, when the directory does not change meanwhile, accepts exactly the
\* directories that match their manifest: no file changed, lost, added, or left
\* behind by a killed command (bundle.py:63-109).
VerifyIsExact ==
  \A c \in Commands \cap quiet :
    kind[c] = "verify" /\ ~Running(c) /\ outcome[c] # "killed" =>
      (outcome[c] = "none" <=> MatchesManifest)

\* A snapshot, report or compare that ends well, alone in the directory, leaves
\* it matching its manifest, whatever was killed or damaged before: running
\* `report` repairs what an interrupted command left (cli.py:240-244).
WriterLeavesMatch ==
  \A c \in Commands \cap quiet :
    kind[c] \in Writers /\ Succeeded(c) => MatchesManifest

\* A candidate made alone in the directory comes from one complete report of
\* the evidence that is there (baseline.py:584-587).
CandidateFromOneBuild ==
  \A c \in Commands \cap quiet :
    kind[c] = "create" /\ Succeeded(c) /\ ~raced =>
      /\ dir["facts"] = dir["report"]
      /\ loaded[c] = dir["evidence"] /\ dir["report"].of = loaded[c].of
=============================================================================
