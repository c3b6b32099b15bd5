---------------------------- MODULE BundleProofs ----------------------------
(***************************************************************************)
(* The four promises of a collection directory, for any commands at once,  *)
(* any rule packs, failures, kills and accidents.                          *)
(*                                                                         *)
(* None of them is inductive: a manifest is right because of what its      *)
(* writer had read, hashed and written before.  The invariant says so of   *)
(* every command nobody has disturbed, step by step of its program.        *)
(***************************************************************************)
EXTENDS Bundle, SequenceTheorems, TLAPS

AllSteps == WriteSteps \cup {"load", "profile", "list", "hash", "read_manifest", "check", "relist"}

Builders == Snapshots \cup {"report"}

\* What is left of a program, and its first step.
Remains(k, s) ==
  /\ s \in Seq(AllSteps)
  /\ \E i \in 1 .. Len(Program(k)) + 1 :
       /\ Len(s) = Len(Program(k)) + 1 - i
       /\ \A j \in 1 .. Len(s) : s[j] = Program(k)[i + j - 1]

First(s) == IF s = <<>> THEN "end" ELSE Head(s)
Now(c) == First(steps[c])

\* The step after a step.
Following(k, step) ==
  CASE step = "write_evidence" -> "load"
    [] step = "load" -> "write_facts"
    [] step = "write_facts" -> "write_report"
    [] step = "write_report" -> IF k = "snapshot_baseline" THEN "profile" ELSE "list"
    [] step = "read_manifest" -> "check"
    [] step = "check" -> "relist"
    [] step = "relist" -> IF k = "verify" THEN "end" ELSE "profile"
    [] step = "profile" -> IF k = "create" THEN "end" ELSE "write_comparison"
    [] step = "write_comparison" -> "list"
    [] step = "list" -> "hash"
    [] step = "hash" -> "write_manifest"
    [] step = "write_manifest" -> "end"

\* The commands that have a step.
Having(step) ==
  CASE step = "write_evidence" -> Snapshots
    [] step \in {"load", "write_facts", "write_report"} -> Builders
    [] step \in {"read_manifest", "check", "relist"} -> {"verify", "compare", "create"}
    [] step = "profile" -> {"snapshot_baseline", "compare", "create"}
    [] step = "write_comparison" -> {"snapshot_baseline", "compare"}
    [] step \in {"list", "hash", "write_manifest"} -> Writers

-----------------------------------------------------------------------------
(* The invariant. *)

\* A report built in one go from the evidence that is there.
OneBuild ==
  /\ dir["evidence"] # Absent
  /\ dir["facts"] = dir["report"]
  /\ dir["report"].of = dir["evidence"].of
  /\ dir["report"].rules # "none"

AfterReport == {"profile", "write_comparison", "list", "hash", "write_manifest"}

\* Where a command is, and what becomes of its temporary file.
Lives(c) ==
  /\ kind[c] = "idle" => steps[c] = <<>> /\ outcome[c] = "none"
  /\ kind[c] # "idle" => Remains(kind[c], steps[c])
  /\ kind[c] \in Builders => rules[c] # "none"
  /\ Running(c) => outcome[c] = "none" \/ (outcome[c] = "raised" /\ kind[c] = "snapshot_baseline")
  /\ c \in temps => Now(c) \in WriteSteps \/ outcome[c] = "killed"
  /\ Running(c) /\ kind[c] \in Writers => c \in quiet \/ raced

\* verify_manifest on its way, and what it has said.
Verifies(c) ==
  /\ Now(c) \in {"check", "relist"} =>
       /\ members[c] = manifest /\ DOMAIN manifest # {}
       /\ \A n \in DOMAIN manifest :
            \/ Now(c) = "check" /\ n \in todo[c]
            \/ n \in Listed /\ Content(n) = manifest[n]
  /\ Now(c) = "check" => todo[c] \subseteq DOMAIN manifest
  /\ Now(c) = "profile" /\ kind[c] \in {"compare", "create"} => MatchesManifest
  /\ kind[c] = "verify" /\ ~Running(c) /\ outcome[c] # "killed" =>
       (outcome[c] = "none" <=> MatchesManifest)
  /\ kind[c] = "create" /\ Succeeded(c) => MatchesManifest /\ loaded[c] = dir["evidence"]

\* build_report on its way, and what it leaves for the steps after it.
Builds(c) ==
  /\ Now(c) \in {"write_facts", "write_report"} =>
       loaded[c] = dir["evidence"] /\ dir["evidence"] # Absent
  /\ Now(c) = "write_report" => dir["facts"] = Derived(c)
  /\ Now(c) \in AfterReport /\ kind[c] \in Builders => OneBuild
  /\ Now(c) \in AfterReport \ {"profile"} /\ kind[c] = "compare" =>
       dir["report"] # Absent /\ (raced \/ OneBuild)

\* The manifest on its way, and what it is in the end.
Seals(c) ==
  /\ Now(c) = "hash" =>
       /\ DOMAIN members[c] \cup todo[c] = Listed
       /\ \A n \in DOMAIN members[c] : members[c][n] = Content(n)
  /\ Now(c) = "write_manifest" =>
       /\ DOMAIN members[c] = Listed \ {c}
       /\ \A n \in DOMAIN members[c] : members[c][n] = Content(n)
  /\ kind[c] \in Writers /\ Succeeded(c) => MatchesManifest

Command(c) == Lives(c) /\ (c \in quiet => Verifies(c) /\ Builds(c) /\ Seals(c))

\* What a file holds: evidence has no rules, and a local is a function of the commands.
Shape ==
  /\ TypeOK
  /\ dir["evidence"].rules = "none"
  /\ steps = [c \in Commands |-> steps[c]]
  /\ todo = [c \in Commands |-> todo[c]]
  /\ members = [c \in Commands |-> members[c]]
  /\ \A c \in Commands : DOMAIN members[c] \subseteq Names \cup Commands

IInv ==
  /\ Shape
  /\ ManifestCoversOneBuild
  /\ \A c \in Commands : Command(c)

-----------------------------------------------------------------------------
(* The programs. *)

LEMMA Joined ==
  ASSUME NEW S, NEW s \in Seq(S), NEW t \in Seq(S)
  PROVE  /\ s \o t \in Seq(S)
         /\ Len(s \o t) = Len(s) + Len(t)
         /\ \A i \in 1 .. Len(s) : (s \o t)[i] = s[i]
         /\ \A i \in 1 .. Len(t) : (s \o t)[Len(s) + i] = t[i]
  OBVIOUS

\* The parts programs are put together from.
LEMMA Parts ==
  /\ <<"write_evidence">> \in Seq(AllSteps) /\ <<"profile">> \in Seq(AllSteps)
  /\ BuildSteps \in Seq(AllSteps) /\ CompareSteps \in Seq(AllSteps)
  /\ ManifestSteps \in Seq(AllSteps) /\ VerifySteps \in Seq(AllSteps)
  BY DEF AllSteps, WriteSteps, BuildSteps, CompareSteps, ManifestSteps, VerifySteps

LEMMA Entries ==
  /\ Len(<<"write_evidence">>) = 1 /\ <<"write_evidence">>[1] = "write_evidence"
  /\ Len(<<"profile">>) = 1 /\ <<"profile">>[1] = "profile"
  /\ Len(BuildSteps) = 3 /\ BuildSteps[1] = "load" /\ BuildSteps[2] = "write_facts"
  /\ BuildSteps[3] = "write_report"
  /\ Len(CompareSteps) = 2 /\ CompareSteps[1] = "profile" /\ CompareSteps[2] = "write_comparison"
  /\ Len(ManifestSteps) = 3 /\ ManifestSteps[1] = "list" /\ ManifestSteps[2] = "hash"
  /\ ManifestSteps[3] = "write_manifest"
  /\ Len(VerifySteps) = 3 /\ VerifySteps[1] = "read_manifest" /\ VerifySteps[2] = "check"
  /\ VerifySteps[3] = "relist"
  BY DEF BuildSteps, CompareSteps, ManifestSteps, VerifySteps

LEMMA VerifyProgram ==
  LET p == Program("verify")
  IN  p \in Seq(AllSteps) /\ Len(p) = 3 /\ p[1] = "read_manifest" /\ p[2] = "check" /\ p[3] = "relist"
<1>1. Program("verify") = VerifySteps BY DEF Program
<1> QED BY <1>1, Parts, Entries

LEMMA CreateProgram ==
  LET p == Program("create")
  IN  /\ p \in Seq(AllSteps) /\ Len(p) = 4 /\ p[1] = "read_manifest" /\ p[2] = "check"
      /\ p[3] = "relist" /\ p[4] = "profile"
<1> DEFINE p == VerifySteps \o <<"profile">>
<1>1. Program("create") = p BY DEF Program
<1>2. /\ p \in Seq(AllSteps) /\ Len(p) = Len(VerifySteps) + Len(<<"profile">>)
      /\ \A i \in 1 .. Len(VerifySteps) : p[i] = VerifySteps[i]
      /\ \A i \in 1 .. Len(<<"profile">>) : p[Len(VerifySteps) + i] = <<"profile">>[i]
  BY Joined, Parts
<1> HIDE DEF p
<1> QED BY <1>1, <1>2, Entries

LEMMA ReportProgram ==
  LET p == Program("report")
  IN  /\ p \in Seq(AllSteps) /\ Len(p) = 6 /\ p[1] = "load" /\ p[2] = "write_facts"
      /\ p[3] = "write_report" /\ p[4] = "list" /\ p[5] = "hash" /\ p[6] = "write_manifest"
<1> DEFINE p == BuildSteps \o ManifestSteps
<1>1. Program("report") = p BY DEF Program
<1>2. /\ p \in Seq(AllSteps) /\ Len(p) = Len(BuildSteps) + Len(ManifestSteps)
      /\ \A i \in 1 .. Len(BuildSteps) : p[i] = BuildSteps[i]
      /\ \A i \in 1 .. Len(ManifestSteps) : p[Len(BuildSteps) + i] = ManifestSteps[i]
  BY Joined, Parts
<1> HIDE DEF p
<1> QED BY <1>1, <1>2, Entries

LEMMA SnapshotProgram ==
  LET p == Program("snapshot")
  IN  /\ p \in Seq(AllSteps) /\ Len(p) = 7 /\ p[1] = "write_evidence" /\ p[2] = "load"
      /\ p[3] = "write_facts" /\ p[4] = "write_report"
      /\ p[5] = "list" /\ p[6] = "hash" /\ p[7] = "write_manifest"
<1> DEFINE a == <<"write_evidence">> \o BuildSteps
           p == a \o ManifestSteps
<1>1. Program("snapshot") = p BY DEF Program
<1>2. /\ a \in Seq(AllSteps) /\ Len(a) = Len(<<"write_evidence">>) + Len(BuildSteps)
      /\ \A i \in 1 .. Len(<<"write_evidence">>) : a[i] = <<"write_evidence">>[i]
      /\ \A i \in 1 .. Len(BuildSteps) : a[Len(<<"write_evidence">>) + i] = BuildSteps[i]
  BY Joined, Parts
<1>3. /\ Len(a) = 4 /\ a[1] = "write_evidence" /\ a[2] = "load"
      /\ a[3] = "write_facts" /\ a[4] = "write_report"
  <2> HIDE DEF a
  <2> QED BY <1>2, Entries
<1>2a. a \in Seq(AllSteps) BY <1>2
<1> HIDE DEF a
<1>4. /\ p \in Seq(AllSteps) /\ Len(p) = Len(a) + Len(ManifestSteps)
      /\ \A i \in 1 .. Len(a) : p[i] = a[i]
      /\ \A i \in 1 .. Len(ManifestSteps) : p[Len(a) + i] = ManifestSteps[i]
  BY <1>2a, Joined, Parts
<1> HIDE DEF p
<1> QED BY <1>1, <1>3, <1>4, Entries

LEMMA SnapshotBaselineProgram ==
  LET p == Program("snapshot_baseline")
  IN  /\ p \in Seq(AllSteps) /\ Len(p) = 9 /\ p[1] = "write_evidence" /\ p[2] = "load"
      /\ p[3] = "write_facts" /\ p[4] = "write_report"
      /\ p[5] = "profile" /\ p[6] = "write_comparison"
      /\ p[7] = "list" /\ p[8] = "hash" /\ p[9] = "write_manifest"
<1> DEFINE a == <<"write_evidence">> \o BuildSteps
           b == a \o CompareSteps
           p == b \o ManifestSteps
<1>1. Program("snapshot_baseline") = p BY DEF Program
<1>2. /\ a \in Seq(AllSteps) /\ Len(a) = Len(<<"write_evidence">>) + Len(BuildSteps)
      /\ \A i \in 1 .. Len(<<"write_evidence">>) : a[i] = <<"write_evidence">>[i]
      /\ \A i \in 1 .. Len(BuildSteps) : a[Len(<<"write_evidence">>) + i] = BuildSteps[i]
  BY Joined, Parts
<1>3. /\ Len(a) = 4 /\ a[1] = "write_evidence" /\ a[2] = "load"
      /\ a[3] = "write_facts" /\ a[4] = "write_report"
  <2> HIDE DEF a
  <2> QED BY <1>2, Entries
<1>2a. a \in Seq(AllSteps) BY <1>2
<1> HIDE DEF a
<1>4. /\ b \in Seq(AllSteps) /\ Len(b) = Len(a) + Len(CompareSteps)
      /\ \A i \in 1 .. Len(a) : b[i] = a[i]
      /\ \A i \in 1 .. Len(CompareSteps) : b[Len(a) + i] = CompareSteps[i]
  BY <1>2a, Joined, Parts
<1>4a. b \in Seq(AllSteps) BY <1>4
<1> HIDE DEF b
<1>5. /\ Len(b) = 6 /\ b[1] = "write_evidence" /\ b[2] = "load"
      /\ b[3] = "write_facts" /\ b[4] = "write_report"
      /\ b[5] = "profile" /\ b[6] = "write_comparison"
  BY <1>3, <1>4, Entries
<1>6. /\ p \in Seq(AllSteps) /\ Len(p) = Len(b) + Len(ManifestSteps)
      /\ \A i \in 1 .. Len(b) : p[i] = b[i]
      /\ \A i \in 1 .. Len(ManifestSteps) : p[Len(b) + i] = ManifestSteps[i]
  BY <1>4a, Joined, Parts
<1> HIDE DEF p
<1> QED BY <1>1, <1>5, <1>6, Entries

LEMMA CompareProgram ==
  LET p == Program("compare")
  IN  /\ p \in Seq(AllSteps) /\ Len(p) = 8 /\ p[1] = "read_manifest" /\ p[2] = "check"
      /\ p[3] = "relist" /\ p[4] = "profile" /\ p[5] = "write_comparison"
      /\ p[6] = "list" /\ p[7] = "hash" /\ p[8] = "write_manifest"
<1> DEFINE a == VerifySteps \o CompareSteps
           p == a \o ManifestSteps
<1>1. Program("compare") = p BY DEF Program
<1>2. /\ a \in Seq(AllSteps) /\ Len(a) = Len(VerifySteps) + Len(CompareSteps)
      /\ \A i \in 1 .. Len(VerifySteps) : a[i] = VerifySteps[i]
      /\ \A i \in 1 .. Len(CompareSteps) : a[Len(VerifySteps) + i] = CompareSteps[i]
  BY Joined, Parts
<1>2a. a \in Seq(AllSteps) BY <1>2
<1> HIDE DEF a
<1>3. /\ Len(a) = 5 /\ a[1] = "read_manifest" /\ a[2] = "check"
      /\ a[3] = "relist" /\ a[4] = "profile" /\ a[5] = "write_comparison"
  BY <1>2, Entries
<1>4. /\ p \in Seq(AllSteps) /\ Len(p) = Len(a) + Len(ManifestSteps)
      /\ \A i \in 1 .. Len(a) : p[i] = a[i]
      /\ \A i \in 1 .. Len(ManifestSteps) : p[Len(a) + i] = ManifestSteps[i]
  BY <1>2a, Joined, Parts
<1> HIDE DEF p
<1> QED BY <1>1, <1>3, <1>4, Entries

\* Taking the first step off what is left of a program.
LEMMA AfterFirst ==
  ASSUME NEW p \in Seq(AllSteps), NEW s \in Seq(AllSteps), s # <<>>,
         NEW i \in 1 .. Len(p) + 1, Len(s) = Len(p) + 1 - i,
         \A j \in 1 .. Len(s) : s[j] = p[i + j - 1]
  PROVE  /\ i \in 1 .. Len(p) /\ Head(s) = p[i] /\ Tail(s) \in Seq(AllSteps)
         /\ i + 1 \in 1 .. Len(p) + 1 /\ Len(Tail(s)) = Len(p) + 1 - (i + 1)
         /\ \A j \in 1 .. Len(Tail(s)) : Tail(s)[j] = p[(i + 1) + j - 1]
         /\ i = Len(p) => Tail(s) = <<>>
         /\ i < Len(p) => Tail(s) # <<>> /\ Head(Tail(s)) = p[i + 1]
<1> DEFINE t == Tail(s)
<1>1. Len(p) \in Nat /\ Len(s) \in Nat \ {0} /\ i <= Len(p) OBVIOUS
<1>2. Head(s) = p[i] BY <1>1
<1>3. t \in Seq(AllSteps) /\ Len(t) = Len(s) - 1 /\ \A j \in 1 .. Len(t) : t[j] = s[j + 1]
  BY <1>1
<1> HIDE DEF t
<1>4. \A j \in 1 .. Len(t) : t[j] = p[(i + 1) + j - 1]
  <2> TAKE j \in 1 .. Len(t)
  <2>1. j + 1 \in 1 .. Len(s) /\ i + (j + 1) - 1 = (i + 1) + j - 1 BY <1>1, <1>3
  <2> QED BY <2>1, <1>3
<1>5. i = Len(p) => t = <<>> BY <1>1, <1>3
<1>6. i < Len(p) => t # <<>> /\ Head(t) = p[i + 1]
  <2> SUFFICES ASSUME i < Len(p) PROVE t # <<>> /\ Head(t) = p[i + 1]
    OBVIOUS
  <2>1. 1 \in 1 .. Len(t) BY <1>1, <1>3
  <2>2. t[1] = p[i + 1] BY <2>1, <1>1, <1>4
  <2> QED BY <2>1, <2>2, <1>3
<1> QED BY <1>1, <1>2, <1>3, <1>4, <1>5, <1>6 DEF t

\* A command does the steps of its program in their order.
LEMMA NextStep ==
  ASSUME NEW k \in Kinds, NEW s, Remains(k, s), s # <<>>
  PROVE  /\ Head(s) \in AllSteps
         /\ k \in Having(Head(s))
         /\ Remains(k, Tail(s))
         /\ First(Tail(s)) = Following(k, Head(s))
<1> DEFINE p == Program(k)
<1>1. PICK i \in 1 .. Len(p) + 1 :
        Len(s) = Len(p) + 1 - i /\ \A j \in 1 .. Len(s) : s[j] = p[i + j - 1]
  BY DEF Remains
<1>2. s \in Seq(AllSteps) BY DEF Remains
<1>3. p \in Seq(AllSteps)
  BY VerifyProgram, CreateProgram, ReportProgram, CompareProgram, SnapshotProgram,
     SnapshotBaselineProgram DEF Kinds, Writers, Snapshots
<1> HIDE DEF p
<1>4. /\ i \in 1 .. Len(p) /\ Head(s) = p[i]
      /\ i + 1 \in 1 .. Len(p) + 1 /\ Tail(s) \in Seq(AllSteps)
      /\ Len(Tail(s)) = Len(p) + 1 - (i + 1)
      /\ \A j \in 1 .. Len(Tail(s)) : Tail(s)[j] = p[(i + 1) + j - 1]
      /\ First(Tail(s)) = IF i = Len(p) THEN "end" ELSE p[i + 1]
  BY <1>1, <1>2, <1>3, AfterFirst DEF First
<1>5. Remains(k, Tail(s)) BY <1>4 DEF Remains, p
<1>6. Head(s) \in AllSteps BY <1>3, <1>4
<1>7. k \in Having(p[i]) /\ Following(k, p[i]) = IF i = Len(p) THEN "end" ELSE p[i + 1]
  <2> USE DEF Having, Following, Builders, Writers, Snapshots
  <2>1. CASE k = "verify"
    <3>1. i \in 1 .. 3 BY <2>1, <1>4, VerifyProgram DEF p
    <3>2. /\ Len(p) = 3 /\ p[1] = "read_manifest" /\ p[2] = "check" /\ p[3] = "relist"
      BY <2>1, VerifyProgram DEF p
    <3> QED BY <2>1, <3>1, <3>2
  <2>2. CASE k = "create"
    <3>1. i \in 1 .. 4 BY <2>2, <1>4, CreateProgram DEF p
    <3>2. /\ Len(p) = 4 /\ p[1] = "read_manifest" /\ p[2] = "check" /\ p[3] = "relist"
          /\ p[4] = "profile"
      BY <2>2, CreateProgram DEF p
    <3> QED BY <2>2, <3>1, <3>2
  <2>3. CASE k = "report"
    <3>1. i \in 1 .. 6 BY <2>3, <1>4, ReportProgram DEF p
    <3>2. /\ Len(p) = 6 /\ p[1] = "load" /\ p[2] = "write_facts" /\ p[3] = "write_report"
          /\ p[4] = "list" /\ p[5] = "hash" /\ p[6] = "write_manifest"
      BY <2>3, ReportProgram DEF p
    <3> QED BY <2>3, <3>1, <3>2
  <2>4. CASE k = "compare"
    <3>1. i \in 1 .. 8 BY <2>4, <1>4, CompareProgram DEF p
    <3>2. /\ Len(p) = 8 /\ p[1] = "read_manifest" /\ p[2] = "check" /\ p[3] = "relist"
          /\ p[4] = "profile" /\ p[5] = "write_comparison" /\ p[6] = "list"
          /\ p[7] = "hash" /\ p[8] = "write_manifest"
      BY <2>4, CompareProgram DEF p
    <3> QED BY <2>4, <3>1, <3>2
  <2>5. CASE k = "snapshot"
    <3>1. i \in 1 .. 7 BY <2>5, <1>4, SnapshotProgram DEF p
    <3>2. /\ Len(p) = 7 /\ p[1] = "write_evidence" /\ p[2] = "load"
          /\ p[3] = "write_facts" /\ p[4] = "write_report" /\ p[5] = "list"
          /\ p[6] = "hash" /\ p[7] = "write_manifest"
      BY <2>5, SnapshotProgram DEF p
    <3> QED BY <2>5, <3>1, <3>2
  <2>6. CASE k = "snapshot_baseline"
    <3>1. i \in 1 .. 9 BY <2>6, <1>4, SnapshotBaselineProgram DEF p
    <3>2. /\ Len(p) = 9 /\ p[1] = "write_evidence" /\ p[2] = "load"
          /\ p[3] = "write_facts" /\ p[4] = "write_report" /\ p[5] = "profile"
          /\ p[6] = "write_comparison" /\ p[7] = "list" /\ p[8] = "hash"
          /\ p[9] = "write_manifest"
      BY <2>6, SnapshotBaselineProgram DEF p
    <3> QED BY <2>6, <3>1, <3>2
  <2> QED BY <2>1, <2>2, <2>3, <2>4, <2>5, <2>6 DEF Kinds
<1> QED BY <1>4, <1>5, <1>6, <1>7

\* A new command is at the first step of its program.
LEMMA FirstStep ==
  ASSUME NEW k \in Kinds
  PROVE  /\ Remains(k, Program(k)) /\ Program(k) # <<>>
         /\ First(Program(k)) = IF k \in Snapshots THEN "write_evidence"
                                ELSE IF k = "report" THEN "load" ELSE "read_manifest"
<1>1. /\ Program(k) \in Seq(AllSteps) /\ Len(Program(k)) # 0
      /\ Program(k)[1] = IF k \in Snapshots THEN "write_evidence"
                         ELSE IF k = "report" THEN "load" ELSE "read_manifest"
  <2> USE DEF Snapshots
  <2>1. CASE k = "verify" BY <2>1, VerifyProgram
  <2>2. CASE k = "create" BY <2>2, CreateProgram
  <2>3. CASE k = "report" BY <2>3, ReportProgram
  <2>4. CASE k = "compare" BY <2>4, CompareProgram
  <2>5. CASE k = "snapshot" BY <2>5, SnapshotProgram
  <2>6. CASE k = "snapshot_baseline" BY <2>6, SnapshotBaselineProgram
  <2> QED BY <2>1, <2>2, <2>3, <2>4, <2>5, <2>6 DEF Kinds, Writers
<1> DEFINE p == Program(k)
<1>2. p \in Seq(AllSteps) /\ Len(p) # 0 BY <1>1
<1> HIDE DEF p
<1>3. p # <<>> /\ Head(p) = p[1] /\ Len(p) \in Nat BY <1>2
<1>4. 1 \in 1 .. Len(p) + 1 /\ Len(p) = Len(p) + 1 - 1 /\ \A j \in 1 .. Len(p) : p[j] = p[1 + j - 1]
  BY <1>3
<1> QED BY <1>1, <1>2, <1>3, <1>4 DEF p, Remains, First

\* A snapshot that raises in its comparison goes on with the manifest.
LEMMA ManifestRemains ==
  /\ Remains("snapshot_baseline", ManifestSteps)
  /\ ManifestSteps # <<>> /\ First(ManifestSteps) = "list"
  /\ \A k \in Kinds : Remains(k, <<>>)
<1>1. ManifestSteps \in Seq(AllSteps) /\ ManifestSteps # <<>> /\ Head(ManifestSteps) = "list"
  BY Parts DEF ManifestSteps
<1>2. Remains("snapshot_baseline", ManifestSteps)
  <2> DEFINE p == Program("snapshot_baseline")
  <2>1. /\ Len(p) = 9 /\ p[7] = "list" /\ p[8] = "hash" /\ p[9] = "write_manifest"
    BY SnapshotBaselineProgram
  <2> HIDE DEF p
  <2>2. /\ 7 \in 1 .. Len(p) + 1 /\ Len(ManifestSteps) = Len(p) + 1 - 7
        /\ \A j \in 1 .. Len(ManifestSteps) : ManifestSteps[j] = p[7 + j - 1]
    <3>1. \A j \in 1 .. 3 : j = 1 \/ j = 2 \/ j = 3 OBVIOUS
    <3> QED BY <2>1, <3>1, Entries
  <2> QED BY <2>2, <1>1 DEF Remains, p
<1>3. ASSUME NEW k \in Kinds PROVE Remains(k, <<>>)
  <2> DEFINE p == Program(k)
  <2>1. p \in Seq(AllSteps)
    BY VerifyProgram, CreateProgram, ReportProgram, CompareProgram, SnapshotProgram,
       SnapshotBaselineProgram DEF Kinds, Writers, Snapshots
  <2> HIDE DEF p
  <2>2. /\ <<>> \in Seq(AllSteps) /\ Len(p) + 1 \in 1 .. Len(p) + 1
        /\ Len(<<>>) = Len(p) + 1 - (Len(p) + 1)
        /\ \A j \in 1 .. Len(<<>>) : <<>>[j] = p[(Len(p) + 1) + j - 1]
    BY <2>1
  <2> QED BY <2>2 DEF Remains, p
<1> QED BY <1>1, <1>2, <1>3 DEF First

-----------------------------------------------------------------------------
(* What the parts of an action do. *)

\* Where a running command is.
LEMMA Stands ==
  ASSUME Shape, NEW c \in Commands, Lives(c), Running(c)
  PROVE  /\ kind[c] \in Kinds /\ Now(c) = Head(steps[c]) /\ Now(c) \in AllSteps
         /\ kind[c] \in Having(Now(c))
         /\ outcome[c] # "killed"
         /\ c \in temps => Now(c) \in WriteSteps
         /\ kind[c] \in Writers => c \in quiet \/ raced
<1>1. kind[c] \in Kinds /\ Remains(kind[c], steps[c]) /\ steps[c] # <<>>
  BY DEF Shape, TypeOK, Lives, Running
<1>2. Now(c) = Head(steps[c]) BY <1>1 DEF Now, First
<1> QED BY <1>1, <1>2, NextStep DEF Lives

LEMMA AdvanceEffect ==
  ASSUME Shape, NEW c \in Commands, Lives(c), Running(c), Advance(c)
  PROVE  /\ steps' = [d \in Commands |-> steps'[d]]
         /\ \A d \in Commands \ {c} : steps'[d] = steps[d]
         /\ Remains(kind[c], steps'[c])
         /\ First(steps'[c]) = Following(kind[c], Now(c))
<1>1. /\ steps'[c] = Tail(steps[c])
      /\ \A d \in Commands \ {c} : steps'[d] = steps[d]
      /\ steps' = [d \in Commands |-> steps'[d]]
  BY DEF Shape, Advance
<1>2. kind[c] \in Kinds /\ Remains(kind[c], steps[c]) /\ steps[c] # <<>>
  BY DEF Shape, TypeOK, Lives, Running
<1>3. Remains(kind[c], Tail(steps[c])) BY <1>2, NextStep
<1>4. First(Tail(steps[c])) = Following(kind[c], Head(steps[c])) BY <1>2, NextStep
<1>5. Now(c) = Head(steps[c]) BY Stands
<1>6. Remains(kind[c], steps'[c]) BY <1>1, <1>3
<1>7. First(steps'[c]) = Following(kind[c], Now(c)) BY <1>1, <1>4, <1>5, Zenon
<1> QED BY <1>1, <1>6, <1>7

LEMMA ForgetEffect ==
  ASSUME Shape, NEW c \in Commands, Forget(c)
  PROVE  /\ loaded'[c] = Absent /\ todo'[c] = {} /\ members'[c] = <<>>
         /\ loaded' \in [Commands -> Contents]
         /\ todo' = [d \in Commands |-> todo'[d]] /\ members' = [d \in Commands |-> members'[d]]
         /\ \A d \in Commands : todo'[d] \subseteq Names \cup Commands
         /\ \A d \in Commands \ {c} :
              loaded'[d] = loaded[d] /\ todo'[d] = todo[d] /\ members'[d] = members[d]
  BY DEF Shape, TypeOK, Forget, Absent, Contents

LEMMA RaiseEffect ==
  ASSUME Shape, NEW c \in Commands, Lives(c), Running(c), Raise(c)
  PROVE  /\ steps' = [d \in Commands |-> steps'[d]]
         /\ \A d \in Commands \ {c} : steps'[d] = steps[d] /\ outcome'[d] = outcome[d]
         /\ Remains(kind[c], steps'[c])
         /\ outcome' \in [Commands -> {"none", "raised", "killed"}] /\ outcome'[c] = "raised"
         /\ IF kind[c] = "snapshot_baseline" /\ Now(c) \in {"profile", "write_comparison"}
            THEN steps'[c] # <<>> /\ First(steps'[c]) = "list" ELSE steps'[c] = <<>>
<1>1. /\ outcome' = [outcome EXCEPT ![c] = "raised"]
      /\ steps'[c] = IF kind[c] = "snapshot_baseline"
                        /\ Head(steps[c]) \in {"profile", "write_comparison"}
                     THEN ManifestSteps ELSE <<>>
      /\ \A d \in Commands \ {c} : steps'[d] = steps[d]
      /\ steps' = [d \in Commands |-> steps'[d]]
  BY DEF Shape, Raise
<1>2. kind[c] \in Kinds /\ Now(c) = Head(steps[c]) BY Stands
<1> QED BY <1>1, <1>2, ManifestRemains DEF Shape, TypeOK

-----------------------------------------------------------------------------
(* The commands that do not take the step. *)

Unmoved(d) ==
  /\ kind'[d] = kind[d] /\ rules'[d] = rules[d] /\ steps'[d] = steps[d] /\ loaded'[d] = loaded[d]
  /\ todo'[d] = todo[d] /\ members'[d] = members[d] /\ outcome'[d] = outcome[d]

SameDirectory == UNCHANGED <<dir, manifest, temps>>

LEMMA SameDirectoryEffect ==
  ASSUME SameDirectory
  PROVE  /\ Listed' = Listed /\ \A n : Content(n)' = Content(n)
         /\ MatchesManifest' <=> MatchesManifest
         /\ OneBuild' <=> OneBuild
  BY DEF SameDirectory, Listed, Content, MatchesManifest, OneBuild

\* Nothing changes for a command when another reads.
LEMMA ReadingLeaves ==
  ASSUME NEW d \in Commands, Command(d), Unmoved(d), SameDirectory,
         d \in quiet' <=> d \in quiet, raced' = raced
  PROVE  Command(d)'
<1>1. Now(d)' = Now(d) /\ (Running(d)' <=> Running(d)) /\ (Succeeded(d)' <=> Succeeded(d))
  BY DEF Unmoved, Now, Running, Succeeded
<1>2. Lives(d)' BY <1>1 DEF Command, Lives, Unmoved, SameDirectory
<1>3. Derived(d)' = Derived(d) BY DEF Derived, Unmoved
<1>4. ASSUME d \in quiet PROVE Verifies(d)' /\ Builds(d)' /\ Seals(d)'
  <2> USE SameDirectoryEffect, <1>1, <1>3, <1>4
  <2>1. Verifies(d)' BY DEF Command, Verifies, Unmoved, SameDirectory
  <2>2. Builds(d)' BY DEF Command, Builds, Unmoved, SameDirectory
  <2>3. Seals(d)' BY DEF Command, Seals, Unmoved, SameDirectory
  <2> QED BY <2>1, <2>2, <2>3
<1> QED BY <1>2, <1>4 DEF Command

\* A command that was running when another changes the directory is not quiet
\* any more, and a writer among them makes it a race.
LEMMA ChangingDisturbs ==
  ASSUME NEW c \in Commands, NEW d \in Commands \ {c}, Command(d), Unmoved(d),
         Disturbs(Commands \ {c}), d \in temps' <=> d \in temps
  PROVE  Command(d)'
<1>1. Now(d)' = Now(d) /\ (Running(d)' <=> Running(d))
  BY DEF Unmoved, Now, Running
<1>2. d \notin quiet' /\ (raced => raced') /\ (Running(d) /\ kind[d] \in Writers => raced')
  BY DEF Disturbs
<1> QED BY <1>1, <1>2 DEF Command, Lives, Unmoved

-----------------------------------------------------------------------------
(* The command that takes the step. *)

\* A command may raise where verify only does when the directory does not match.
LEMMA RaisingKeeps ==
  ASSUME Shape, NEW c \in Commands, Command(c), Running(c), Raise(c),
         UNCHANGED <<dir, manifest, kind, rules>>,
         c \notin temps', c \in quiet' => c \in quiet, raced \/ c \in quiet => raced' \/ c \in quiet',
         c \in quiet' /\ kind[c] = "verify" => ~MatchesManifest'
  PROVE  Command(c)'
<1>1. /\ outcome'[c] = "raised" /\ Remains(kind[c], steps'[c]) /\ kind[c] \in Kinds
      /\ IF kind[c] = "snapshot_baseline" /\ Now(c) \in {"profile", "write_comparison"}
         THEN steps'[c] # <<>> /\ First(steps'[c]) = "list" ELSE steps'[c] = <<>>
  BY RaiseEffect, Stands DEF Command
<1>2. CASE kind[c] = "snapshot_baseline" /\ Now(c) \in {"profile", "write_comparison"}
  <2>1. Now(c)' = "list" /\ Running(c)' BY <1>1, <1>2 DEF Now, Running
  <2>2. Lives(c)' BY <1>1, <1>2, <2>1, Stands DEF Command, Lives, Writers, Snapshots
  <2>3. ASSUME c \in quiet' PROVE Builds(c)'
    <3>1. OneBuild BY <1>2, <2>3 DEF Command, Builds, AfterReport, Builders, Snapshots
    <3>2. OneBuild' BY <3>1 DEF OneBuild
    <3> QED BY <1>2, <2>1, <3>2 DEF Builds
  <2>4. Verifies(c)' /\ Seals(c)' BY <1>2, <2>1 DEF Verifies, Seals, Succeeded
  <2> QED BY <2>2, <2>3, <2>4 DEF Command
<1>3. CASE ~(kind[c] = "snapshot_baseline" /\ Now(c) \in {"profile", "write_comparison"})
  <2>1. Now(c)' = "end" /\ ~Running(c)' BY <1>1, <1>3 DEF Now, First, Running
  <2>2. Lives(c)' BY <1>1, <2>1 DEF Command, Lives, Kinds, Writers, Snapshots
  <2>3. ~Succeeded(c)' BY <1>1 DEF Succeeded
  <2>4. ASSUME c \in quiet' PROVE Verifies(c)' BY <1>1, <2>1, <2>3, <2>4 DEF Verifies
  <2>5. Builds(c)' /\ Seals(c)' BY <2>1, <2>3 DEF Builds, Seals, AfterReport
  <2> QED BY <2>2, <2>4, <2>5 DEF Command
<1> QED BY <1>2, <1>3

\* Reading steps: the directory stays, and a temporary file of the command there is none.
LEMMA ReadersRaise ==
  ASSUME Shape, NEW c \in Commands, Command(c), Running(c), Raise(c),
         Now(c) \notin WriteSteps, UNCHANGED <<kind, rules>>, Undisturbing,
         c \in quiet /\ kind[c] = "verify" => ~MatchesManifest
  PROVE  Command(c)'
<1>1. c \notin temps BY Stands DEF Command
<1>2. MatchesManifest' <=> MatchesManifest
  BY SameDirectoryEffect DEF Undisturbing, SameDirectory
<1> QED BY <1>1, <1>2, RaisingKeeps DEF Undisturbing

LEMMA LoadKeeps ==
  ASSUME Shape, NEW c \in Commands, Command(c), Load(c)
  PROVE  Command(c)'
<1>1. Running(c) /\ Now(c) = "load" BY DEF Load, At, Running, Now, First
<1>2. kind[c] \in Builders BY <1>1, Stands DEF Command, Having
<1>3. CASE Raise(c)
  BY <1>1, <1>2, <1>3, ReadersRaise DEF Load, WriteSteps, Builders, Snapshots
<1>4. CASE /\ dir["evidence"] # Absent
           /\ loaded' = [loaded EXCEPT ![c] = dir["evidence"]]
           /\ Advance(c)
           /\ UNCHANGED <<todo, members, outcome>>
  <2>1. Remains(kind[c], steps'[c]) /\ First(steps'[c]) = "write_facts"
    BY <1>1, <1>4, AdvanceEffect DEF Command, Following
  <2>2. Now(c)' = "write_facts" /\ Running(c)' BY <2>1 DEF Now, First, Running
  <2>3. loaded'[c] = dir["evidence"] BY <1>4 DEF Shape, TypeOK
  <2>4. UNCHANGED <<kind, rules, dir, manifest, temps, quiet, raced, outcome>>
    BY <1>4 DEF Load, Undisturbing
  <2>5. Lives(c)'
    BY <1>1, <1>2, <2>1, <2>2, <2>4, Stands DEF Command, Lives, WriteSteps, Builders, Writers, Snapshots
  <2>6. Builds(c)' BY <1>4, <2>2, <2>3, <2>4 DEF Builds, AfterReport
  <2>7. Verifies(c)' /\ Seals(c)' BY <2>2 DEF Verifies, Seals, Succeeded
  <2> QED BY <2>5, <2>6, <2>7 DEF Command
<1> QED BY <1>3, <1>4 DEF Load

LEMMA ProfileKeeps ==
  ASSUME Shape, ManifestCoversOneBuild, NEW c \in Commands, Command(c), Profile(c)
  PROVE  Command(c)'
<1>1. Running(c) /\ Now(c) = "profile" BY DEF Profile, At, Running, Now, First
<1>2. kind[c] \in {"snapshot_baseline", "compare", "create"} BY <1>1, Stands DEF Command, Having
<1>3. CASE Raise(c)
  BY <1>1, <1>2, <1>3, ReadersRaise DEF Profile, WriteSteps
<1>4. CASE /\ dir["evidence"] # Absent /\ dir["report"] # Absent
           /\ loaded' = [loaded EXCEPT ![c] = dir["evidence"]]
           /\ Advance(c)
           /\ UNCHANGED <<todo, members, outcome>>
  <2>1. /\ Remains(kind[c], steps'[c])
        /\ First(steps'[c]) = IF kind[c] = "create" THEN "end" ELSE "write_comparison"
    BY <1>1, <1>4, AdvanceEffect DEF Command, Following
  <2>2. /\ Now(c)' = IF kind[c] = "create" THEN "end" ELSE "write_comparison"
        /\ kind[c] # "create" => Running(c)'
    BY <2>1 DEF Now, First, Running
  <2>3. loaded'[c] = dir["evidence"] BY <1>4 DEF Shape, TypeOK
  <2>4. UNCHANGED <<kind, rules, dir, manifest, temps, quiet, raced, outcome>>
    BY <1>4 DEF Profile, Undisturbing
  <2>5. Lives(c)'
    BY <1>1, <1>2, <2>1, <2>2, <2>4, Stands DEF Command, Lives, WriteSteps, Builders, Writers, Snapshots
  <2>6. (MatchesManifest' <=> MatchesManifest) /\ (OneBuild' <=> OneBuild)
    BY <2>4, SameDirectoryEffect DEF SameDirectory
  <2>7. ASSUME c \in quiet PROVE Verifies(c)' /\ Builds(c)' /\ Seals(c)'
    <3>1. kind[c] \in {"compare", "create"} => MatchesManifest
      BY <1>1, <2>7 DEF Command, Verifies
    <3>2. kind[c] = "snapshot_baseline" => OneBuild
      BY <1>1, <2>7 DEF Command, Builds, AfterReport, Builders, Snapshots
    <3>3. MatchesManifest => raced \/ OneBuild
      <4> SUFFICES ASSUME MatchesManifest, ~raced PROVE OneBuild
        OBVIOUS
      <4>1. /\ {"evidence", "facts", "report"} \subseteq DOMAIN manifest
            /\ manifest["facts"] = manifest["report"]
            /\ manifest["report"].of = manifest["evidence"].of
            /\ manifest["report"].rules # "none"
        BY DEF MatchesManifest, ManifestCoversOneBuild
      <4>2. /\ manifest["facts"] = dir["facts"] /\ manifest["report"] = dir["report"]
            /\ manifest["evidence"] = dir["evidence"]
        BY <4>1, TemporaryNames DEF MatchesManifest, Content, Names, Shape, TypeOK
      <4> QED BY <1>4, <4>1, <4>2 DEF OneBuild
    <3>4. Verifies(c)' BY <1>2, <2>2, <2>3, <2>4, <2>6, <3>1 DEF Verifies, Succeeded
    <3>5. Builds(c)' BY <1>2, <1>4, <2>2, <2>4, <2>6, <3>1, <3>2, <3>3 DEF Builds, Builders, Snapshots
    <3>6. Seals(c)' BY <1>2, <2>2, <2>4 DEF Seals, Succeeded, Writers, Snapshots
    <3> QED BY <3>4, <3>5, <3>6
  <2> QED BY <2>4, <2>5, <2>7 DEF Command
<1> QED BY <1>3, <1>4 DEF Profile

LEMMA OpenTempKeeps ==
  ASSUME Shape, NEW c \in Commands, Command(c), OpenTemp(c)
  PROVE  Command(c)'
<1>1. Running(c) /\ Now(c) \in WriteSteps BY DEF OpenTemp, Running, Now, First
<1>2. /\ UNCHANGED <<dir, manifest, cmdVars>> /\ temps' = temps \cup {c} /\ c \notin Names
      /\ (c \in quiet' <=> c \in quiet) /\ (raced => raced')
  BY TemporaryNames DEF OpenTemp, Disturbs
<1>3. Now(c)' = Now(c) /\ (Running(c)' <=> Running(c)) BY <1>2 DEF Now, Running, cmdVars
<1>4. Listed' = Listed \cup {c} /\ \A n : n # c => Content(n)' = Content(n)
  BY <1>2 DEF Listed, Content
<1>5. Lives(c)' BY <1>1, <1>2, <1>3 DEF Command, Lives, cmdVars
<1>6. ASSUME c \in quiet PROVE Verifies(c)' /\ Builds(c)' /\ Seals(c)'
  <2>1. Verifies(c)' BY <1>1, <1>3 DEF Verifies, WriteSteps, Succeeded
  <2>2. Builds(c)' BY <1>2, <1>3, <1>6 DEF Command, Builds, Derived, OneBuild, cmdVars
  <2>3. Seals(c)' BY <1>1, <1>2, <1>3, <1>4, <1>6 DEF Command, Seals, WriteSteps, Succeeded, cmdVars
  <2> QED BY <2>1, <2>2, <2>3
<1> QED BY <1>2, <1>5, <1>6 DEF Command

\* A step that goes well: the command is at the next one.
LEMMA Advancing ==
  ASSUME Shape, NEW c \in Commands, Lives(c), Running(c), Advance(c),
         UNCHANGED <<kind, rules, outcome>>,
         c \notin temps', c \in quiet' <=> c \in quiet, raced => raced'
  PROVE  /\ Lives(c)' /\ Now(c)' = Following(kind[c], Now(c))
         /\ Running(c)' <=> Now(c)' # "end"
<1>1. Remains(kind[c], steps'[c]) /\ First(steps'[c]) = Following(kind[c], Now(c))
  BY AdvanceEffect
<1>2. kind[c] \in Kinds BY Stands
<1>3. Now(c)' = Following(kind[c], Now(c)) BY <1>1 DEF Now
<1>4. Running(c)' <=> Now(c)' # "end"
  <2>1. steps'[c] \in Seq(AllSteps) BY <1>1 DEF Remains
  <2>2. steps'[c] # <<>> => Head(steps'[c]) \in AllSteps BY <2>1
  <2>3. "end" \notin AllSteps BY DEF AllSteps, WriteSteps
  <2> QED BY <2>2, <2>3 DEF Running, Now, First
<1>5. Lives(c)' BY <1>1, <1>2, Stands DEF Lives, Kinds, Writers, Snapshots, Running
<1> QED BY <1>3, <1>4, <1>5

LEMMA RenameKeeps ==
  ASSUME Shape, NEW c \in Commands, Command(c), Rename(c)
  PROVE  Command(c)'
<1>1. /\ Running(c) /\ c \in temps /\ Lives(c) /\ Advance(c) /\ temps' = temps \ {c}
      /\ UNCHANGED <<kind, rules, outcome>> /\ c \notin Names
      /\ (c \in quiet' <=> c \in quiet) /\ (raced => raced')
  BY TemporaryNames DEF Rename, Disturbs, Command
<1>2. Now(c) \in WriteSteps /\ kind[c] \in Having(Now(c)) /\ Now(c) = Head(steps[c])
  BY <1>1, Stands
<1>3. /\ Lives(c)' /\ Now(c)' = Following(kind[c], Now(c))
      /\ Running(c)' <=> Now(c)' # "end"
  BY <1>1, Advancing
<1>4. Now(c) = "write_manifest" =>
        manifest' = members[c] /\ UNCHANGED dir
  BY <1>1, <1>2 DEF Rename, At, Running
<1>5. Now(c) # "write_manifest" =>
        /\ dir' = [dir EXCEPT ![Target(Now(c))] =
                     IF Now(c) = "write_evidence" THEN Evidence ELSE Derived(c)]
        /\ UNCHANGED <<manifest, loaded, todo, members>>
  BY <1>1, <1>2 DEF Rename, At, Running, NewContent
<1>6. DOMAIN dir = Names BY DEF Shape, TypeOK
<1>7. ASSUME c \in quiet PROVE Verifies(c)' /\ Builds(c)' /\ Seals(c)'
  <2>1. CASE Now(c) = "write_evidence"
    <3>1. Now(c)' = "load" /\ Running(c)' /\ kind'[c] \in Snapshots
      BY <1>1, <1>2, <1>3, <2>1 DEF Following, Having
    <3> QED BY <3>1 DEF Verifies, Builds, Seals, AfterReport, Succeeded, Snapshots
  <2>2. CASE Now(c) = "write_facts"
    <3>1. Now(c)' = "write_report" /\ Running(c)'
      BY <1>3, <2>2 DEF Following
    <3>2. dir'["facts"] = Derived(c) /\ dir'["evidence"] = dir["evidence"]
      BY <1>5, <1>6, <2>2 DEF Target, Names
    <3>3. Derived(c)' = Derived(c) BY <1>1, <1>5, <2>2 DEF Derived
    <3>4. loaded'[c] = dir["evidence"] /\ dir["evidence"] # Absent
      BY <1>5, <1>7, <2>2 DEF Command, Builds
    <3> QED BY <3>1, <3>2, <3>3, <3>4 DEF Verifies, Builds, Seals, AfterReport, Succeeded
  <2>3. CASE Now(c) = "write_report"
    <3>1. kind[c] \in Builders /\ Running(c)'
          /\ Now(c)' = IF kind[c] = "snapshot_baseline" THEN "profile" ELSE "list"
      BY <1>2, <1>3, <2>3 DEF Following, Having
    <3>2. dir'["report"] = Derived(c) /\ dir'["evidence"] = dir["evidence"] /\ dir'["facts"] = dir["facts"]
      BY <1>5, <1>6, <2>3 DEF Target, Names
    <3>3. loaded[c] = dir["evidence"] /\ dir["evidence"] # Absent /\ dir["facts"] = Derived(c)
      BY <1>7, <2>3 DEF Command, Builds
    <3>4. rules[c] # "none" BY <3>1, <1>1 DEF Lives
    <3>5. OneBuild' BY <3>2, <3>3, <3>4 DEF OneBuild, Derived
    <3>6. Verifies(c)' BY <1>1, <3>1 DEF Verifies, Builders, Snapshots, Succeeded
    <3>7. Builds(c)' BY <1>1, <3>1, <3>5 DEF Builds, Builders, Snapshots
    <3> QED BY <3>1, <3>6, <3>7 DEF Seals, Succeeded
  <2>4. CASE Now(c) = "write_comparison"
    <3>1. kind[c] \in {"snapshot_baseline", "compare"} /\ Running(c)' /\ Now(c)' = "list"
      BY <1>2, <1>3, <2>4 DEF Following, Having
    <3>2. dir'["report"] = dir["report"] /\ dir'["evidence"] = dir["evidence"] /\ dir'["facts"] = dir["facts"]
      BY <1>5, <1>6, <2>4 DEF Target, Names
    <3>3. OneBuild' <=> OneBuild BY <3>2 DEF OneBuild
    <3>4. Builds(c)' BY <1>1, <1>7, <2>4, <3>1, <3>2, <3>3 DEF Command, Builds, AfterReport
    <3> QED BY <3>1, <3>4 DEF Verifies, Seals, Succeeded
  <2>5. CASE Now(c) = "write_manifest"
    <3>1. kind[c] \in Writers /\ ~Running(c)' /\ Now(c)' = "end"
      BY <1>2, <1>3, <2>5 DEF Following, Having
    <3>2. DOMAIN members[c] = Listed \ {c} /\ \A n \in DOMAIN members[c] : members[c][n] = Content(n)
      BY <1>7, <2>5 DEF Command, Seals
    <3>3. Listed' = Listed \ {c} /\ \A n : n # c => Content(n)' = Content(n)
      BY <1>1, <1>4, <2>5 DEF Listed, Content
    <3>4. dir["report"] # Absent
      <4>1. kind[c] \in Builders => OneBuild BY <1>7, <2>5 DEF Command, Builds, AfterReport
      <4>2. kind[c] = "compare" => dir["report"] # Absent
        BY <1>7, <2>5 DEF Command, Builds, AfterReport
      <4> QED BY <3>1, <4>1, <4>2 DEF OneBuild, Absent, Writers, Builders
    <3>5. "report" \in Listed' BY <1>1, <1>4, <2>5, <3>4 DEF Listed, Names
    <3>6. MatchesManifest' BY <1>4, <2>5, <3>2, <3>3, <3>5 DEF MatchesManifest
    <3>7. Verifies(c)' BY <1>1, <3>1, <3>6 DEF Verifies, Writers, Snapshots
    <3> QED BY <3>1, <3>6, <3>7 DEF Builds, Seals, AfterReport
  <2> QED BY <1>2, <2>1, <2>2, <2>3, <2>4, <2>5 DEF WriteSteps
<1> QED BY <1>1, <1>3, <1>7 DEF Command

LEMMA WriteFailsKeeps ==
  ASSUME Shape, NEW c \in Commands, Command(c), WriteFails(c)
  PROVE  Command(c)'
<1>1. /\ Running(c) /\ c \in temps /\ Raise(c) /\ c \notin temps'
      /\ UNCHANGED <<dir, manifest, kind, rules>>
      /\ (c \in quiet' <=> c \in quiet) /\ (raced => raced')
  BY DEF WriteFails, Disturbs
<1>2. Now(c) \in WriteSteps /\ kind[c] \in Having(Now(c))
  BY <1>1, Stands DEF Command
<1>3. kind[c] # "verify"
  BY <1>2 DEF WriteSteps, Having, Snapshots, Builders, Writers
<1> QED BY <1>1, <1>3, RaisingKeeps

LEMMA ListKeeps ==
  ASSUME Shape, NEW c \in Commands, Command(c), List(c)
  PROVE  Command(c)'
<1>1. /\ Running(c) /\ Now(c) = "list" /\ Lives(c) /\ Advance(c)
      /\ UNCHANGED <<kind, rules, outcome, loaded, dir, manifest, temps, quiet, raced>>
  BY DEF List, At, Running, Now, First, Command, Undisturbing
<1>2. c \notin temps /\ kind[c] \in Writers
  BY <1>1, Stands DEF WriteSteps, Having
<1>3. Lives(c)' /\ Now(c)' = "hash" /\ Running(c)'
  BY <1>1, <1>2, Advancing DEF Following
<1>4. todo'[c] = Listed /\ members'[c] = <<>> BY DEF List, Shape
<1>5. Listed' = Listed /\ (OneBuild' <=> OneBuild)
  BY <1>1, SameDirectoryEffect DEF SameDirectory
<1>6. ASSUME c \in quiet PROVE Builds(c)' BY <1>1, <1>3, <1>5, <1>6 DEF Command, Builds, AfterReport
<1>7. Seals(c)' BY <1>3, <1>4, <1>5 DEF Seals, Succeeded
<1>8. Verifies(c)' BY <1>1, <1>2, <1>3 DEF Verifies, Succeeded
<1> QED BY <1>1, <1>3, <1>6, <1>7, <1>8 DEF Command

LEMMA HashKeeps ==
  ASSUME Shape, NEW c \in Commands, Command(c), Hash(c)
  PROVE  Command(c)'
<1>1. /\ Running(c) /\ Now(c) = "hash" /\ Lives(c)
      /\ UNCHANGED <<kind, rules, dir, manifest, temps, quiet, raced>> /\ Undisturbing
  BY DEF Hash, At, Running, Now, First, Command, Undisturbing
<1>2. c \notin temps /\ kind[c] \in Writers
  BY <1>1, Stands DEF WriteSteps, Having
<1>3. Listed' = Listed /\ (OneBuild' <=> OneBuild) /\ \A n : Content(n)' = Content(n)
  BY <1>1, SameDirectoryEffect DEF SameDirectory
<1>4. CASE Raise(c)
  BY <1>1, <1>2, <1>4, ReadersRaise DEF WriteSteps, Writers, Snapshots
<1>5. CASE todo[c] = {} /\ Advance(c) /\ UNCHANGED <<loaded, todo, members, outcome>>
  <2>1. Lives(c)' /\ Now(c)' = "write_manifest" /\ Running(c)'
    BY <1>1, <1>2, <1>5, Advancing DEF Following
  <2>2. c \notin Listed BY <1>2, TemporaryNames DEF Listed
  <2>3. ASSUME c \in quiet PROVE Seals(c)'
    BY <1>1, <1>3, <1>5, <2>1, <2>2, <2>3 DEF Command, Seals, Succeeded
  <2>4. ASSUME c \in quiet PROVE Builds(c)'
    BY <1>1, <1>3, <2>1, <2>4 DEF Command, Builds, AfterReport
  <2>5. Verifies(c)' BY <1>1, <1>2, <2>1 DEF Verifies, Succeeded
  <2> QED BY <1>1, <2>1, <2>3, <2>4, <2>5 DEF Command
<1>6. ASSUME NEW n \in todo[c], n \in Listed,
             todo' = [todo EXCEPT ![c] = @ \ {n}],
             members' = [members EXCEPT ![c] =
               [m \in DOMAIN @ \cup {n} |-> IF m = n THEN Content(n) ELSE @[m]]],
             UNCHANGED <<loaded, steps, outcome>>
      PROVE  Command(c)'
  <2>1. /\ Now(c)' = "hash" /\ Running(c)' /\ Lives(c)'
    BY <1>1, <1>6 DEF Lives, Now, Running
  <2>2. todo'[c] = todo[c] \ {n} BY <1>6 DEF Shape
  <2>3. members'[c] = [m \in DOMAIN members[c] \cup {n} |->
                         IF m = n THEN Content(n) ELSE members[c][m]]
    BY <1>6 DEF Shape
  <2>4. ASSUME c \in quiet PROVE Seals(c)'
    <3>1. /\ DOMAIN members[c] \cup todo[c] = Listed
          /\ \A m \in DOMAIN members[c] : members[c][m] = Content(m)
      BY <1>1, <2>4 DEF Command, Seals
    <3>2. DOMAIN members'[c] \cup todo'[c] = Listed
      BY <1>6, <2>2, <2>3, <3>1
    <3>3. \A m \in DOMAIN members'[c] : members'[c][m] = Content(m)
      BY <2>3, <3>1
    <3> QED BY <1>3, <2>1, <3>2, <3>3 DEF Seals, Succeeded
  <2>5. ASSUME c \in quiet PROVE Builds(c)'
    BY <1>1, <1>3, <2>1, <2>5 DEF Command, Builds, AfterReport
  <2>6. Verifies(c)' BY <1>1, <1>2, <2>1 DEF Verifies, Succeeded
  <2> QED BY <1>1, <2>1, <2>4, <2>5, <2>6 DEF Command
<1> QED BY <1>4, <1>5, <1>6 DEF Hash

\* The commands that verify before they do anything else.
LEMMA ReadManifestKeeps ==
  ASSUME Shape, NEW c \in Commands, Command(c), ReadManifest(c)
  PROVE  Command(c)'
<1>1. /\ Running(c) /\ Now(c) = "read_manifest" /\ Lives(c)
      /\ UNCHANGED <<kind, rules, dir, manifest, temps, quiet, raced>> /\ Undisturbing
  BY DEF ReadManifest, At, Running, Now, First, Command, Undisturbing
<1>2. c \notin temps BY <1>1, Stands DEF WriteSteps
<1>3. CASE DOMAIN manifest = {} /\ Raise(c)
  BY <1>1, <1>3, ReadersRaise DEF WriteSteps, MatchesManifest
<1>4. CASE /\ DOMAIN manifest # {}
           /\ members' = [members EXCEPT ![c] = manifest]
           /\ todo' = [todo EXCEPT ![c] = DOMAIN manifest]
           /\ Advance(c)
           /\ UNCHANGED <<loaded, outcome>>
  <2>1. Lives(c)' /\ Now(c)' = "check" /\ Running(c)'
    BY <1>1, <1>2, <1>4, Advancing DEF Following
  <2>2. members'[c] = manifest /\ todo'[c] = DOMAIN manifest BY <1>4 DEF Shape
  <2>3. Verifies(c)' BY <1>1, <1>4, <2>1, <2>2 DEF Verifies, Succeeded
  <2>4. Builds(c)' /\ Seals(c)' BY <2>1 DEF Builds, Seals, AfterReport, Succeeded
  <2> QED BY <2>1, <2>3, <2>4 DEF Command
<1> QED BY <1>3, <1>4 DEF ReadManifest

LEMMA CheckKeeps ==
  ASSUME Shape, NEW c \in Commands, Command(c), Check(c)
  PROVE  Command(c)'
<1>1. /\ Running(c) /\ Now(c) = "check" /\ Lives(c)
      /\ UNCHANGED <<kind, rules, dir, manifest, temps, quiet, raced>> /\ Undisturbing
  BY DEF Check, At, Running, Now, First, Command, Undisturbing
<1>2. c \notin temps BY <1>1, Stands DEF WriteSteps
<1>3. Listed' = Listed /\ \A n : Content(n)' = Content(n)
  BY <1>1, SameDirectoryEffect DEF SameDirectory
<1>4. ASSUME c \in quiet
      PROVE  /\ members[c] = manifest /\ DOMAIN manifest # {} /\ todo[c] \subseteq DOMAIN manifest
             /\ \A n \in DOMAIN manifest :
                  n \in todo[c] \/ (n \in Listed /\ Content(n) = manifest[n])
  BY <1>1, <1>4 DEF Command, Verifies
<1>5. CASE todo[c] = {} /\ Advance(c) /\ UNCHANGED <<loaded, todo, members, outcome>>
  <2>1. Lives(c)' /\ Now(c)' = "relist" /\ Running(c)'
    BY <1>1, <1>2, <1>5, Advancing DEF Following
  <2>2. ASSUME c \in quiet PROVE Verifies(c)'
    BY <1>1, <1>3, <1>4, <1>5, <2>1, <2>2 DEF Verifies, Succeeded
  <2>3. Builds(c)' /\ Seals(c)' BY <2>1 DEF Builds, Seals, AfterReport, Succeeded
  <2> QED BY <1>1, <2>1, <2>2, <2>3 DEF Command
<1>6. ASSUME NEW n \in todo[c], AsListed(c, n),
             todo' = [todo EXCEPT ![c] = @ \ {n}],
             UNCHANGED <<loaded, members, steps, outcome>>
      PROVE  Command(c)'
  <2>1. /\ Now(c)' = "check" /\ Running(c)' /\ Lives(c)'
    BY <1>1, <1>6 DEF Lives, Now, Running
  <2>2. todo'[c] = todo[c] \ {n} /\ members'[c] = members[c] BY <1>6 DEF Shape
  <2>3. ASSUME c \in quiet PROVE Verifies(c)'
    <3>1. /\ members'[c] = manifest' /\ DOMAIN manifest' # {} /\ todo'[c] \subseteq DOMAIN manifest'
      BY <1>1, <1>4, <2>2, <2>3
    <3>2. \A m \in DOMAIN manifest' :
            m \in todo'[c] \/ (m \in Listed' /\ Content(m)' = manifest'[m])
      BY <1>1, <1>3, <1>4, <1>6, <2>2, <2>3 DEF AsListed
    <3> QED BY <2>1, <3>1, <3>2 DEF Verifies, Succeeded
  <2>4. Builds(c)' /\ Seals(c)' BY <2>1 DEF Builds, Seals, AfterReport, Succeeded
  <2> QED BY <1>1, <2>1, <2>3, <2>4 DEF Command
<1>7. ASSUME NEW n \in todo[c], ~AsListed(c, n), Raise(c)
      PROVE  Command(c)'
  <2>1. c \in quiet => ~MatchesManifest BY <1>4, <1>7 DEF MatchesManifest, AsListed
  <2> QED BY <1>1, <1>7, <2>1, ReadersRaise DEF WriteSteps
<1> QED BY <1>5, <1>6, <1>7 DEF Check

LEMMA RelistKeeps ==
  ASSUME Shape, NEW c \in Commands, Command(c), Relist(c)
  PROVE  Command(c)'
<1>1. /\ Running(c) /\ Now(c) = "relist" /\ Lives(c)
      /\ UNCHANGED <<kind, rules, dir, manifest, temps, quiet, raced>> /\ Undisturbing
  BY DEF Relist, At, Running, Now, First, Command, Undisturbing
<1>2. c \notin temps /\ kind[c] \in {"verify", "compare", "create"}
  BY <1>1, Stands DEF WriteSteps, Having
<1>3. MatchesManifest' <=> MatchesManifest
  BY <1>1, SameDirectoryEffect DEF SameDirectory
<1>4. ASSUME c \in quiet
      PROVE  /\ members[c] = manifest /\ DOMAIN manifest # {}
             /\ \A n \in DOMAIN manifest : n \in Listed /\ Content(n) = manifest[n]
  BY <1>1, <1>4 DEF Command, Verifies
<1>5. c \in quiet => (MatchesManifest <=> Listed \subseteq DOMAIN members[c])
  BY <1>4 DEF MatchesManifest
<1>6. CASE ~(Listed \subseteq DOMAIN members[c]) /\ Raise(c)
  BY <1>1, <1>5, <1>6, ReadersRaise DEF WriteSteps
<1>7. CASE Listed \subseteq DOMAIN members[c] /\ Advance(c) /\ UNCHANGED <<loaded, todo, outcome>>
  <2>1. /\ Lives(c)' /\ Now(c)' = IF kind[c] = "verify" THEN "end" ELSE "profile"
        /\ Running(c)' <=> kind[c] # "verify"
    BY <1>1, <1>2, <1>7, Advancing DEF Following
  <2>2. outcome'[c] = "none" BY <1>1, <1>2, <1>7 DEF Lives
  <2>3. ASSUME c \in quiet PROVE Verifies(c)'
    BY <1>1, <1>2, <1>3, <1>5, <1>7, <2>1, <2>2, <2>3 DEF Verifies, Succeeded
  <2>4. Builds(c)' /\ Seals(c)'
    BY <1>1, <1>2, <2>1 DEF Builds, Seals, AfterReport, Succeeded, Builders, Snapshots, Writers
  <2> QED BY <1>1, <2>1, <2>3, <2>4 DEF Command
<1> QED BY <1>6, <1>7 DEF Relist

LEMMA CrashKeeps ==
  ASSUME Shape, NEW c \in Commands, Command(c), Crash(c)
  PROVE  Command(c)'
<1>1. /\ Running(c) /\ Lives(c) /\ kind[c] \in Kinds
      /\ UNCHANGED <<kind, rules>>
      /\ steps'[c] = <<>> /\ outcome'[c] = "killed"
  BY Stands DEF Crash, Command, Shape, TypeOK
<1>2. Now(c)' = "end" /\ ~Running(c)' /\ ~Succeeded(c)'
  BY <1>1 DEF Now, First, Running, Succeeded
<1>3. Remains(kind'[c], steps'[c]) BY <1>1, ManifestRemains
<1>4. Lives(c)' BY <1>1, <1>2, <1>3 DEF Lives, Kinds, Writers, Snapshots
<1> QED BY <1>1, <1>2, <1>4 DEF Command, Verifies, Builds, Seals, AfterReport

LEMMA StartKeeps ==
  ASSUME Shape, NEW c \in Commands, Command(c), NEW k \in Kinds, NEW v, Start(c, k, v)
  PROVE  Command(c)'
<1>1. /\ kind[c] = "idle" /\ kind'[c] = k /\ rules'[c] = v /\ steps'[c] = Program(k)
      /\ c \in quiet' /\ outcome' = outcome /\ temps' = temps
      /\ k \in {"verify", "compare", "create"} <=> v = "none"
  BY DEF Start, Shape, TypeOK
<1>2. outcome[c] = "none" /\ c \notin temps
  BY <1>1 DEF Command, Lives, Now, First, WriteSteps
<1>3. /\ Remains(k, Program(k)) /\ Program(k) # <<>>
      /\ First(Program(k)) = IF k \in Snapshots THEN "write_evidence"
                             ELSE IF k = "report" THEN "load" ELSE "read_manifest"
  BY FirstStep
<1>4. Running(c)' /\ Now(c)' \in {"write_evidence", "load", "read_manifest"}
  BY <1>1, <1>3 DEF Running, Now
<1>5. Lives(c)'
  BY <1>1, <1>2, <1>3, <1>4 DEF Lives, Kinds, Writers, Builders, Snapshots
<1> QED BY <1>4, <1>5 DEF Command, Verifies, Builds, Seals, AfterReport, Succeeded

-----------------------------------------------------------------------------
(* Every step. *)

\* The steps in which the directory stays as it is.
Looks(c) ==
  \/ Load(c) \/ Profile(c) \/ List(c) \/ Hash(c) \/ ReadManifest(c) \/ Check(c) \/ Relist(c)
  \/ Crash(c)

Writes(c) == OpenTemp(c) \/ Rename(c) \/ WriteFails(c)

Starts(c) == \E k \in Kinds, v \in Rules \cup {"none"} : Start(c, k, v)

\* A command touches only its own locals, and leaves them well formed.
Locals ==
  /\ kind \in [Commands -> Kinds \cup {"idle"}]
  /\ rules \in [Commands -> Rules \cup {"none"}]
  /\ loaded \in [Commands -> Contents]
  /\ outcome \in [Commands -> {"none", "raised", "killed"}]
  /\ steps = [c \in Commands |-> steps[c]]
  /\ todo = [c \in Commands |-> todo[c]]
  /\ members = [c \in Commands |-> members[c]]
  /\ \A c \in Commands : todo[c] \subseteq Names \cup Commands
  /\ \A c \in Commands : DOMAIN members[c] \subseteq Names \cup Commands

OwnLocals(c) == Locals' /\ \A d \in Commands \ {c} : Unmoved(d)

LEMMA AdvanceOwns ==
  ASSUME Shape, NEW c \in Commands, Lives(c), Running(c), Advance(c),
         UNCHANGED <<kind, rules, todo, members, outcome>>,
         loaded' \in [Commands -> Contents], \A d \in Commands \ {c} : loaded'[d] = loaded[d]
  PROVE  OwnLocals(c)
<1>1. steps' = [d \in Commands |-> steps'[d]] /\ \A d \in Commands \ {c} : steps'[d] = steps[d]
  BY AdvanceEffect
<1> QED BY <1>1 DEF Shape, TypeOK, OwnLocals, Locals, Unmoved

LEMMA RaiseOwns ==
  ASSUME Shape, NEW c \in Commands, Lives(c), Running(c), Raise(c), UNCHANGED <<kind, rules>>
  PROVE  OwnLocals(c)
<1>1. /\ steps' = [d \in Commands |-> steps'[d]]
      /\ outcome' \in [Commands -> {"none", "raised", "killed"}]
      /\ \A d \in Commands \ {c} : steps'[d] = steps[d] /\ outcome'[d] = outcome[d]
  BY RaiseEffect
<1>2. Forget(c) BY DEF Raise
<1> QED BY <1>1, <1>2, ForgetEffect DEF Shape, TypeOK, OwnLocals, Locals, Unmoved

LEMMA ListedNames ==
  ASSUME Shape
  PROVE  Listed \subseteq Names \cup Commands
BY DEF Shape, TypeOK, Listed

LEMMA LooksOwn ==
  ASSUME Shape, NEW c \in Commands, Lives(c), Looks(c)
  PROVE  OwnLocals(c)
<1> USE DEF Shape, TypeOK
<1>0. Running(c) BY DEF Looks, Load, Profile, List, Hash, ReadManifest, Check, Relist, Crash, At, Running
<1>1. CASE Load(c)
  <2>1. CASE Raise(c) BY <1>0, <1>1, <2>1, RaiseOwns DEF Load
  <2>2. CASE /\ loaded' = [loaded EXCEPT ![c] = dir["evidence"]]
             /\ Advance(c)
             /\ UNCHANGED <<todo, members, outcome>>
    <3>1. dir["evidence"] \in Contents BY DEF Names
    <3>2. UNCHANGED <<kind, rules>> BY <1>1 DEF Load
    <3> QED BY <1>0, <2>2, <3>1, <3>2, AdvanceOwns
  <2> QED BY <1>1, <2>1, <2>2 DEF Load
<1>2. CASE Profile(c)
  <2>1. CASE Raise(c) BY <1>0, <1>2, <2>1, RaiseOwns DEF Profile
  <2>2. CASE /\ loaded' = [loaded EXCEPT ![c] = dir["evidence"]]
             /\ Advance(c)
             /\ UNCHANGED <<todo, members, outcome>>
    <3>1. dir["evidence"] \in Contents BY DEF Names
    <3>2. UNCHANGED <<kind, rules>> BY <1>2 DEF Profile
    <3> QED BY <1>0, <2>2, <3>1, <3>2, AdvanceOwns
  <2> QED BY <1>2, <2>1, <2>2 DEF Profile
<1>3. CASE List(c)
  <2>1. /\ steps' = [d \in Commands |-> steps'[d]] /\ \A d \in Commands \ {c} : steps'[d] = steps[d]
    BY <1>0, <1>3, AdvanceEffect DEF List
  <2>2. UNCHANGED <<kind, rules, loaded, outcome>> BY <1>3 DEF List
  <2>3. /\ todo' = [todo EXCEPT ![c] = Listed] /\ members' = [members EXCEPT ![c] = <<>>]
        /\ DOMAIN <<>> = {}
    BY <1>3 DEF List
  <2> QED BY <2>1, <2>2, <2>3, ListedNames DEF OwnLocals, Locals, Unmoved
<1>4. CASE Hash(c)
  <2>1. CASE Raise(c) BY <1>0, <1>4, <2>1, RaiseOwns DEF Hash
  <2>2. CASE Advance(c) /\ UNCHANGED <<loaded, todo, members, outcome>>
    BY <1>0, <1>4, <2>2, AdvanceOwns DEF Hash
  <2>3. ASSUME NEW n \in todo[c], n \in Listed,
               todo' = [todo EXCEPT ![c] = @ \ {n}],
               members' = [members EXCEPT ![c] =
                 [m \in DOMAIN @ \cup {n} |-> IF m = n THEN Content(n) ELSE @[m]]],
               UNCHANGED <<loaded, steps, outcome>>
        PROVE  OwnLocals(c)
    <3>1. DOMAIN members'[c] = DOMAIN members[c] \cup {n} BY <2>3
    <3>2. UNCHANGED <<kind, rules>> BY <1>4 DEF Hash
    <3>3. /\ todo' = [d \in Commands |-> todo'[d]] /\ members' = [d \in Commands |-> members'[d]]
          /\ todo'[c] \subseteq todo[c]
          /\ \A d \in Commands \ {c} : todo'[d] = todo[d] /\ members'[d] = members[d]
      BY <2>3
    <3> QED BY <2>3, <3>1, <3>2, <3>3, ListedNames DEF OwnLocals, Locals, Unmoved
  <2> QED BY <1>4, <2>1, <2>2, <2>3 DEF Hash
<1>5. CASE ReadManifest(c)
  <2>1. CASE Raise(c) BY <1>0, <1>5, <2>1, RaiseOwns DEF ReadManifest
  <2>2. CASE /\ members' = [members EXCEPT ![c] = manifest]
             /\ todo' = [todo EXCEPT ![c] = DOMAIN manifest]
             /\ Advance(c)
             /\ UNCHANGED <<loaded, outcome>>
    <3>1. /\ steps' = [d \in Commands |-> steps'[d]] /\ \A d \in Commands \ {c} : steps'[d] = steps[d]
      BY <1>0, <2>2, AdvanceEffect
    <3>2. UNCHANGED <<kind, rules>> BY <1>5 DEF ReadManifest
    <3> QED BY <2>2, <3>1, <3>2 DEF OwnLocals, Locals, Unmoved
  <2> QED BY <1>5, <2>1, <2>2 DEF ReadManifest
<1>6. CASE Check(c)
  <2>1. CASE Raise(c) BY <1>0, <1>6, <2>1, RaiseOwns DEF Check
  <2>2. CASE Advance(c) /\ UNCHANGED <<loaded, todo, members, outcome>>
    BY <1>0, <1>6, <2>2, AdvanceOwns DEF Check
  <2>3. ASSUME NEW n \in todo[c], todo' = [todo EXCEPT ![c] = @ \ {n}],
               UNCHANGED <<loaded, members, steps, outcome>>
        PROVE  OwnLocals(c)
    <3>1. UNCHANGED <<kind, rules>> BY <1>6 DEF Check
    <3> QED BY <2>3, <3>1 DEF OwnLocals, Locals, Unmoved
  <2> QED BY <1>6, <2>1, <2>2, <2>3 DEF Check
<1>7. CASE Relist(c)
  <2>1. CASE Raise(c) BY <1>0, <1>7, <2>1, RaiseOwns DEF Relist
  <2>2. CASE /\ Advance(c)
             /\ members' = [members EXCEPT ![c] = <<>>]
             /\ UNCHANGED <<loaded, todo, outcome>>
    <3>1. /\ steps' = [d \in Commands |-> steps'[d]] /\ \A d \in Commands \ {c} : steps'[d] = steps[d]
      BY <1>0, <2>2, AdvanceEffect
    <3>2. UNCHANGED <<kind, rules>> /\ DOMAIN <<>> = {} BY <1>7 DEF Relist
    <3> QED BY <2>2, <3>1, <3>2 DEF OwnLocals, Locals, Unmoved
  <2> QED BY <1>7, <2>1, <2>2 DEF Relist
<1>8. CASE Crash(c)
  <2>1. /\ steps' = [steps EXCEPT ![c] = <<>>] /\ outcome' = [outcome EXCEPT ![c] = "killed"]
        /\ Forget(c) /\ UNCHANGED <<kind, rules>>
    BY <1>8 DEF Crash
  <2>2. DOMAIN <<>> = {} OBVIOUS
  <2> QED BY <2>1, <2>2, ForgetEffect DEF OwnLocals, Locals, Unmoved
<1> QED BY <1>1, <1>2, <1>3, <1>4, <1>5, <1>6, <1>7, <1>8 DEF Looks

LEMMA WritesOwn ==
  ASSUME Shape, NEW c \in Commands, Lives(c), Writes(c)
  PROVE  OwnLocals(c)
<1> USE DEF Shape, TypeOK
<1>1. CASE OpenTemp(c) BY <1>1 DEF OpenTemp, cmdVars, OwnLocals, Locals, Unmoved
<1>2. CASE Rename(c)
  <2>1. Running(c) /\ Advance(c) /\ UNCHANGED <<kind, rules, outcome>> BY <1>2 DEF Rename
  <2>2. /\ steps' = [d \in Commands |-> steps'[d]] /\ \A d \in Commands \ {c} : steps'[d] = steps[d]
    BY <2>1, AdvanceEffect
  <2>3. CASE Forget(c)
    <3>1. DOMAIN <<>> = {} OBVIOUS
    <3> QED BY <2>1, <2>2, <2>3, <3>1, ForgetEffect DEF OwnLocals, Locals, Unmoved
  <2>4. CASE UNCHANGED <<loaded, todo, members>>
    BY <2>1, <2>2, <2>4 DEF OwnLocals, Locals, Unmoved
  <2> QED BY <1>2, <2>3, <2>4 DEF Rename
<1>3. CASE WriteFails(c) BY <1>3, RaiseOwns DEF WriteFails
<1> QED BY <1>1, <1>2, <1>3 DEF Writes

LEMMA StartsOwn ==
  ASSUME Shape, NEW c \in Commands, Starts(c)
  PROVE  OwnLocals(c)
<1>1. PICK k \in Kinds, v \in Rules \cup {"none"} : Start(c, k, v) BY DEF Starts
<1>2. /\ kind' = [kind EXCEPT ![c] = k] /\ rules' = [rules EXCEPT ![c] = v]
      /\ steps' = [steps EXCEPT ![c] = Program(k)]
      /\ UNCHANGED <<loaded, todo, members, outcome>>
  BY <1>1 DEF Start
<1> QED BY <1>2 DEF Shape, TypeOK, OwnLocals, Locals, Unmoved

\* The directory, and the commands' locals with it.
LEMMA LooksShape ==
  ASSUME Shape, NEW c \in Commands, Lives(c), Looks(c) \/ Starts(c)
  PROVE  Shape'
<1>1. OwnLocals(c) BY LooksOwn, StartsOwn
<1>2. UNCHANGED <<dir, manifest, temps, accidents, raced>> /\ quiet' \subseteq Commands
  BY DEF Looks, Starts, Start, Load, Profile, List, Hash, ReadManifest, Check, Relist, Crash,
         Undisturbing, Shape, TypeOK
<1> QED BY <1>1, <1>2 DEF OwnLocals, Locals, Shape, TypeOK

LEMMA WritesShape ==
  ASSUME Shape, NEW c \in Commands, Lives(c), Writes(c)
  PROVE  Shape'
<1>1. OwnLocals(c) BY WritesOwn
<1>2. quiet' \subseteq Commands /\ raced' \in BOOLEAN /\ temps' \subseteq Commands
      /\ accidents' = accidents
  BY DEF Writes, OpenTemp, Rename, WriteFails, Disturbs, Shape, TypeOK
<1>3. DOMAIN manifest' \subseteq Names \cup Commands
  BY DEF Writes, OpenTemp, Rename, WriteFails, Shape, TypeOK
<1>4. dir' \in [Names -> Contents] /\ dir'["evidence"].rules = "none"
  <2>1. CASE UNCHANGED dir BY <2>1 DEF Shape, TypeOK
  <2>2. CASE Rename(c) /\ ~At(c, "write_manifest")
    <3>1. Running(c) /\ dir' = [dir EXCEPT ![Target(Head(steps[c]))] = NewContent(c)]
      BY <2>2 DEF Rename
    <3>2. c \in temps BY <2>2 DEF Rename
    <3>3. Head(steps[c]) \in WriteSteps \ {"write_manifest"}
      BY <2>2, <3>1, <3>2, Stands DEF At, Running
    <3>4. NewContent(c) \in Contents
      BY DEF NewContent, Evidence, Derived, Contents, Shape, TypeOK
    <3>5. Head(steps[c]) = "write_evidence" => NewContent(c).rules = "none"
      BY <3>1 DEF NewContent, Evidence, At, Running
    <3>6. Target(Head(steps[c])) \in Names
          /\ (Target(Head(steps[c])) = "evidence" => Head(steps[c]) = "write_evidence")
      BY <3>3 DEF Target, WriteSteps, Names
    <3> QED BY <3>1, <3>4, <3>5, <3>6 DEF Shape, TypeOK
  <2> QED BY <2>1, <2>2 DEF Writes, OpenTemp, Rename, WriteFails
<1> QED BY <1>1, <1>2, <1>3, <1>4 DEF OwnLocals, Locals, Shape, TypeOK

\* The step of one command.
LEMMA CommandStep ==
  ASSUME IInv, NEW c \in Commands, Looks(c) \/ Writes(c) \/ Starts(c)
  PROVE  IInv'
<1>1. Shape /\ ManifestCoversOneBuild /\ Command(c) /\ Lives(c) BY DEF IInv, Command
<1>2. OwnLocals(c) BY <1>1, LooksOwn, WritesOwn, StartsOwn
<1>3. Shape' BY <1>1, LooksShape, WritesShape
<1>4. Command(c)'
  BY <1>1, LoadKeeps, ProfileKeeps, ListKeeps, HashKeeps, ReadManifestKeeps, CheckKeeps,
     RelistKeeps, CrashKeeps, OpenTempKeeps, RenameKeeps, WriteFailsKeeps, StartKeeps
  DEF Looks, Writes, Starts
<1>5. ASSUME NEW d \in Commands \ {c} PROVE Command(d)'
  <2>1. Command(d) /\ Unmoved(d) BY <1>2 DEF IInv, OwnLocals
  <2>2. CASE Looks(c) \/ Starts(c)
    <3>1. SameDirectory /\ (d \in quiet' <=> d \in quiet) /\ raced' = raced
      BY <2>2 DEF Looks, Starts, Start, Load, Profile, List, Hash, ReadManifest, Check, Relist,
                  Crash, Undisturbing, SameDirectory
    <3> QED BY <2>1, <3>1, ReadingLeaves
  <2>3. CASE Writes(c)
    <3>1. Disturbs(Commands \ {c}) /\ (d \in temps' <=> d \in temps)
      BY <2>3 DEF Writes, OpenTemp, Rename, WriteFails
    <3> QED BY <2>1, <3>1, ChangingDisturbs
  <2> QED BY <2>2, <2>3
<1>6. ManifestCoversOneBuild'
  <2>1. raced => raced'
    BY DEF Looks, Writes, Starts, Start, Load, Profile, List, Hash, ReadManifest, Check, Relist,
           Crash, Undisturbing, OpenTemp, Rename, WriteFails, Disturbs
  <2>2. CASE UNCHANGED manifest BY <1>1, <2>1, <2>2 DEF ManifestCoversOneBuild
  <2>3. CASE Rename(c) /\ At(c, "write_manifest")
    <3> SUFFICES ASSUME ~raced' PROVE
          /\ {"evidence", "facts", "report"} \subseteq DOMAIN manifest'
          /\ manifest'["facts"] = manifest'["report"]
          /\ manifest'["report"].of = manifest'["evidence"].of
          /\ manifest'["report"].rules # "none"
      BY DEF ManifestCoversOneBuild
    <3>1. manifest' = members[c] /\ Running(c) BY <2>3 DEF Rename
    <3>2. Now(c) = "write_manifest" BY <2>3 DEF At, Now, First
    <3>3. kind[c] \in Writers /\ c \in quiet
      BY <1>1, <2>1, <3>1, <3>2, Stands DEF Having
    <3>4. OneBuild
      BY <1>1, <2>1, <3>2, <3>3 DEF Command, Builds, AfterReport, Writers, Builders
    <3>5. /\ DOMAIN members[c] = Listed \ {c}
          /\ \A n \in DOMAIN members[c] : members[c][n] = Content(n)
      BY <1>1, <3>2, <3>3 DEF Command, Seals
    <3>6. \A n \in {"evidence", "facts", "report"} :
            n \in Names /\ dir[n] # Absent /\ n # c /\ n \notin temps
      BY <1>1, <3>4, TemporaryNames DEF OneBuild, Absent, Names, Shape, TypeOK
    <3>7. \A n \in {"evidence", "facts", "report"} :
            n \in DOMAIN members[c] /\ members[c][n] = dir[n]
      BY <3>5, <3>6 DEF Listed, Content
    <3> QED BY <3>1, <3>4, <3>7 DEF OneBuild
  <2> QED BY <2>2, <2>3
    DEF Looks, Writes, Starts, Start, Load, Profile, List, Hash, ReadManifest, Check, Relist,
        Crash, Undisturbing, OpenTemp, Rename, WriteFails
<1> QED BY <1>3, <1>4, <1>5, <1>6 DEF IInv

\* A file changed by accident, while no command runs.
LEMMA AccidentStep ==
  ASSUME IInv, NEW n \in Names, Accident(n)
  PROVE  IInv'
<1>1. /\ UNCHANGED <<manifest, temps, kind, rules, steps, loaded, todo, members, outcome>>
      /\ quiet' = quiet \ Commands /\ (raced => raced') /\ raced' \in BOOLEAN
      /\ accidents' = accidents + 1 /\ accidents < MaxAccidents
      /\ \A d \in Commands : ~Running(d)
  BY DEF Accident, Disturbs, cmdVars, IInv, Shape, TypeOK
<1>2. PICK new \in {Absent, Damaged} : dir' = [dir EXCEPT ![n] = new] BY DEF Accident
<1>3. new \in Contents /\ new.rules = "none" BY <1>2 DEF Absent, Damaged, Contents
<1>4. dir' \in [Names -> Contents] /\ dir'["evidence"].rules = "none"
  BY <1>2, <1>3 DEF IInv, Shape, TypeOK, Names
<1>5. Shape' BY <1>1, <1>4, BundleAssumption DEF IInv, Shape, TypeOK
<1>6. ManifestCoversOneBuild' BY <1>1 DEF IInv, ManifestCoversOneBuild
<1>7. ASSUME NEW d \in Commands PROVE Command(d)'
  <2>1. Lives(d) /\ d \notin quiet' /\ ~Running(d)' /\ Now(d)' = Now(d)
    BY <1>1 DEF IInv, Command, Running, Now
  <2>2. Lives(d)' BY <1>1, <2>1 DEF Lives, Running
  <2> QED BY <2>1, <2>2 DEF Command
<1> QED BY <1>5, <1>6, <1>7 DEF IInv

LEMMA InitInv == Init => IInv
<1> SUFFICES ASSUME Init PROVE IInv
  OBVIOUS
<1>0. DOMAIN <<>> = {} OBVIOUS
<1>1. TypeOK
  <2>1. Absent \in Contents BY DEF Absent, Contents
  <2>2. dir \in [Names -> Contents] /\ loaded \in [Commands -> Contents] BY <2>1 DEF Init
  <2>3. DOMAIN manifest \subseteq Names \cup Commands /\ accidents \in 0 .. MaxAccidents
    BY <1>0, BundleAssumption DEF Init
  <2>4. /\ kind \in [Commands -> Kinds \cup {"idle"}] /\ rules \in [Commands -> Rules \cup {"none"}]
        /\ outcome \in [Commands -> {"none", "raised", "killed"}]
        /\ \A c \in Commands : todo[c] \subseteq Names \cup Commands
    BY DEF Init
  <2> QED BY <2>2, <2>3, <2>4 DEF Init, TypeOK
<1>2. Shape
  <2>1. dir["evidence"].rules = "none" BY DEF Init, Names, Absent
  <2>2. steps = [c \in Commands |-> steps[c]] /\ todo = [c \in Commands |-> todo[c]]
        /\ members = [c \in Commands |-> members[c]]
    BY DEF Init
  <2>3. \A c \in Commands : DOMAIN members[c] \subseteq Names \cup Commands
    BY <1>0 DEF Init
  <2> QED BY <1>1, <2>1, <2>2, <2>3 DEF Shape
<1>3. ManifestCoversOneBuild BY <1>0 DEF Init, ManifestCoversOneBuild
<1>4. ASSUME NEW c \in Commands PROVE Command(c)
  BY DEF Init, Command, Lives, Running, Kinds, Writers, Builders, Snapshots
<1> QED BY <1>2, <1>3, <1>4 DEF IInv

-----------------------------------------------------------------------------
(* The theorems. *)

\* What commands have read, hashed and written stays true of the directory for
\* as long as nobody else changes it, whatever the others do, fail in, or leave
\* behind when killed.
THEOREM BundleInvariant == Spec => []IInv
<1>1. ASSUME IInv, [Next]_vars PROVE IInv'
  <2>1. CASE UNCHANGED vars
    <3>1. SameDirectory /\ quiet' = quiet /\ raced' = raced /\ accidents' = accidents
          /\ UNCHANGED <<kind, rules, steps, loaded, todo, members, outcome>>
      BY <2>1 DEF vars, cmdVars, SameDirectory
    <3>2. Shape' BY <1>1, <3>1 DEF IInv, Shape, TypeOK, SameDirectory
    <3>3. ManifestCoversOneBuild' BY <1>1, <3>1 DEF IInv, ManifestCoversOneBuild, SameDirectory
    <3>4. \A d \in Commands : Command(d)' BY <1>1, <3>1, ReadingLeaves DEF IInv, Unmoved
    <3> QED BY <3>2, <3>3, <3>4 DEF IInv
  <2>2. CASE \E c \in Commands : Looks(c) \/ Writes(c) \/ Starts(c)
    BY <1>1, <2>2, CommandStep
  <2>3. CASE \E n \in Names : Accident(n)
    BY <1>1, <2>3, AccidentStep
  <2> QED BY <1>1, <2>1, <2>2, <2>3 DEF Next, Step, Looks, Writes, Starts
<1> QED BY InitInv, <1>1, PTL DEF Spec

\* The shape of the directory and of the commands (cli.py:234-330).
THEOREM BundleTypeOK == Spec => []TypeOK
<1>1. IInv => TypeOK BY DEF IInv, Shape
<1> QED BY <1>1, BundleInvariant, PTL

\* A manifest nobody raced for covers the evidence and one complete report
\* built from it, whatever was killed or failed before (cli.py:242,
\* orchestrator.py:256).
THEOREM ManifestIsOneBuild == Spec => []ManifestCoversOneBuild
<1>1. IInv => ManifestCoversOneBuild BY DEF IInv
<1> QED BY <1>1, BundleInvariant, PTL

\* An undisturbed verify accepts the directories that match their manifest and
\* no other (bundle.py:63-109).
THEOREM VerifyDecides == Spec => []VerifyIsExact
<1>1. IInv => VerifyIsExact BY DEF IInv, Command, Verifies, VerifyIsExact
<1> QED BY <1>1, BundleInvariant, PTL

\* An undisturbed snapshot, report or compare that ends well has sealed what
\* is there (cli.py:240-244, orchestrator.py:256).
THEOREM WritersSeal == Spec => []WriterLeavesMatch
<1>1. IInv => WriterLeavesMatch BY DEF IInv, Command, Seals, WriterLeavesMatch
<1> QED BY <1>1, BundleInvariant, PTL

\* An undisturbed candidate is made of one complete report of the evidence
\* (baseline.py:584-587).
THEOREM CandidateIsOneBuild == Spec => []CandidateFromOneBuild
<1>1. IInv => CandidateFromOneBuild
  <2> SUFFICES ASSUME IInv, NEW c \in Commands, c \in quiet, kind[c] = "create", Succeeded(c), ~raced
               PROVE  /\ dir["facts"] = dir["report"]
                      /\ loaded[c] = dir["evidence"] /\ dir["report"].of = loaded[c].of
    BY DEF CandidateFromOneBuild
  <2>1. MatchesManifest /\ loaded[c] = dir["evidence"] BY DEF IInv, Command, Verifies
  <2>2. /\ {"evidence", "facts", "report"} \subseteq DOMAIN manifest
        /\ manifest["facts"] = manifest["report"]
        /\ manifest["report"].of = manifest["evidence"].of
    BY <2>1 DEF IInv, MatchesManifest, ManifestCoversOneBuild
  <2>3. \A n \in {"evidence", "facts", "report"} : n \in Listed /\ n \notin temps
    BY <2>1, <2>2, TemporaryNames DEF MatchesManifest, Names, IInv, Shape, TypeOK
  <2>4. \A n \in {"evidence", "facts", "report"} : manifest[n] = dir[n]
    BY <2>1, <2>3 DEF MatchesManifest, Content
  <2> QED BY <2>1, <2>2, <2>4
<1> QED BY <1>1, BundleInvariant, PTL
=============================================================================
