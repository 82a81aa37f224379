--------------------------- MODULE BuildPipeline_proofs ---------------------------
(***************************************************************************)
(* Proofs about BuildPipeline for any number of packages and versions.     *)
(* IInv says which files agree once an upgrade has passed each of its      *)
(* steps, and what a step that stands between two of its writes still has  *)
(* to write; nothing is asked of the files an upgrade finds.               *)
(***************************************************************************)
EXTENDS BuildPipeline, TLAPS

CodeInv ==
  /\ code = "running" => failure = 0 /\ ~pushed
  /\ code = "ok" /\ command = "upgrade" => at > 8
  /\ FailureStops

\* What flakepins still has to write, by the number of its files.
Pins4 == <<"g_url", "g_package", "g_render", "g_assets">>
Pins3 == <<"g_package", "g_render", "g_assets">>
Pins2 == <<"g_render", "g_assets">>
Pins1 == <<"g_assets">>

\* What the step of an upgrade still has to write.
WritesInv ==
  command = "upgrade" /\ code = "running" =>
    /\ at = 1 => writes \in {<< >>, <<"oc_manifest", "oc_executable">>, <<"oc_executable">>}
    /\ at = 2 => writes \in {<< >>, <<"oc_lock">>}
    /\ at \in {3, 4, 5} => writes \in Seq(Quota \cup Files)
    /\ at = 6 => writes \in {<< >>, Pins4, Pins3, Pins2, Pins1}
    /\ at = 7 => writes \in {<< >>, <<"g_lock">>}
    /\ at = 8 => writes \in {<< >>, <<"g_vendor">>}

\* Which files agree by then.
StageInv ==
  command = "upgrade" /\ code \in {"running", "ok"} =>
    /\ at > 1 => part["oc_manifest"] = part["oc_executable"]
    /\ at > 2 => part["oc_lock"] = part["oc_manifest"]
    /\ at > 6 => \A q \in {"g_package", "g_render", "g_assets"} : part[q] = part["g_url"]
    /\ at > 7 => part["g_lock"] = part["g_url"]
    /\ at > 8 => part["g_vendor"] = part["g_lock"]
    /\ at = 1 /\ writes = <<"oc_executable">> => part["oc_manifest"] = target
    /\ at = 6 /\ writes \in {Pins3, Pins2, Pins1} => part["g_url"] = target
    /\ at = 6 /\ writes \in {Pins2, Pins1} => part["g_package"] = target
    /\ at = 6 /\ writes = Pins1 => part["g_render"] = target

IInv == TypeOK /\ CodeInv /\ WritesInv /\ StageInv

\* Of short tuples and of sequences over a set.
LEMMA Tuples ==
  /\ \A a, b : /\ Head(<<a, b>>) = a /\ Tail(<<a, b>>) = <<b>> /\ Len(<<a, b>>) = 2
               /\ Head(<<b>>) = b /\ Len(<<b>>) = 1 /\ <<a, b>> # << >> /\ <<b>> # << >>
               /\ <<a, b>> # <<b>>
  /\ \A a, b : <<a>> = <<b>> => a = b
  OBVIOUS

LEMMA PinTails ==
  /\ Head(Pins4) = "g_url" /\ Tail(Pins4) = Pins3 /\ Len(Pins4) = 4
  /\ Head(Pins3) = "g_package" /\ Tail(Pins3) = Pins2 /\ Len(Pins3) = 3
  /\ Head(Pins2) = "g_render" /\ Tail(Pins2) = Pins1 /\ Len(Pins2) = 2
  /\ Head(Pins1) = "g_assets" /\ Len(Pins1) = 1
  /\ Pins4 # << >> /\ Pins3 # << >> /\ Pins2 # << >> /\ Pins1 # << >>
  /\ Pins4 \notin {Pins3, Pins2, Pins1} /\ Pins3 \notin {Pins2, Pins1} /\ Pins2 # Pins1
  BY DEF Pins4, Pins3, Pins2, Pins1

LEMMA Shorter ==
  ASSUME NEW S, NEW s \in Seq(S), s # << >>
  PROVE  Head(s) \in S /\ Tail(s) \in Seq(S)
  OBVIOUS

\* The steps of an upgrade, by their numbers.
LEMMA Upgrade ==
  ASSUME command = "upgrade"
  PROVE  /\ Plan(env, command) = UpgradePlan /\ Len(UpgradePlan) = 8
         /\ UpgradePlan[1].kind = "opencode" /\ UpgradePlan[2].kind = "npmlock"
         /\ UpgradePlan[3].kind = "browser" /\ UpgradePlan[4].kind = "quota"
         /\ UpgradePlan[5].kind = "releases" /\ UpgradePlan[6].kind = "flakepins"
         /\ UpgradePlan[7].kind = "flakeupdate" /\ UpgradePlan[8].kind = "source"
<1>1. Plan(env, command) = UpgradePlan
  BY DEF Plan, AllCommands
<1>2. \A kind : Plainly(kind).kind = kind
  BY DEF Plainly, Through
<1>3. /\ Len(UpgradePlan) = 8
      /\ UpgradePlan[1] = Plainly("opencode") /\ UpgradePlan[2] = Plainly("npmlock")
      /\ UpgradePlan[3] = Plainly("browser") /\ UpgradePlan[4] = Plainly("quota")
      /\ UpgradePlan[5] = Plainly("releases") /\ UpgradePlan[6] = Plainly("flakepins")
      /\ UpgradePlan[7] = Plainly("flakeupdate") /\ UpgradePlan[8] = Plainly("source")
  BY DEF UpgradePlan
<1> QED
  BY <1>1, <1>2, <1>3

\* What is written at each kind of step, and what is written into a file.
LEMMA Writing ==
  /\ Written("opencode") = <<"oc_manifest", "oc_executable">>
  /\ Written("npmlock") = <<"oc_lock">>
  /\ Written("quota") = <<"q_manifest", "q_lock", "q_hash">>
  /\ Written("releases") = ReleaseFiles
  /\ Written("flakepins") = Pins4
  /\ Written("flakeupdate") = <<"g_lock">>
  /\ Written("source") = <<"g_vendor">>
  /\ \A kind : Written(kind) \in {<< >>, <<"oc_manifest", "oc_executable">>, <<"oc_lock">>,
                 <<"q_manifest", "q_lock", "q_hash">>, ReleaseFiles,
                 Pins4, <<"g_lock">>, <<"g_vendor">>}
  BY DEF Written, OpenCodeWrites, QuotaWrites, PinWrites, SourceWrites, ReleaseWrites, Pins4

LEMMA WrittenType ==
  /\ ReleaseFiles \in Seq(Files)
  /\ <<"q_manifest", "q_lock", "q_hash">> \in Seq(Quota)
  /\ \A kind : Written(kind) \in Seq(Parts)
<1>1. ReleaseFiles \in Seq(Files)
  BY ReleasesAssumption DEF Files
<1>2. ReleaseFiles \in Seq(Parts)
  BY <1>1 DEF Parts
<1>3. <<"q_manifest", "q_lock", "q_hash">> \in Seq(Quota)
  BY DEF Quota
<1>4. <<"q_manifest", "q_lock", "q_hash">> \in Seq(Parts)
  BY DEF Quota, Parts
<1>5. /\ <<"oc_manifest", "oc_executable">> \in Seq(Parts) /\ <<"oc_lock">> \in Seq(Parts)
      /\ << >> \in Seq(Parts)
  BY DEF OpenCode, Parts
<1>6. /\ Pins4 \in Seq(Parts) /\ <<"g_lock">> \in Seq(Parts)
      /\ <<"g_vendor">> \in Seq(Parts)
  BY DEF Gentle, Parts, Pins4
<1> QED
  BY <1>1, <1>2, <1>3, <1>4, <1>5, <1>6, Writing

LEMMA Values ==
  /\ Value("oc_manifest") = target /\ Value("oc_executable") = target
  /\ \A q \in {"g_url", "g_package", "g_render", "g_assets"} : Value(q) = target
  /\ Value("oc_lock") = part["oc_manifest"]
  /\ Value("g_lock") = part["g_url"] /\ Value("g_vendor") = part["g_lock"]
<1>1. /\ DOMAIN Origin = {"oc_lock", "q_lock", "q_hash", "g_lock", "g_vendor"}
      /\ Origin["oc_lock"] = "oc_manifest" /\ Origin["g_lock"] = "g_url"
      /\ Origin["g_vendor"] = "g_lock"
  BY DEF Origin
<1> QED
  BY <1>1, ReleasesAssumption DEF Value, OpenCode, Gentle

LEMMA ValueType ==
  ASSUME TypeOK, NEW p \in Parts
  PROVE  Value(p) \in 1..MaxVersion
<1>1. /\ DOMAIN Origin = {"oc_lock", "q_lock", "q_hash", "g_lock", "g_vendor"}
      /\ \A q \in DOMAIN Origin : Origin[q] \in Parts
  BY DEF Origin, Parts, OpenCode, Quota, Gentle
<1> QED
  BY <1>1 DEF Value, TypeOK, LatestRelease, Packages

LEMMA InitEstablishes == Init => IInv
<1> SUFFICES ASSUME Init PROVE IInv
  OBVIOUS
<1>1. writes \in Seq(Parts)
  BY DEF Init
<1>2. TypeOK
  <2>1. upstream \in [Packages -> 1..MaxVersion] /\ part \in [Parts -> 1..MaxVersion]
    BY ReleasesAssumption DEF Init
  <2>2. target \in 1..MaxVersion
    BY ReleasesAssumption DEF Init
  <2>3. /\ env \in Envs /\ command \in Commands /\ at \in Nat \ {0}
        /\ code \in {"running", "ok", "failed"} /\ failure \in Nat
    BY DEF Init, Commands
  <2>4. pushed \in BOOLEAN
    BY Zenon DEF Init
  <2> QED
    BY <1>1, <2>1, <2>2, <2>3, <2>4 DEF TypeOK
<1>3. CodeInv /\ WritesInv /\ StageInv
  BY DEF Init, CodeInv, FailureStops, WritesInv, StageInv
<1> QED
  BY <1>2, <1>3 DEF IInv

LEMMA TypePreserved == IInv /\ [Next]_vars => TypeOK' /\ CodeInv'
<1> SUFFICES ASSUME IInv, [Next]_vars PROVE TypeOK' /\ CodeInv'
  OBVIOUS
<1> USE ReleasesAssumption DEF IInv, TypeOK, CodeInv, FailureStops, runVars
<1>1. ASSUME NEW p \in Packages, Release(p) PROVE TypeOK' /\ CodeInv'
  BY <1>1 DEF Release
<1>2. ASSUME NEW c \in Commands, Begin(c) PROVE TypeOK' /\ CodeInv'
  <2>1. writes' \in Seq(Parts) /\ target' \in 1..MaxVersion
    BY <1>2 DEF Begin
  <2>2. /\ command' \in Commands /\ at' = 1 /\ code' = "running" /\ ~pushed' /\ failure' = 0
        /\ pushed' \in BOOLEAN /\ UNCHANGED <<upstream, part, env>>
    BY <1>2 DEF Begin
  <2> QED
    BY <2>1, <2>2
<1>3. CASE Execute
  <2>1. PICK c \in BOOLEAN :
          IF code' # "failed" THEN c /\ at' = at + 1 /\ UNCHANGED <<writes, code, target>>
                                   /\ failure' = failure
          ELSE Abort(~c)
    BY <1>3 DEF Execute, Status, Abort, Running
  <2>2. writes' \in Seq(Parts)
    <3>1. << >> \in Seq(Parts)
      OBVIOUS
    <3>2. writes' = writes \/ writes' = << >>
      BY <2>1 DEF Abort
    <3> QED
      BY <3>1, <3>2
  <2> QED
    BY <1>3, <2>1, <2>2 DEF Execute, Abort, Running
<1>4. ASSUME NEW kind, NEW latest \in 1..MaxVersion, Fetch(kind, latest)
      PROVE  TypeOK' /\ CodeInv'
  <2>1. writes' \in Seq(Parts)
    BY <1>4, WrittenType DEF Fetch, Advance
  <2> QED
    BY <1>4, <2>1 DEF Fetch, Advance, Running
<1>5. CASE UpdateOpenCode \/ UpdateQuota \/ UpdatePins
  <2>1. LatestOnRegistry \in 1..MaxVersion /\ LatestOfMajor \in 1..MaxVersion
        /\ LatestTag \in 1..MaxVersion
    BY DEF LatestOnRegistry, LatestOfMajor, LatestTag, Packages
  <2> QED
    BY <1>4, <1>5, <2>1 DEF UpdateOpenCode, UpdateQuota, UpdatePins
<1>6. CASE Generate
  BY <1>6, WrittenType DEF Generate, Running
<1>7. CASE Write
  <2>1. Head(writes) \in Parts /\ Tail(writes) \in Seq(Parts)
    BY <1>7, Shorter DEF Write
  <2>2. part' \in [Parts -> 1..MaxVersion]
    BY <1>7, <2>1, ValueType DEF Write
  <2>3. writes' \in Seq(Parts) /\ at' \in Nat \ {0}
    <3>1. << >> \in Seq(Parts)
      OBVIOUS
    <3>2. writes' = << >> \/ writes' = Tail(writes)
      BY <1>7 DEF Write, Advance
    <3>3. at' = at \/ at' = at + 1
      BY <1>7 DEF Write, Advance
    <3>4. writes' \in Seq(Parts)
      BY Zenon, <2>1, <3>1, <3>2
    <3> QED
      BY <3>3, <3>4
  <2> QED
    BY <1>7, <2>2, <2>3 DEF Write, Advance, Running
<1>8. CASE Fail
  BY <1>8 DEF Fail, Abort, Running
<1>9. CASE Finish
  BY <1>9, Upgrade DEF Finish
<1>10. CASE UNCHANGED vars
  BY <1>10 DEF vars
<1> QED
  BY <1>1, <1>2, <1>3, <1>5, <1>6, <1>7, <1>8, <1>9, <1>10 DEF Next

\* What is written of an upgrade is there, and nothing else has changed.
LEMMA Written1 ==
  ASSUME TypeOK, Write
  PROVE  /\ Head(writes) \in Parts
         /\ part'[Head(writes)] = Value(Head(writes))
         /\ \A q \in Parts : q # Head(writes) => part'[q] = part[q]
         /\ UNCHANGED <<command, env, code, target>>
         /\ IF Len(writes) = 1 THEN at' = at + 1 /\ writes' = << >>
                               ELSE at' = at /\ writes' = Tail(writes)
<1>1. Head(writes) \in Parts
  BY Shorter DEF TypeOK, Write
<1> QED
  BY <1>1 DEF TypeOK, Write, Advance

\* Where an upgrade can be.
LEMMA Where ==
  ASSUME TypeOK, command = "upgrade", Running
  PROVE  /\ at \in {1, 2, 3, 4, 5, 6, 7, 8}
         /\ at = 1 => Step.kind = "opencode"
         /\ at = 2 => Step.kind = "npmlock"
         /\ at = 3 => Step.kind = "browser"
         /\ at = 4 => Step.kind = "quota"
         /\ at = 5 => Step.kind = "releases"
         /\ at = 6 => Step.kind = "flakepins"
         /\ at = 7 => Step.kind = "flakeupdate"
         /\ at = 8 => Step.kind = "source"
<1>1. at \in Nat \ {0} /\ at <= 8
  BY Upgrade DEF TypeOK, Running
<1>2. at \in {1, 2, 3, 4, 5, 6, 7, 8}
  BY <1>1
<1> QED
  BY <1>2, Upgrade DEF Step

UpgradeInv == WritesInv /\ StageInv

LEMMA WriteKeepsAgreement ==
  ASSUME IInv, Write, command = "upgrade"
  PROVE  UpgradeInv'
<1> USE DEF UpgradeInv, IInv
<1>1. Running /\ code = "running" /\ writes # << >> /\ code' = code /\ command' = command
  BY Written1 DEF Write, Running
<1>2. at \in {1, 2, 3, 4, 5, 6, 7, 8}
  BY <1>1, Where
<1>3. /\ {"oc_manifest", "oc_executable", "oc_lock"} \subseteq Parts
      /\ {"g_url", "g_package", "g_render", "g_assets", "g_lock", "g_vendor"} \subseteq Parts
      /\ Quota \cap (OpenCode \cup Gentle) = {} /\ Files \cap (OpenCode \cup Gentle) = {}
  BY ReleasesAssumption DEF Parts, OpenCode, Gentle, Quota
<1>4. CASE at = 1
  <2>1. CASE writes = <<"oc_manifest", "oc_executable">>
    <3>1. at' = 1 /\ writes' = <<"oc_executable">> /\ part'["oc_manifest"] = target /\ target' = target
      BY <1>4, <2>1, Written1, Values, Tuples
    <3> QED
      BY <1>1, <3>1 DEF WritesInv, StageInv
  <2>2. CASE writes = <<"oc_executable">>
    <3>1. at' = 2 /\ writes' = << >> /\ part'["oc_executable"] = target
          /\ part'["oc_manifest"] = part["oc_manifest"]
      BY <1>3, <1>4, <2>2, Written1, Values, Tuples
    <3>2. part["oc_manifest"] = target
      BY <1>1, <1>4, <2>2 DEF StageInv
    <3> QED
      BY <1>1, <3>1, <3>2 DEF WritesInv, StageInv
  <2> QED
    BY <1>1, <1>4, <2>1, <2>2 DEF WritesInv
<1>5. CASE at = 2
  <2>1. writes = <<"oc_lock">>
    BY <1>1, <1>5 DEF WritesInv
  <2>2. /\ at' = 3 /\ writes' = << >> /\ part'["oc_lock"] = part["oc_manifest"]
        /\ part'["oc_manifest"] = part["oc_manifest"]
        /\ part'["oc_executable"] = part["oc_executable"]
    BY <1>3, <1>5, <2>1, Written1, Values, Tuples
  <2>3. writes' \in Seq(Quota \cup Files)
    <3>1. << >> \in Seq(Quota \cup Files)
      OBVIOUS
    <3> QED
      BY Zenon, <2>2, <3>1
  <2>4. part["oc_manifest"] = part["oc_executable"]
    BY <1>1, <1>5 DEF StageInv
  <2> QED
    BY <1>1, <2>2, <2>3, <2>4 DEF WritesInv, StageInv
<1>6. CASE at \in {3, 4, 5}
  <2>1. writes \in Seq(Quota \cup Files)
    BY <1>1, <1>6 DEF WritesInv
  <2>2. Head(writes) \in Quota \cup Files /\ Tail(writes) \in Seq(Quota \cup Files)
    BY <1>1, <2>1, Shorter
  <2>3. \A q \in OpenCode : part'[q] = part[q]
    BY <1>3, <2>2, Written1 DEF Parts
  <2>4. at' = at \/ (at' = at + 1 /\ writes' = << >>)
    BY Written1
  <2>5. writes' \in Seq(Quota \cup Files)
    <3>1. << >> \in Seq(Quota \cup Files)
      OBVIOUS
    <3>2. writes' = << >> \/ writes' = Tail(writes)
      BY Written1
    <3> QED
      BY Zenon, <2>2, <3>1, <3>2
  <2>6. StageInv'
    <3>1. \A q \in {"oc_manifest", "oc_executable", "oc_lock"} : part'[q] = part[q]
      BY <2>3 DEF OpenCode
    <3>2. at' \in {3, 4, 5, 6} /\ (at' = 6 => writes' = << >>)
      BY <1>6, <2>4
    <3>3. at' = 6 => writes' \notin {Pins3, Pins2, Pins1}
      BY Zenon, <3>2, PinTails
    <3>4. /\ part["oc_manifest"] = part["oc_executable"]
          /\ at > 2 => part["oc_lock"] = part["oc_manifest"]
      BY <1>1, <1>6 DEF StageInv
    <3> QED
      BY <1>1, <1>6, <3>1, <3>2, <3>3, <3>4 DEF StageInv
  <2>7. WritesInv'
    BY <1>1, <1>6, <2>4, <2>5 DEF WritesInv
  <2> QED
    BY <2>6, <2>7
<1>7. CASE at = 6
  <2>1. part["oc_manifest"] = part["oc_executable"] /\ part["oc_lock"] = part["oc_manifest"]
    BY <1>1, <1>7 DEF StageInv
  <2>2. CASE writes = Pins4
    <3>1. /\ at' = 6 /\ writes' = Pins3 /\ part'["g_url"] = target /\ target' = target
          /\ \A q \in {"oc_manifest", "oc_executable", "oc_lock"} : part'[q] = part[q]
      BY <1>3, <1>7, <2>2, Written1, Values, PinTails
    <3> QED
      BY <1>1, <2>1, <3>1, PinTails DEF WritesInv, StageInv
  <2>3. CASE writes = Pins3
    <3>1. /\ at' = 6 /\ writes' = Pins2 /\ part'["g_package"] = target /\ target' = target
          /\ \A q \in {"oc_manifest", "oc_executable", "oc_lock", "g_url"} : part'[q] = part[q]
      BY <1>3, <1>7, <2>3, Written1, Values, PinTails
    <3>2. \A q \in {"g_url"} : part[q] = target
      BY <1>1, <1>7, <2>3 DEF StageInv
    <3> QED
      BY <1>1, <2>1, <3>1, <3>2, PinTails DEF WritesInv, StageInv
  <2>4. CASE writes = Pins2
    <3>1. /\ at' = 6 /\ writes' = Pins1 /\ part'["g_render"] = target /\ target' = target
          /\ \A q \in {"oc_manifest", "oc_executable", "oc_lock", "g_url", "g_package"} : part'[q] = part[q]
      BY <1>3, <1>7, <2>4, Written1, Values, PinTails
    <3>2. \A q \in {"g_url", "g_package"} : part[q] = target
      BY <1>1, <1>7, <2>4 DEF StageInv
    <3> QED
      BY <1>1, <2>1, <3>1, <3>2, PinTails DEF WritesInv, StageInv
  <2>5. CASE writes = Pins1
    <3>1. /\ at' = 7 /\ writes' = << >> /\ part'["g_assets"] = target
          /\ \A q \in {"oc_manifest", "oc_executable", "oc_lock", "g_url", "g_package", "g_render"} :
               part'[q] = part[q]
      BY <1>3, <1>7, <2>5, Written1, Values, PinTails
    <3>2. \A q \in {"g_url", "g_package", "g_render"} : part[q] = target
      BY <1>1, <1>7, <2>5 DEF StageInv
    <3> QED
      BY <1>1, <2>1, <3>1, <3>2, PinTails DEF WritesInv, StageInv
  <2> QED
    BY <1>1, <1>7, <2>2, <2>3, <2>4, <2>5 DEF WritesInv
<1>8. CASE at = 7
  <2>1. writes = <<"g_lock">>
    BY <1>1, <1>8 DEF WritesInv
  <2>2. /\ at' = 8 /\ writes' = << >> /\ part'["g_lock"] = part["g_url"]
        /\ \A q \in {"oc_manifest", "oc_executable", "oc_lock",
                    "g_url", "g_package", "g_render", "g_assets"} :
             part'[q] = part[q]
    BY <1>3, <1>8, <2>1, Written1, Values, Tuples
  <2> QED
    BY <1>1, <1>8, <2>2 DEF WritesInv, StageInv
<1>9. CASE at = 8
  <2>1. writes = <<"g_vendor">>
    BY <1>1, <1>9 DEF WritesInv
  <2>2. /\ at' = 9 /\ writes' = << >> /\ part'["g_vendor"] = part["g_lock"]
        /\ \A q \in {"oc_manifest", "oc_executable", "oc_lock",
                    "g_url", "g_package", "g_render", "g_assets", "g_lock"} :
             part'[q] = part[q]
    BY <1>3, <1>9, <2>1, Written1, Values, Tuples
  <2> QED
    BY <1>1, <1>9, <2>2 DEF WritesInv, StageInv
<1> QED
  BY <1>2, <1>4, <1>5, <1>6, <1>7, <1>8, <1>9

LEMMA UpgradePreserved == IInv /\ [Next]_vars => UpgradeInv'
<1> SUFFICES ASSUME IInv, [Next]_vars PROVE UpgradeInv'
  OBVIOUS
<1> USE DEF IInv, UpgradeInv
<1>0. at \in Nat \ {0}
  BY DEF TypeOK
<1>1. ASSUME NEW p \in Packages, Release(p) PROVE UpgradeInv'
  BY <1>1 DEF Release, runVars, WritesInv, StageInv
<1>2. ASSUME NEW c \in Commands, Begin(c) PROVE UpgradeInv'
  <2>1. at' = 1 /\ writes' = << >>
    BY <1>2 DEF Begin
  <2> QED
    BY <2>1 DEF WritesInv, StageInv
<1>3. CASE command' # "upgrade"
  BY <1>3 DEF WritesInv, StageInv
<1>4. CASE Execute /\ command' = "upgrade"
  <2>1. command = "upgrade" /\ Running /\ part' = part
    BY <1>4 DEF Execute
  <2>2. CASE code' = "failed"
    BY <2>2 DEF WritesInv, StageInv
  <2>3. CASE code' # "failed"
    <3>1. at' = at + 1 /\ writes' = writes /\ code' = code /\ code = "running"
      BY <1>4, <2>3 DEF Execute, Abort, Running
    <3>2. Step.kind \notin {"opencode", "quota", "flakepins"} /\ Written(Step.kind) = << >>
      BY <1>4 DEF Execute, Fetches
    <3>3. at \in {3, 5}
      BY <2>1, <3>2, Where, Writing, Tuples
    <3> QED
      <4>1. writes' = << >> /\ at' \in {4, 6} /\ << >> \in Seq(Quota \cup Files)
        BY <1>4, <3>1, <3>3 DEF Execute
      <4> QED
        BY <2>1, <3>1, <3>3, <4>1, PinTails DEF WritesInv, StageInv
  <2> QED
    BY <2>2, <2>3
<1>5. CASE (UpdateOpenCode \/ UpdateQuota \/ UpdatePins) /\ command' = "upgrade"
  <2>1. PICK kind \in {"opencode", "quota", "flakepins"} : \E latest : Fetch(kind, latest)
    BY <1>5 DEF UpdateOpenCode, UpdateQuota, UpdatePins
  <2>2. /\ command = "upgrade" /\ Running /\ part' = part /\ code' = code /\ code = "running"
        /\ writes = << >> /\ Step.kind = kind
    BY <1>5, <2>1 DEF Fetch, Advance, Running
  <2>3. at = IF kind = "opencode" THEN 1 ELSE IF kind = "quota" THEN 4 ELSE 6
    BY <2>1, <2>2, Where
  <2>4. \/ at' = at /\ writes' = Written(kind)
        \/ kind = "quota" /\ at' = at + 1 /\ writes' = << >>
    BY <2>1 DEF Fetch, Advance, Skips
  <2>5. CASE kind = "opencode"
    BY <2>2, <2>3, <2>4, <2>5, Writing, Tuples DEF WritesInv, StageInv
  <2>6. CASE kind = "quota"
    <3>1. << >> \in Seq(Quota \cup Files)
      OBVIOUS
    <3>2. <<"q_manifest", "q_lock", "q_hash">> \in Seq(Quota \cup Files)
      BY DEF Quota
    <3>3. writes' \in {<< >>, <<"q_manifest", "q_lock", "q_hash">>} /\ at' \in {4, 5}
      BY <2>3, <2>4, <2>6, Writing
    <3>4. writes' \in Seq(Quota \cup Files)
      BY Zenon, <3>1, <3>2, <3>3
    <3> QED
      BY <2>2, <2>3, <2>6, <3>3, <3>4 DEF WritesInv, StageInv
  <2>7. CASE kind = "flakepins"
    BY <2>2, <2>3, <2>4, <2>7, Writing, PinTails DEF WritesInv, StageInv
  <2> QED
    BY <2>5, <2>6, <2>7
<1>6. CASE Generate /\ command' = "upgrade"
  <2>1. /\ command = "upgrade" /\ Running /\ part' = part /\ code' = code /\ code = "running"
        /\ at' = at /\ writes' = Written(Step.kind) /\ writes' # << >>
        /\ Step.kind \notin {"opencode", "quota", "flakepins"}
    BY <1>6 DEF Generate, Running, Fetches
  <2>2. at \in {2, 3, 5, 7, 8}
    BY <2>1, Where
  <2>3. CASE at = 2
    BY <2>1, <2>3, Where, Writing DEF WritesInv, StageInv
  <2>4. CASE at = 3
    <3>1. Written("browser") = << >>
      BY DEF Written
    <3> QED
      BY <2>1, <2>4, <3>1, Where
  <2>5. CASE at = 5
    <3>1. writes' \in Seq(Quota \cup Files)
      BY <2>1, <2>5, Where, Writing, WrittenType
    <3> QED
      BY <2>1, <2>5, <3>1 DEF WritesInv, StageInv
  <2>6. CASE at = 7
    BY <2>1, <2>6, Where, Writing DEF WritesInv, StageInv
  <2>7. CASE at = 8
    BY <2>1, <2>7, Where, Writing DEF WritesInv, StageInv
  <2> QED
    BY <2>2, <2>3, <2>4, <2>5, <2>6, <2>7
<1>7. CASE Write /\ command' = "upgrade"
  <2>1. command = "upgrade"
    BY <1>7 DEF Write
  <2> QED
    BY <1>7, <2>1, WriteKeepsAgreement
<1>8. CASE Fail
  BY <1>8 DEF Fail, Abort, WritesInv, StageInv
<1>9. CASE Finish
  BY <1>9 DEF Finish, WritesInv, StageInv
<1>10. CASE UNCHANGED vars
  BY <1>10 DEF vars, runVars, WritesInv, StageInv
<1> QED
  BY <1>1, <1>2, <1>3, <1>4, <1>5, <1>6, <1>7, <1>8, <1>9, <1>10 DEF Next

LEMMA Inductive == Spec => []IInv
<1>1. IInv /\ [Next]_vars => IInv'
  BY TypePreserved, UpgradePreserved DEF IInv, UpgradeInv
<1> QED
  BY <1>1, InitEstablishes, PTL DEF Spec

\* Every variable keeps its type, for any packages and versions.
THEOREM TypeCorrect == Spec => []TypeOK
<1>1. IInv => TypeOK
  BY DEF IInv
<1> QED
  BY <1>1, Inductive, PTL

\* A failed step ends the command, which neither goes on, nor exits 0, nor pushes.
THEOREM FailureStopsAlways == Spec => []FailureStops
<1>1. IInv => FailureStops
  BY DEF IInv, CodeInv
<1> QED
  BY <1>1, Inductive, PTL

\* An upgrade that exits 0 leaves OpenCode's files at one version, and Gentle AI's
\* at one, whatever state an earlier one left them in.  The quota plug-in's do not
\* converge, and are not part of it.
THEOREM UpgradeConvergesAlways == Spec => []UpgradeConverges
<1>1. IInv => UpgradeConverges
  <2> SUFFICES ASSUME IInv, command = "upgrade", code = "ok"
               PROVE  Agree(OpenCode) /\ Agree(Gentle)
    BY DEF UpgradeConverges
  <2>1. at \in Nat /\ at > 8
    BY DEF IInv, CodeInv, TypeOK
  <2>2. /\ part["oc_manifest"] = part["oc_executable"] /\ part["oc_lock"] = part["oc_manifest"]
        /\ \A q \in {"g_package", "g_render", "g_assets"} : part[q] = part["g_url"]
        /\ part["g_lock"] = part["g_url"]
        /\ part["g_vendor"] = part["g_lock"]
    BY <2>1 DEF IInv, StageInv
  <2> QED
    BY <2>2 DEF Agree, OpenCode, Gentle
<1> QED
  BY <1>1, Inductive, PTL
===================================================================================
