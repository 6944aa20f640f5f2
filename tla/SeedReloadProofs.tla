-------------------------- MODULE SeedReloadProofs ---------------------------
(***************************************************************************)
(* Proofs about the settings and the seed file, for every environment, any *)
(* generations and any number of parts and runs.                           *)
(***************************************************************************)
EXTENDS SeedReload, SequenceTheorems, TLAPS

(***************************************************************************)
(* Settings                                                                *)
(***************************************************************************)

(* A configuration is accepted only if no check fails.                     *)
LEMMA AcceptedFailsNothing ==
  ASSUME NEW env, Accepted(env), NEW i \in 1..10
  PROVE  ~ Fails(env, Checks[i])
  <1> DEFINE P(n) == ~ Fails(env, Checks[n])
  <1>0. \A n \in 1..10 : (\A j \in 1..(n - 1) : P(j)) => P(n)
    BY DEF Accepted, Failing
  <1> HIDE DEF P
  <1>1. P(1) BY <1>0
  <1>2. P(2) BY <1>0, <1>1
  <1>3. P(3) BY <1>0, <1>1, <1>2
  <1>4. P(4) BY <1>0, <1>1, <1>2, <1>3
  <1>5. P(5) BY <1>0, <1>1, <1>2, <1>3, <1>4
  <1>6. P(6) BY <1>0, <1>1, <1>2, <1>3, <1>4, <1>5
  <1>7. P(7) BY <1>0, <1>1, <1>2, <1>3, <1>4, <1>5, <1>6
  <1>8. P(8) BY <1>0, <1>1, <1>2, <1>3, <1>4, <1>5, <1>6, <1>7
  <1>9. P(9) BY <1>0, <1>1, <1>2, <1>3, <1>4, <1>5, <1>6, <1>7, <1>8
  <1>10. P(10) BY <1>0, <1>1, <1>2, <1>3, <1>4, <1>5, <1>6, <1>7, <1>8, <1>9
  <1>11. P(i)
    BY <1>1, <1>2, <1>3, <1>4, <1>5, <1>6, <1>7, <1>8, <1>9, <1>10
  <1> QED
    BY <1>11 DEF P

(* Whatever environment is accepted, the auction's and the index loop's    *)
(* assumptions hold of its configuration, and numbers are as asked for.    *)
THEOREM AcceptedIsSane ==
  ASSUME NEW env, Accepted(env)
  PROVE  AsAsked(env) /\ Sane(ConfigOf(env))
  <1>1. ~ Fails(env, Check("invalid", "BIND_ADDR"))
    BY AcceptedFailsNothing, 1 \in 1..10 DEF Checks
  <1>2. /\ ~ Fails(env, Check("invalid", "K_TARGETING"))
        /\ ~ Fails(env, Check("out_of_range", "K_TARGETING"))
    BY AcceptedFailsNothing, 3 \in 1..10, 7 \in 1..10 DEF Checks
  <1>3. /\ ~ Fails(env, Check("invalid", "RESERVE_CPT_MICROS"))
        /\ ~ Fails(env, Check("out_of_range", "RESERVE_CPT_MICROS"))
    BY AcceptedFailsNothing, 4 \in 1..10, 8 \in 1..10 DEF Checks
  <1>4. /\ ~ Fails(env, Check("invalid", "PRICE_INCREMENT_MICROS"))
        /\ ~ Fails(env, Check("out_of_range", "PRICE_INCREMENT_MICROS"))
    BY AcceptedFailsNothing, 5 \in 1..10, 9 \in 1..10 DEF Checks
  <1>5. /\ ~ Fails(env, Check("invalid", "INDEX_REFRESH_SECS"))
        /\ ~ Fails(env, Check("out_of_range", "INDEX_REFRESH_SECS"))
    BY AcceptedFailsNothing, 6 \in 1..10, 10 \in 1..10 DEF Checks
  <1>6. Value(env, "BIND_ADDR") \in Addresses
    BY <1>1 DEF Fails, Check, Parses
  <1>7. Value(env, "K_TARGETING") \in I64 /\ Value(env, "K_TARGETING") >= 0
    BY <1>2 DEF Fails, Check, Parses, InRange
  <1>8. Value(env, "RESERVE_CPT_MICROS") \in I64 /\ Value(env, "RESERVE_CPT_MICROS") > 0
    BY <1>3 DEF Fails, Check, Parses, InRange
  <1>9. Value(env, "PRICE_INCREMENT_MICROS") \in I64 /\ Value(env, "PRICE_INCREMENT_MICROS") >= 0
    BY <1>4 DEF Fails, Check, Parses, InRange
  <1>10. Value(env, "INDEX_REFRESH_SECS") \in 1..MaxRefresh
    BY <1>5 DEF Fails, Check, Parses, InRange
  <1>11. Sane(ConfigOf(env))
    BY <1>6, <1>7, <1>8, <1>9, <1>10, SettingsAssumption DEF Sane, ConfigOf, I64
  <1>12. AsAsked(env)
    BY DEF AsAsked, SetTo, ConfigOf, Value
  <1> QED
    BY <1>11, <1>12

(* No accepted environment breaks what the auction, the privacy rule and   *)
(* the refresh loop rely on.                                               *)
THEOREM OnlySaneSettingsStart == Spec => []AcceptedSettingsAreSane
  <1>1. AcceptedSettingsAreSane
    BY AcceptedIsSane DEF AcceptedSettingsAreSane
  <1> QED
    BY <1>1, PTL

(***************************************************************************)
(* Each setting by itself.  A check looks at the value of one variable,    *)
(* and every default passes.                                               *)
(***************************************************************************)
LEMMA ChecksAreOfVariables ==
  ASSUME NEW i \in 1..10
  PROVE  /\ Checks[i].var \in Vars
         /\ Checks[i].kind = "invalid" \/ Checks[i].var \in Integer4
  <1>1. i \in {1, 2, 3, 4, 5, 6, 7, 8, 9, 10}
    OBVIOUS
  <1> QED
    BY <1>1 DEF Checks, Check, Vars, Integer4

LEMMA DefaultsPass ==
  ASSUME NEW env, NEW i \in 1..10, Value(env, Checks[i].var) = DefaultOf(Checks[i].var)
  PROVE  ~ Fails(env, Checks[i])
  <1> DEFINE v == Checks[i].var
  <1>1. v \in Vars /\ (Checks[i].kind = "invalid" \/ v \in Integer4)
    BY ChecksAreOfVariables
  <1> HIDE DEF v
  <1>2. Value(env, v) = DefaultOf(v)
    BY DEF v
  <1>3. Parses(env, v)
    BY <1>1, <1>2, SettingsAssumption DEF Parses, DefaultOf, Vars, Integer4, I64
  <1>4. v \in Integer4 => InRange(v, Value(env, v))
    <2>1. CASE v = "K_TARGETING"
      <3>1. Value(env, v) = DefaultThreshold
        BY <1>2, <2>1 DEF DefaultOf
      <3> QED
        BY <2>1, <3>1, SettingsAssumption DEF InRange
    <2>2. CASE v = "RESERVE_CPT_MICROS"
      <3>1. Value(env, v) = DefaultReserve
        BY <1>2, <2>2 DEF DefaultOf
      <3> QED
        BY <2>2, <3>1, SettingsAssumption DEF InRange
    <2>3. CASE v = "PRICE_INCREMENT_MICROS"
      <3>1. Value(env, v) = DefaultIncrement
        BY <1>2, <2>3 DEF DefaultOf
      <3> QED
        BY <2>3, <3>1, SettingsAssumption DEF InRange
    <2>4. CASE v = "INDEX_REFRESH_SECS"
      <3>1. Value(env, v) = DefaultRefresh
        BY <1>2, <2>4 DEF DefaultOf
      <3> QED
        BY <2>4, <3>1, SettingsAssumption DEF InRange
    <2> QED
      BY <2>1, <2>2, <2>3, <2>4 DEF Integer4
  <1> QED
    BY <1>1, <1>3, <1>4 DEF Fails, v

LEMMA SameValueSameChecks ==
  ASSUME NEW env, NEW env2, NEW i \in 1..10,
         Value(env, Checks[i].var) = Value(env2, Checks[i].var)
  PROVE  Fails(env, Checks[i]) <=> Fails(env2, Checks[i])
  BY DEF Fails, Parses

(* A variable on its own fails what it fails in the whole environment, and *)
(* nothing else fails.                                                     *)
LEMMA OnlyItsOwnChecks ==
  ASSUME NEW env, NEW var \in Vars, NEW i \in 1..10
  PROVE  Fails(Only(env, var), Checks[i]) <=> Checks[i].var = var /\ Fails(env, Checks[i])
  <1> DEFINE v == Checks[i].var
  <1>1. v \in Vars
    BY ChecksAreOfVariables
  <1>2. CASE v = var
    <2>1. Only(env, var)[v] = env[v]
      BY <1>1, <1>2 DEF Only
    <2>2. Value(Only(env, var), v) = Value(env, v)
      BY <2>1 DEF Value
    <2> QED
      BY <1>2, <2>2, SameValueSameChecks
  <1>3. CASE v # var
    <2>1. Only(env, var)[v] = Unset
      BY <1>1, <1>3 DEF Only
    <2>2. Value(Only(env, var), v) = DefaultOf(v)
      BY <2>1 DEF Value
    <2> QED
      BY <1>3, <2>2, DefaultsPass
  <1> QED
    BY <1>2, <1>3

LEMMA AcceptedIsNoneFails ==
  ASSUME NEW env
  PROVE  Accepted(env) <=> \A i \in 1..10 : ~ Fails(env, Checks[i])
  <1>1. (\A i \in 1..10 : ~ Fails(env, Checks[i])) => Accepted(env)
    BY DEF Accepted, Failing
  <1> QED
    BY <1>1, AcceptedFailsNothing

(* The error is the first check that fails.                                *)
LEMMA ErrorIsTheFirst ==
  ASSUME NEW env, NEW k \in 1..10, Fails(env, Checks[k]),
         \A j \in 1..10 : j < k => ~ Fails(env, Checks[j])
  PROVE  Failing(env) = {k} /\ ErrorOf(env) = Checks[k]
  <1>1. Failing(env) = {k}
    BY DEF Failing
  <1> QED
    BY <1>1 DEF ErrorOf

LEMMA RefusedHasAFirst ==
  ASSUME NEW env, ~ Accepted(env)
  PROVE  \E k \in 1..10 : /\ Fails(env, Checks[k])
                          /\ \A j \in 1..10 : j < k => ~ Fails(env, Checks[j])
                          /\ ErrorOf(env) = Checks[k]
  <1>1. PICK k \in Failing(env) : TRUE
    BY DEF Accepted
  <1>2. /\ k \in 1..10 /\ Fails(env, Checks[k])
        /\ \A j \in 1..10 : j < k => ~ Fails(env, Checks[j])
    BY <1>1 DEF Failing
  <1> QED
    BY <1>2, ErrorIsTheFirst

(* Config::from_lookup stops the server exactly when some variable, on its *)
(* own, would; the one it names is such a one, and blanking it removes     *)
(* that error, whatever the others are set to.                             *)
THEOREM TheNamedIsAtFault == Spec => []ErrorsNameTheCulprit
  <1>1. ASSUME NEW env \in Environments
        PROVE  Accepted(env) <=> \A var \in Vars : Accepted(Only(env, var))
    BY AcceptedIsNoneFails, OnlyItsOwnChecks, ChecksAreOfVariables
  <1>2. ASSUME NEW env \in Environments, ~ Accepted(env)
        PROVE  LET error == ErrorOf(env)
                   blanked == [env EXCEPT ![error.var] = Blank]
               IN  /\ ErrorOf(Only(env, error.var)) = error
                   /\ Accepted(blanked) \/ ErrorOf(blanked) # error
    <2>1. PICK k \in 1..10 : /\ Fails(env, Checks[k])
                             /\ \A j \in 1..10 : j < k => ~ Fails(env, Checks[j])
                             /\ ErrorOf(env) = Checks[k]
      BY <1>2, RefusedHasAFirst
    <2> DEFINE v == Checks[k].var
               blanked == [env EXCEPT ![v] = Blank]
    <2>2. v \in Vars
      BY ChecksAreOfVariables
    <2> HIDE DEF v
    <2>3. ErrorOf(Only(env, v)) = Checks[k]
      <3>1. Fails(Only(env, v), Checks[k])
        BY <2>1, <2>2, OnlyItsOwnChecks DEF v
      <3>2. \A j \in 1..10 : j < k => ~ Fails(Only(env, v), Checks[j])
        BY <2>1, <2>2, OnlyItsOwnChecks
      <3> QED
        BY <3>1, <3>2, ErrorIsTheFirst
    <2>4. ASSUME ~ Accepted(blanked) PROVE ErrorOf(blanked) # Checks[k]
      <3>1. PICK l \in 1..10 : Fails(blanked, Checks[l]) /\ ErrorOf(blanked) = Checks[l]
        BY <2>4, RefusedHasAFirst
      <3>2. blanked[v] = Blank
        BY <2>2, ReloadAssumption
      <3>3. Value(blanked, v) = DefaultOf(v)
        BY <3>2 DEF Value
      <3>4. Checks[l].var # v
        BY <3>1, <3>3, DefaultsPass
      <3> QED
        BY <3>1, <3>4 DEF v
    <2> QED
      BY <2>1, <2>3, <2>4 DEF v
  <1>3. ErrorsNameTheCulprit
    BY <1>1, <1>2 DEF ErrorsNameTheCulprit
  <1> QED
    BY <1>3, PTL

(***************************************************************************)
(* The seed file                                                           *)
(***************************************************************************)
Part == PartsOf(Generations)

LEMMA PrefixFacts ==
  ASSUME NEW g \in Generations, NEW n \in Nat
  PROVE  /\ Prefix(g, n) \in Seq(Part)
         /\ Len(Prefix(g, n)) = n
         /\ \A i \in 1..n : Prefix(g, n)[i] = <<g, i>>
         /\ Append(Prefix(g, n), <<g, n + 1>>) = Prefix(g, n + 1)
  <1>1. \A i \in 1..n : <<g, i>> \in Part
    BY DEF Part, PartsOf
  <1>2. Prefix(g, n) \in Seq(Part)
    BY <1>1 DEF Prefix
  <1>3. Len(Prefix(g, n)) = n
    BY <1>2, LenProperties DEF Prefix
  <1>4. \A i \in 1..n : Prefix(g, n)[i] = <<g, i>>
    BY DEF Prefix
  <1>5. Append(Prefix(g, n), <<g, n + 1>>) = Prefix(g, n + 1)
    <2> DEFINE s == Prefix(g, n)
               t == Append(s, <<g, n + 1>>)
    <2>1. <<g, n + 1>> \in Part
      BY DEF Part, PartsOf
    <2>2. /\ t \in Seq(Part)
          /\ Len(t) = n + 1
          /\ \A i \in 1..n : t[i] = s[i]
          /\ t[n + 1] = <<g, n + 1>>
      BY <1>2, <1>3, <2>1, AppendProperties
    <2>3. t = [i \in 1..(n + 1) |-> t[i]]
      BY <2>2, LenProperties
    <2>4. \A i \in 1..(n + 1) : t[i] = <<g, i>>
      BY <2>2, <1>4
    <2> QED
      BY <2>3, <2>4 DEF Prefix
  <1> QED
    BY <1>2, <1>3, <1>4, <1>5

(* What is in a file is the beginning of one generation, complete when the *)
(* writer says so.                                                         *)
FilesInv ==
  /\ \A f \in Files : content[f] = Missing \/ \E g \in Generations, n \in Nat : content[f] = Prefix(g, n)
  /\ writer # "idle" => generation \in Generations
  /\ writer = "write" =>
       \E n \in Nat : content[writing] = Prefix(generation, n) /\ n < Parts[generation][writing]
  /\ writer # "idle" /\ writer # "failed" /\ writing = "requests" =>
       content["seed"] = Whole(generation, "seed")
  /\ writer = "ok" => writing = "requests" /\ content["requests"] = Whole(generation, "requests")

(* A load nobody interferes with has read exactly the file so far.         *)
ReadInv ==
  load = "reading" =>
    /\ content["seed"] # Missing
    /\ ~ touched => /\ Len(got) <= Len(content["seed"])
                    /\ got = [i \in 1..Len(got) |-> content["seed"][i]]

ReloadInv == TypeOK /\ FilesInv /\ ReadInv

LEMMA ReloadStarts == Init => ReloadInv
  <1> SUFFICES ASSUME Init PROVE ReloadInv
    OBVIOUS
  <1>1. <<>> \in Seq(PartsOf(Generations))
    OBVIOUS
  <1>2. MaxRuns \in Nat
    BY ReloadAssumption
  <1>3. content \in [Files -> Seq(PartsOf(Generations)) \cup {Missing}]
    BY DEF Init
  <1>4. writing \in Files
    BY DEF Init, Files
  <1>5. TypeOK
    <2>1. touched \in BOOLEAN
      BY DEF Init
    <2>2. runs \in 0..MaxRuns
      BY <1>2 DEF Init
    <2>3. got \in Seq(PartsOf(Generations))
      BY <1>1 DEF Init
    <2> QED
      BY <1>3, <1>4, <2>1, <2>2, <2>3 DEF Init, TypeOK
  <1>6. FilesInv
    BY DEF Init, FilesInv, Files
  <1>7. ReadInv
    BY DEF Init, ReadInv
  <1> QED
    BY <1>5, <1>6, <1>7 DEF ReloadInv

(* What the writer knows of the file it is writing.                        *)
LEMMA WritingFacts ==
  ASSUME ReloadInv, writer = "write"
  PROVE  /\ generation \in Generations
         /\ writing \in Files
         /\ Last \in Nat \ {0}
         /\ Written \in Nat /\ Written < Last
         /\ content[writing] = Prefix(generation, Written)
         /\ NextPart = Prefix(generation, Written + 1)
         /\ NextPart \in Seq(Part)
         /\ Len(NextPart) = Written + 1
         /\ \A i \in 1..Written : NextPart[i] = content[writing][i]
  <1>1. generation \in Generations /\ writing \in Files
    BY DEF ReloadInv, FilesInv, TypeOK
  <1>2. PICK n \in Nat : content[writing] = Prefix(generation, n) /\ n < Last
    BY DEF ReloadInv, FilesInv, Last
  <1>3. Last \in Nat \ {0}
    BY <1>1, ReloadAssumption DEF Last
  <1>4. Written = n
    BY <1>1, <1>2, PrefixFacts DEF Written
  <1>5. NextPart = Prefix(generation, n + 1)
    BY <1>1, <1>2, <1>4, PrefixFacts DEF NextPart
  <1>6. NextPart \in Seq(Part) /\ Len(NextPart) = n + 1
    BY <1>1, <1>5, PrefixFacts, n + 1 \in Nat
  <1>7. ASSUME NEW i \in 1..n PROVE NextPart[i] = content[writing][i]
    <2>1. Prefix(generation, n + 1)[i] = <<generation, i>>
      BY <1>1, <1>7, PrefixFacts, n + 1 \in Nat, i \in 1..(n + 1)
    <2>2. Prefix(generation, n)[i] = <<generation, i>>
      BY <1>1, <1>7, PrefixFacts
    <2> QED
      BY <2>1, <2>2, <1>2, <1>5
  <1> QED
    BY <1>1, <1>2, <1>3, <1>4, <1>5, <1>6, <1>7

(* Writing the next part leaves a quiet load's view of the file as it was: *)
(* if the seed file changes, the load counts as touched.                   *)
LEMMA PutKeepsReads ==
  ASSUME ReloadInv, NEW parts, Put(parts), parts # Missing,
         load' = load, got' = got
  PROVE  ReadInv'
  <1>1. content \in [Files -> Seq(Part) \cup {Missing}] /\ "seed" \in Files /\ writing \in Files
    BY DEF ReloadInv, TypeOK, Part, Files
  <1>2. CASE writing = "seed"
    BY <1>1, <1>2 DEF ReloadInv, ReadInv, Put
  <1>3. CASE writing # "seed"
    <2>1. content'["seed"] = content["seed"]
      BY <1>1, <1>3 DEF Put
    <2>2. touched' = touched
      BY <1>3 DEF Put, ReloadInv, TypeOK
    <2> QED
      BY <2>1, <2>2 DEF ReloadInv, ReadInv
  <1> QED
    BY <1>2, <1>3

LEMMA FileSteps ==
  ASSUME ReloadInv, Seeding
  PROVE  ReloadInv'
  <1> USE DEF ReloadInv
  <1>0. /\ content \in [Files -> Seq(Part) \cup {Missing}]
        /\ "seed" \in Files /\ "requests" \in Files
        /\ \A f \in Files : f \in {"seed", "requests"}
        /\ runs \in 0..MaxRuns /\ MaxRuns \in Nat /\ writing \in Files
        /\ touched \in BOOLEAN
    BY ReloadAssumption DEF TypeOK, Part, Files
  <1>1. CASE Run
    <2>1. TypeOK'
      BY <1>0, <1>1 DEF Run, TypeOK, loader
    <2>2. FilesInv'
      BY <1>1 DEF Run, FilesInv, loader
    <2>3. ReadInv'
      BY <1>1 DEF Run, ReadInv, loader
    <2> QED
      BY <2>1, <2>2, <2>3
  <1>2. CASE Create
    <2>1. <<>> \in Seq(Part) /\ <<>> # Missing
      <3>1. <<>> \in Seq(Generations \X (Nat \ {0}))
        OBVIOUS
      <3> QED
        BY <3>1, ReloadAssumption DEF Part, PartsOf
    <2>2. generation \in Generations
      BY <1>2 DEF Create, FilesInv
    <2>3. <<>> = Prefix(generation, 0)
      BY <2>2, PrefixFacts, 0 \in Nat, EmptySeq
    <2>4. 0 < Parts[generation][writing]
      BY <2>2, <1>0, ReloadAssumption
    <2>5. content' \in [Files -> Seq(Part) \cup {Missing}] /\ content'[writing] = <<>>
      BY <1>0, <1>2, <2>1 DEF Create, Put
    <2>6. \A f \in Files : f # writing => content'[f] = content[f]
      BY <1>0, <1>2 DEF Create, Put
    <2>7. TypeOK'
      BY <1>0, <1>2, <2>5 DEF Create, Put, TypeOK, Part
    <2>8. FilesInv'
      BY <1>0, <1>2, <2>2, <2>3, <2>4, <2>5, <2>6, 0 \in Nat DEF Create, FilesInv
    <2>9. ReadInv'
      BY <1>2, <2>1, PutKeepsReads DEF Create
    <2> QED
      BY <2>7, <2>8, <2>9
  <1>3. ASSUME writer = "write", Put(NextPart), UNCHANGED <<generation, runs, stage, load, got, published>>
        PROVE  /\ content' \in [Files -> Seq(Part) \cup {Missing}]
               /\ content'[writing] = Prefix(generation, Written + 1)
               /\ \A f \in Files : f # writing => content'[f] = content[f]
               /\ \A f \in Files :
                    content'[f] = Missing \/ \E g \in Generations, n \in Nat : content'[f] = Prefix(g, n)
               /\ touched' \in BOOLEAN
               /\ ReadInv'
    <2>1. NextPart # Missing
      <3>1. NextPart \in Seq(Generations \X (Nat \ {0}))
        BY <1>3, WritingFacts DEF Part, PartsOf
      <3> QED
        BY <3>1, ReloadAssumption
    <2>2. /\ content' \in [Files -> Seq(Part) \cup {Missing}]
          /\ content'[writing] = Prefix(generation, Written + 1)
          /\ \A f \in Files : f # writing => content'[f] = content[f]
      BY <1>0, <1>3, WritingFacts DEF Put
    <2>3. ReadInv'
      BY <1>3, <2>1, PutKeepsReads
    <2>4. Written + 1 \in Nat /\ generation \in Generations
      BY <1>3, WritingFacts
    <2>5. \A f \in Files :
            content'[f] = Missing \/ \E g \in Generations, n \in Nat : content'[f] = Prefix(g, n)
      BY <2>2, <2>4 DEF FilesInv
    <2> QED
      BY <1>0, <1>3, <2>2, <2>3, <2>5 DEF Put
  <1>4. CASE WritePart
    <2>1. Written + 1 \in Nat /\ Written + 1 < Last
      BY <1>4, WritingFacts DEF WritePart
    <2>2. TypeOK'
      BY <1>3, <1>4 DEF WritePart, TypeOK, Part
    <2>3. FilesInv'
      BY <1>0, <1>3, <1>4, <2>1 DEF WritePart, FilesInv, Last
    <2> QED
      BY <1>3, <1>4, <2>2, <2>3 DEF WritePart
  <1>5. CASE Flush
    <2>1. Written + 1 = Last
      BY <1>5, WritingFacts DEF Flush
    <2>2. content'[writing] = Whole(generation, writing)
      BY <1>3, <1>5, <2>1 DEF Flush, Whole, Last
    <2>3. generation' = generation /\ generation \in Generations
      BY <1>5, WritingFacts DEF Flush
    <2>4. TypeOK'
      BY <1>0, <1>3, <1>5 DEF Flush, NextFile, TypeOK, Part
    <2>5. FilesInv'
      <3>1. CASE writing = "seed"
        BY <1>0, <1>3, <1>5, <2>2, <2>3, <3>1 DEF Flush, NextFile, FilesInv
      <3>2. CASE writing = "requests"
        BY <1>0, <1>3, <1>5, <2>2, <2>3, <3>2 DEF Flush, NextFile, FilesInv
      <3> QED
        BY <1>0, <3>1, <3>2
    <2> QED
      BY <1>3, <1>5, <2>4, <2>5 DEF Flush
  <1>6. CASE Stop
    <2>1. CASE UNCHANGED <<content, touched>>
      <3>1. TypeOK'
        BY <1>6, <2>1 DEF Stop, TypeOK
      <3>2. FilesInv'
        BY <1>6, <2>1 DEF Stop, FilesInv
      <3>3. ReadInv'
        BY <1>6, <2>1 DEF Stop, ReadInv
      <3> QED
        BY <3>1, <3>2, <3>3
    <2>2. CASE writer = "write" /\ Put(NextPart)
      <3>1. TypeOK'
        BY <1>3, <1>6, <2>2 DEF Stop, TypeOK, Part
      <3>2. FilesInv'
        BY <1>0, <1>3, <1>6, <2>2 DEF Stop, FilesInv
      <3> QED
        BY <1>3, <1>6, <2>2, <3>1, <3>2 DEF Stop
    <2> QED
      BY <1>6, <2>1, <2>2 DEF Stop
  <1> QED
    BY <1>1, <1>2, <1>4, <1>5, <1>6 DEF Seeding

LEMMA LoaderSteps ==
  ASSUME ReloadInv, ReadConfig \/ Bind \/ Loading
  PROVE  ReloadInv'
  <1> USE DEF ReloadInv
  <1>0. UNCHANGED files
    BY DEF ReadConfig, Bind, Loading, Tick, Open, ReadPart, ReadEnd
  <1>1. FilesInv'
    BY <1>0 DEF files, FilesInv
  <1>2. CASE ReadConfig \/ Bind
    <2>1. stage' \in {"config", "listen", "serving", "exited"} /\ UNCHANGED loader
      BY <1>2 DEF ReadConfig, Bind
    <2>2. TypeOK'
      BY <1>0, <2>1 DEF files, loader, TypeOK
    <2>3. ReadInv'
      BY <1>0, <2>1 DEF files, loader, ReadInv
    <2> QED
      BY <1>1, <2>2, <2>3
  <1>3. CASE Tick
    BY <1>0, <1>1, <1>3 DEF Tick, files, TypeOK, ReadInv
  <1>4. CASE Open
    <2>1. got' = <<>> /\ got' \in Seq(PartsOf(Generations)) /\ Len(got') = 0
      BY <1>4 DEF Open
    <2>2. TypeOK'
      BY <1>0, <1>4, <2>1 DEF Open, files, TypeOK
    <2>3. ASSUME content["seed"] # Missing
          PROVE  Len(content["seed"]) \in Nat
      BY <2>3, LenProperties DEF TypeOK, Files
    <2>4. ReadInv'
      BY <1>0, <1>4, <2>1, <2>3 DEF Open, files, ReadInv
    <2> QED
      BY <1>1, <2>2, <2>4
  <1>5. CASE ReadPart
    <2>1. content["seed"] # Missing /\ content["seed"] \in Seq(Part)
      BY <1>5 DEF ReadPart, ReadInv, TypeOK, Part, Files
    <2>2. got \in Seq(Part) /\ Len(got) \in Nat /\ Len(content["seed"]) \in Nat
      BY <2>1, LenProperties DEF TypeOK, Part
    <2>3. Len(got) + 1 \in 1..Len(content["seed"])
      BY <1>5, <2>2 DEF ReadPart
    <2>4. content["seed"][Len(got) + 1] \in Part
      BY <2>1, <2>3, ElementOfSeq
    <2>5. /\ got' \in Seq(Part)
          /\ Len(got') = Len(got) + 1
          /\ \A i \in 1..Len(got) : got'[i] = got[i]
          /\ got'[Len(got) + 1] = content["seed"][Len(got) + 1]
      BY <1>5, <2>2, <2>4, AppendProperties DEF ReadPart
    <2>6. TypeOK'
      BY <1>0, <1>5, <2>5 DEF ReadPart, files, TypeOK, Part
    <2>7. ASSUME ~ touched
          PROVE  got' = [i \in 1..Len(got') |-> content["seed"][i]]
      <3>1. got = [i \in 1..Len(got) |-> content["seed"][i]]
        BY <1>5, <2>7 DEF ReadPart, ReadInv
      <3>2. \A i \in 1..Len(got) : got[i] = content["seed"][i]
        BY <3>1
      <3>3. \A i \in 1..Len(got') : got'[i] = content["seed"][i]
        BY <2>2, <2>5, <3>2
      <3>4. got' = [i \in 1..Len(got') |-> got'[i]]
        BY <2>5, LenProperties
      <3> QED
        BY <3>3, <3>4
    <2>8. ReadInv'
      BY <1>0, <1>5, <2>1, <2>2, <2>3, <2>5, <2>7 DEF ReadPart, files, ReadInv
    <2> QED
      BY <1>1, <2>6, <2>8
  <1>6. CASE ReadEnd
    <2>1. \A result \in Results(got) : result \in Generations \cup {Hybrid, Unreadable}
      BY DEF Results
    <2>2. published' \in Generations \cup {None, Hybrid}
      BY <1>6, <2>1 DEF ReadEnd, TypeOK
    <2>3. <<>> \in Seq(PartsOf(Generations))
      OBVIOUS
    <2>4. TypeOK'
      BY <1>0, <1>6, <2>2, <2>3 DEF ReadEnd, files, TypeOK
    <2>5. ReadInv'
      BY <1>6 DEF ReadEnd, ReadInv
    <2> QED
      BY <1>1, <2>4, <2>5
  <1> QED
    BY <1>2, <1>3, <1>4, <1>5, <1>6 DEF Loading

(* The invariant of the seed file and of the load in progress.             *)
THEOREM ReloadInvariance == Spec => []ReloadInv
  <1>1. ASSUME ReloadInv, [Next]_vars
        PROVE  ReloadInv'
    <2>1. CASE Seeding
      BY <1>1, <2>1, FileSteps
    <2>2. CASE ReadConfig \/ Bind \/ Loading
      BY <1>1, <2>2, LoaderSteps
    <2>3. CASE UNCHANGED vars
      BY <1>1, <2>3 DEF vars, files, loader, ReloadInv, TypeOK, FilesInv, ReadInv
    <2> QED
      BY <1>1, <2>1, <2>2, <2>3 DEF Next
  <1> QED
    BY <1>1, ReloadStarts, PTL DEF Spec

(* Type correctness of the seed binary, the files, the start and the       *)
(* loader.                                                                 *)
THEOREM ReloadTypes == Spec => []TypeOK
  <1>1. ReloadInv => TypeOK
    BY DEF ReloadInv
  <1> QED
    BY <1>1, ReloadInvariance, PTL

(* A seed binary that reports success has written both files in full,      *)
(* whatever was there before.                                              *)
THEOREM SuccessMeansComplete == Spec => []SuccessIsWhole
  <1>1. ReloadInv => SuccessIsWhole
    BY DEF ReloadInv, FilesInv, SuccessIsWhole, Files
  <1> QED
    BY <1>1, ReloadInvariance, PTL

(* A load during which nobody wrote to the file publishes the generation   *)
(* it holds, complete, or nothing.                                         *)
THEOREM QuietLoadsAreFaithful == Spec => UntouchedLoadsAreFaithful
  <1>1. ASSUME ReloadInv, [Next]_vars, published' # published, ~ touched
        PROVE  published' \in Generations /\ content["seed"] = Whole(published', "seed")
    <2>1. ReadEnd
      BY <1>1 DEF Next, vars, files, loader, Seeding, Run, Create, WritePart, Flush, Stop,
                  ReadConfig, Bind, Loading, Tick, Open, ReadPart
    <2>2. /\ got \in Seq(Part) /\ content["seed"] \in Seq(Part)
          /\ content["seed"] # Missing
          /\ Len(got) <= Len(content["seed"])
          /\ got = [i \in 1..Len(got) |-> content["seed"][i]]
      BY <1>1, <2>1 DEF ReloadInv, TypeOK, ReadInv, ReadEnd, Part, Files
    <2>3. Len(got) = Len(content["seed"])
      BY <2>1, <2>2, LenProperties DEF ReadEnd
    <2>4. content["seed"] = [i \in 1..Len(content["seed"]) |-> content["seed"][i]]
      BY <2>2, LenProperties
    <2>5. got = content["seed"]
      BY <2>2, <2>3, <2>4
    <2>6. PICK g \in Generations, n \in Nat : content["seed"] = Prefix(g, n)
      BY <1>1, <2>2 DEF ReloadInv, FilesInv, Files
    <2>7. n = Len(got)
      BY <2>5, <2>6, PrefixFacts
    <2>8. got = Prefix(g, Len(got))
      BY <2>5, <2>6, <2>7
    <2>9. PICK result \in Results(got) : published' = result /\ result # Unreadable
      BY <1>1, <2>1 DEF ReadEnd
    <2>10. result \in Generations /\ got = Whole(result, "seed")
      BY <2>8, <2>9 DEF Results
    <2> QED
      BY <2>5, <2>9, <2>10
  <1> QED
    BY <1>1, ReloadInvariance, PTL DEF Spec, UntouchedLoadsAreFaithful
=============================================================================
