----------------------------- MODULE SeedReload ------------------------------
(***************************************************************************)
(* The two programs that meet in the seed file: the seed binary, which     *)
(* writes it and the request lines in place (bin/seed.rs), and the server, *)
(* which reads its settings, starts the loader and then its listener       *)
(* (main.rs) and rereads the file on every tick (state.rs, seed_file.rs).  *)
(*                                                                         *)
(* A file is a sequence of parts, one per flush of the writer's buffer.    *)
(* Part i of the output of a generation is <<generation, i>>.  One seed    *)
(* process runs at a time and nobody else touches the files.               *)
(***************************************************************************)
EXTENDS Settings

CONSTANTS
  Generations,   \* seeds: what the seed binary may be asked to write
  Parts,         \* Parts[g][f]: of how many parts file f then consists
  Missing,       \* no such file
  None,          \* no snapshot published
  Hybrid,        \* the snapshot of a valid mixture of two generations
  Unreadable,    \* a load that fails
  Environments,  \* the environments the server may be started in
  MaxRuns        \* bound: runs of the seed binary

Files == {"seed", "requests"}

ASSUME ReloadAssumption ==
  /\ Parts \in [Generations -> [Files -> Nat \ {0}]]
  /\ {None, Hybrid, Unreadable} \cap Generations = {}
  /\ None \notin {Hybrid, Unreadable} /\ Hybrid # Unreadable
  /\ Missing \notin Seq(Generations \X (Nat \ {0}))
  /\ Environments \subseteq [Vars -> Raw]
  /\ MaxRuns \in Nat

VARIABLES
  \* the seed binary
  writer,      \* "idle", "create", "write", "ok" or "failed"
  generation,  \* what it writes
  writing,     \* the file it is at
  runs,
  \* the file system
  content,     \* of each file
  \* the server
  stage,       \* "config", "listen", "serving" or "exited"
  load,        \* "waiting", "open" or "reading"
  got,         \* the parts read so far
  touched,     \* has the seed file changed since it was opened?
  published    \* the generation being served

files == <<writer, generation, writing, runs, content>>
loader == <<load, got, touched, published>>
vars == <<files, stage, loader>>

Prefix(g, n) == [i \in 1..n |-> <<g, i>>]
Whole(g, f) == Prefix(g, Parts[g][f])

Init ==
  /\ writer = "idle" /\ generation = None /\ writing = "seed" /\ runs = 0
  /\ content = [f \in Files |-> Missing]
  /\ stage = "config"
  /\ load = "waiting" /\ got = <<>> /\ touched = FALSE /\ published = None

(***************************************************************************)
(* The seed binary: the seed file first, then the request lines.           *)
(***************************************************************************)
Run ==
  /\ writer \in {"idle", "ok", "failed"}
  /\ runs < MaxRuns
  /\ runs' = runs + 1
  /\ generation' \in Generations
  /\ writer' = "create" /\ writing' = "seed"
  /\ UNCHANGED <<content, stage, loader>>

Put(parts) ==
  /\ content' = [content EXCEPT ![writing] = parts]
  /\ touched' = (touched \/ writing = "seed")

(* Mutant: an existing file is opened for appending.                       *)
CreateAppends ==
  /\ writer = "create"
  /\ writer' = "write"
  /\ Put(IF content[writing] = Missing THEN <<>> ELSE content[writing])
  /\ UNCHANGED <<generation, writing, runs, stage, load, got, published>>

(* File::create empties a file that exists.                                *)
Create ==
  /\ writer = "create"
  /\ writer' = "write"
  /\ Put(<<>>)
  /\ UNCHANGED <<generation, writing, runs, stage, load, got, published>>

Written == Len(content[writing])
Last == Parts[generation][writing]
NextPart == Append(content[writing], <<generation, Written + 1>>)

(* A full buffer goes to the file; the last part waits for the flush.      *)
WritePart ==
  /\ writer = "write"
  /\ Written + 1 < Last
  /\ Put(NextPart)
  /\ UNCHANGED <<writer, generation, writing, runs, stage, load, got, published>>

NextFile ==
  IF writing = "seed" THEN writer' = "create" /\ writing' = "requests"
  ELSE writer' = "ok" /\ UNCHANGED writing

(* Mutant: the last part is written when the buffer is dropped, and an     *)
(* error of that is lost.                                                  *)
FlushOnDrop ==
  /\ writer = "write"
  /\ Written + 1 >= Last
  /\ \/ Put(NextPart)
     \/ UNCHANGED <<content, touched>>
  /\ NextFile
  /\ UNCHANGED <<generation, runs, stage, load, got, published>>

Flush ==
  /\ writer = "write"
  /\ Written + 1 >= Last
  /\ Put(NextPart)
  /\ NextFile
  /\ UNCHANGED <<generation, runs, stage, load, got, published>>

(* Any step may fail, or the process be killed.  After a failed write the  *)
(* buffer, when dropped, may still get its part into the file.             *)
Stop ==
  /\ writer \in {"create", "write"}
  /\ writer' = "failed"
  /\ \/ UNCHANGED <<content, touched>>
     \/ writer = "write" /\ Put(NextPart)
  /\ UNCHANGED <<generation, writing, runs, stage, load, got, published>>

Seeding ==
  \/ Run
  \/ Create
  \/ WritePart
  \/ Flush
  \/ Stop

(***************************************************************************)
(* The start of the server: settings, then the loader, then the listener.  *)
(***************************************************************************)
ReadConfig ==
  /\ stage = "config"
  /\ \E env \in Environments : stage' = IF Accepted(env) THEN "listen" ELSE "exited"
  /\ UNCHANGED <<files, loader>>

(* The address may be taken; the process then ends, the loader with it.    *)
Bind ==
  /\ stage = "listen"
  /\ stage' \in {"serving", "exited"}
  /\ UNCHANGED <<files, loader>>

(***************************************************************************)
(* The loader                                                              *)
(***************************************************************************)
Running == stage \in {"listen", "serving"}

Tick ==
  /\ Running /\ load = "waiting"
  /\ load' = "open"
  /\ UNCHANGED <<files, stage, got, touched, published>>

(* fs::read opens the file; a missing one fails the load.                  *)
Open ==
  /\ Running /\ load = "open"
  /\ load' = IF content["seed"] = Missing THEN "waiting" ELSE "reading"
  /\ got' = <<>> /\ touched' = FALSE
  /\ UNCHANGED <<files, stage, published>>

(* It reads what is there from where it has got to.                        *)
ReadPart ==
  /\ Running /\ load = "reading"
  /\ Len(got) < Len(content["seed"])
  /\ got' = Append(got, content["seed"][Len(got) + 1])
  /\ UNCHANGED <<files, stage, load, touched, published>>

(* What parsing and Snapshot::build may make of it: all of a generation is *)
(* valid, the beginning of one is unfinished JSON, and a mixture may be    *)
(* either.                                                                 *)
Results(parts) ==
  IF \E g \in Generations : parts = Whole(g, "seed")
  THEN {g \in Generations : parts = Whole(g, "seed")}
  ELSE IF \E g \in Generations : parts = Prefix(g, Len(parts)) THEN {Unreadable}
  ELSE {Unreadable, Hybrid}

(* Mutant: a failed load ends the loop.                                    *)
ReadEndOnce ==
  /\ Running /\ load = "reading"
  /\ Len(got) >= Len(content["seed"])
  /\ \E result \in Results(got) :
       /\ published' = IF result = Unreadable THEN published ELSE result
       /\ load' = IF result = Unreadable THEN "ended" ELSE "waiting"
  /\ got' = <<>>
  /\ UNCHANGED <<files, stage, touched>>

(* At the end of the file: a failed load changes nothing, and the next     *)
(* tick tries again.                                                       *)
ReadEnd ==
  /\ Running /\ load = "reading"
  /\ Len(got) >= Len(content["seed"])
  /\ \E result \in Results(got) :
       published' = IF result = Unreadable THEN published ELSE result
  /\ load' = "waiting" /\ got' = <<>>
  /\ UNCHANGED <<files, stage, touched>>

Loading ==
  \/ Tick
  \/ Open
  \/ ReadPart
  \/ ReadEnd

Next ==
  \/ Seeding
  \/ ReadConfig
  \/ Bind
  \/ Loading

Spec == Init /\ [][Next]_vars

(* tokio runs the loader as long as the process runs; nothing is assumed   *)
(* of the seed binary.                                                     *)
FairSpec == Spec /\ WF_vars(Loading)

(***************************************************************************)
(* Properties of the files                                                 *)
(***************************************************************************)
PartsOf(G) == G \X (Nat \ {0})

TypeOK ==
  /\ writer \in {"idle", "create", "write", "ok", "failed"}
  /\ generation \in Generations \cup {None}
  /\ writing \in Files
  /\ runs \in 0..MaxRuns
  /\ content \in [Files -> Seq(PartsOf(Generations)) \cup {Missing}]
  /\ stage \in {"config", "listen", "serving", "exited"}
  /\ load \in {"waiting", "open", "reading"}
  /\ got \in Seq(PartsOf(Generations))
  /\ touched \in BOOLEAN
  /\ published \in Generations \cup {None, Hybrid}

(* When the seed binary reports success, both files are complete and of    *)
(* the same generation, whatever earlier runs left behind and wherever     *)
(* they stopped ("a BufWriter that fails while flushing on drop would lose *)
(* the error silently").                                                   *)
SuccessIsWhole ==
  writer = "ok" => \A f \in Files : content[f] = Whole(generation, f)

(* What a load publishes is what the file holds, all of it, if nobody      *)
(* wrote to the file meanwhile; the remains of a run that stopped are      *)
(* never served by such a load.                                            *)
UntouchedLoadsAreFaithful ==
  [][published' # published /\ ~ touched =>
       published' \in Generations /\ content["seed"] = Whole(published', "seed")]_vars

(* Once the file is complete and left alone, it ends up being served, and  *)
(* a torn or mixed load before that does no lasting harm ("A failed load   *)
(* is logged and retried on the next tick").                               *)
WrittenFileIsServed ==
  \A g \in Generations :
    <>[](content["seed"] = Whole(g, "seed") /\ stage = "serving") => <>[](published = g)

(***************************************************************************)
(* Properties of the settings, for every environment the server may be     *)
(* started in.  They are about nothing else in the state, so it is enough  *)
(* to state them before anything has happened.                             *)
(***************************************************************************)
Fresh == stage = "config" /\ runs = 0

(* A configuration that is accepted is the one asked for: a number that is *)
(* set is used, and one that cannot be is not replaced ("a typo ... stops  *)
(* the process with a clear message").  And it satisfies what the auction  *)
(* and the index loop assume: prices are positive, no threshold lets every *)
(* audience pass, no refresh is a busy loop, and all are i64.              *)
SetTo(env, var, n) == env[var] \notin {Unset, Blank} => n = env[var]

AsAsked(env) ==
  /\ SetTo(env, "K_TARGETING", ConfigOf(env).k_targeting)
  /\ SetTo(env, "RESERVE_CPT_MICROS", ConfigOf(env).reserve)
  /\ SetTo(env, "PRICE_INCREMENT_MICROS", ConfigOf(env).increment)
  /\ SetTo(env, "INDEX_REFRESH_SECS", ConfigOf(env).index_refresh)

Sane(config) ==
  /\ config.bind_addr \in Addresses
  /\ config.k_targeting \in 0..I64Limit
  /\ config.reserve \in 1..I64Limit
  /\ config.increment \in 0..I64Limit
  /\ config.index_refresh \in 1..MaxRefresh

AcceptedSettingsAreSane ==
  Fresh => \A env \in Environments :
    Accepted(env) => AsAsked(env) /\ Sane(ConfigOf(env))

(* The only variables that decide whether the server starts are the ones   *)
(* that are set to something, each by itself; and the one an error names   *)
(* is at fault: on its own it stops the server, and blanking it removes    *)
(* that error.                                                             *)
Only(env, var) == [v \in Vars |-> IF v = var THEN env[v] ELSE Unset]
ErrorsNameTheCulprit ==
  Fresh => \A env \in Environments :
    /\ Accepted(env) <=> \A var \in Vars : Accepted(Only(env, var))
    /\ ~ Accepted(env) =>
         LET error == ErrorOf(env)
             blanked == [env EXCEPT ![error.var] = Blank]
         IN  /\ ErrorOf(Only(env, error.var)) = error
             /\ Accepted(blanked) \/ ErrorOf(blanked) # error
=============================================================================
