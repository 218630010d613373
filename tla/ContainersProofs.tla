-------------------------- MODULE ContainersProofs --------------------------
(***************************************************************************)
(* Proofs about Containers, for any executors, submission ids, tests,      *)
(* programs and number of faults.                                          *)
(***************************************************************************)
EXTENDS Containers, TLAPS

USE TimeLimitAssumption, ExitCodesAssumption, ContainersAssumption

-----------------------------------------------------------------------------
(* The inductive invariant, in parts.                                      *)

\* Only executors without a job have no id.
HasId == \A e \in Executors : id[e] = None => pc[e] = "done"

\* A container carries its maker's name, and one made for the current test is
\* there only after docker run was called for it.
Before == {"compile", "compiling", "run", "requested"}
Made ==
    \A n \in Ids :
        container[n] # None =>
            LET e == container[n].of
            IN /\ id[e] = n
               /\ container[n].test <= test[e]
               /\ pc[e] \in Before => container[n].test < test[e]
               /\ pc[e] = "created" /\ Owns(e) => container[n].state = "created"

\* A verdict belongs to a test that was judged, an end to one that was run, and
\* the daemon keeps what it saw of that end.
Ends ==
    \A e \in Executors :
        /\ verdict[e] # None => pc[e] = "judged"
        /\ ended[e] # None =>
              /\ pc[e] \notin Before \cup {"created"}
              /\ Owns(e) => /\ container[id[e]].state = "exited"
                            /\ container[id[e]].exit = ended[e].exit
                            /\ container[id[e]].oom = ended[e].oom

\* A request that outlived its client is one of an earlier docker run, for a name
\* that is spoiled since then.
Pending ==
    \A e \in Executors, t \in 1 .. Tests :
        <<e, t>> \in late =>
            /\ id[e] \in Ids /\ id[e] \in spoiled
            /\ t <= test[e]
            /\ pc[e] \in Before => t < test[e]

DockerInv == TypeOK /\ HasId /\ Made /\ Ends /\ Pending

\* What the client reports when the program ended.
Report(o) ==
    [exit |-> o.exit, wall |-> o.wall, exceeded |-> o.exceeded, output |-> o.output]
Reported(e) == ended[e] # None /\ client[e] = Report(ended[e])
After == {"back", "inspected", "judged"}

\* Exit code 0 always comes from the program of the current test.
ZeroIsReal ==
    \A e \in Executors : pc[e] \in After /\ client[e].exit = 0 => Reported(e)

\* While nobody else uses the name and no docker command failed for it, the
\* container is there exactly while it should be.
Sole(e) == Alone(e) /\ id[e] \notin spoiled
SoleOwner ==
    \A e \in Executors :
        Sole(e) /\ id[e] # None =>
            /\ pc[e] \in Before \cup {"judged"} => container[id[e]] = None
            /\ pc[e] \in {"created", "attached"} => Owns(e)
            /\ pc[e] \in {"back", "inspected"} /\ e \notin cancelled => Owns(e)

\* Then the client was killed at the deadline or reports the program's end, and
\* inspect saw that end.
SoleReport ==
    \A e \in Executors :
        Untouched(e) /\ id[e] # None =>
            /\ pc[e] \in After => client[e].wall > TimeLimit \/ Reported(e)
            /\ pc[e] = "inspected" /\ client[e].wall <= TimeLimit =>
                  seen[e] = [exit |-> ended[e].exit, oom |-> ended[e].oom]

-----------------------------------------------------------------------------
(* Type correctness.                                                       *)

StepOf(e) == ExecutorStep(e) \/ CompilerEnds(e) \/ Cancel(e) \/ Crash(e)

\* The docker cascade gives a verdict whatever it is asked about.
LEMMA JudgeType == ASSUME NEW o PROVE DockerVerdict(o) \in Verdict
BY DEF DockerVerdict, Verdict

\* The programs of the instance are observations that end before the kill.
LEMMA ProgramFacts ==
    ASSUME NEW o \in Programs
    PROVE  /\ o # None /\ o \in Observation /\ o.stop = "none" /\ o.wall <= TimeLimit + 1
           /\ o.exit \in Exits /\ o.oom \in BOOLEAN
           /\ Report(o) \in [exit : Exits, wall : 0 .. TimeLimit + 1,
                             exceeded : BOOLEAN,
                             output : {"right", "wrong", "unjudged"}]
<1>1. /\ o # None /\ o \in Observation /\ o.stop = "none" /\ o.wall <= TimeLimit + 1
  OBVIOUS
<1> QED BY <1>1 DEF Observation, Report, Exits

\* What an executor reports of itself has its type.
LEMMA BackType ==
    ASSUME TypeOK, NEW e \in Executors, NEW exit \in Exits,
           NEW wall \in 0 .. TimeLimit + 1, NEW exceeded \in BOOLEAN,
           NEW output \in {"right", "wrong", "unjudged"},
           Back(e, exit, wall, exceeded, output)
    PROVE  /\ client' \in [Executors -> [exit : Exits, wall : 0 .. TimeLimit + 1,
                               exceeded : BOOLEAN,
                               output : {"right", "wrong", "unjudged"}]]
           /\ pc' \in [Executors -> States]
           /\ pc' = [pc EXCEPT ![e] = "back"]
BY DEF TypeOK, Back, Goes, States

\* The literals that Back is called with.
LEMMA Literals ==
    /\ {-1, 125, 137} \subseteq Exits /\ 0 \in 0 .. TimeLimit + 1
    /\ FALSE \in BOOLEAN /\ "unjudged" \in {"right", "wrong", "unjudged"}
<1>1. {-1, 125, 137} \subseteq Exits
  BY DEF Exits
<1>2. 0 \in 0 .. TimeLimit + 1
  OBVIOUS
<1> QED BY <1>1, <1>2

\* TypeOK and HasId are preserved by the steps of an executor.
LEMMA StepType ==
    ASSUME TypeOK, HasId, NEW e \in Executors, StepOf(e)
    PROVE  TypeOK' /\ HasId'
<1>1. UNCHANGED id
  BY DEF StepOf, ExecutorStep, SkipCompile, Compile, Compiled, CompileKilled, Create,
         Request, NotStarted, RunRefused, Start, ClientReturns, ClientKilled,
         RequestKilled, Inspect, Remove, NextTest, CompilerEnds, Cancel, Crash, others
<1>2. pc[e] # "done" => id[e] \in Ids
  BY DEF TypeOK, HasId
<1> USE DEF local, history, others, States
<1>3. ASSUME pc' \in [Executors -> States], pc[e] # "done" \/ UNCHANGED pc,
             \A f \in Executors : f # e => pc'[f] = pc[f]
      PROVE  HasId'
  BY <1>1, <1>2, <1>3 DEF HasId, TypeOK
<1>4. CASE SkipCompile(e) \/ Compile(e) \/ Compiled(e) \/ CompileKilled(e)
           \/ CompilerEnds(e) \/ Cancel(e) \/ Request(e)
  BY <1>3, <1>4 DEF SkipCompile, Compile, Compiled, CompileKilled, CompilerEnds,
                    Cancel, Request, Goes, AfterKill, TypeOK, HasId
<1>5. CASE Create(e)
  <2>1. pc' = [pc EXCEPT ![e] = "created"] /\ pc[e] = "requested" /\ id[e] \in Ids
    BY <1>2, <1>5 DEF Create, Goes
  <2>2. [of |-> e, test |-> test[e], state |-> "created", exit |-> 0,
         oom |-> FALSE] \in Container
    BY DEF TypeOK, Container, Exits
  <2>3. container' \in [Ids -> {None} \cup Container]
    BY <1>5, <2>1, <2>2 DEF Create, TypeOK
  <2> QED BY <1>3, <1>5, <2>1, <2>3 DEF Create, TypeOK
<1>6. ASSUME Faulty(e), pc[e] # "done"
      PROVE  faults' \in 0 .. MaxFaults /\ spoiled' \in SUBSET Ids
  BY <1>2, <1>6 DEF Faulty, TypeOK
<1>7. CASE RunRefused(e) \/ NotStarted(e) \/ RequestKilled(e)
  <2>1. PICK exit \in Exits, wall \in 0 .. TimeLimit + 1 :
           Back(e, exit, wall, FALSE, "unjudged")
    BY <1>7, Literals DEF RunRefused, NotStarted, RequestKilled, KillTimes
  <2>2. /\ client' \in [Executors -> [exit : Exits, wall : 0 .. TimeLimit + 1,
                             exceeded : BOOLEAN,
                             output : {"right", "wrong", "unjudged"}]]
        /\ pc' \in [Executors -> States] /\ pc' = [pc EXCEPT ![e] = "back"]
    BY <2>1, BackType, Literals
  <2>3. UNCHANGED <<others, container, leftover>> /\ pc[e] # "done"
    BY <1>7 DEF RunRefused, NotStarted, RequestKilled
  <2>4. faults' \in 0 .. MaxFaults /\ spoiled' \in SUBSET Ids
    BY <1>6, <1>7, <2>3 DEF RunRefused, NotStarted, RequestKilled, TypeOK
  <2>5. late' \in SUBSET (Executors \X (1 .. Tests))
    <3>1. late' = late \/ late' = late \cup {<<e, test[e]>>}
      BY <1>7 DEF RunRefused, NotStarted, RequestKilled
    <3>2. <<e, test[e]>> \in Executors \X (1 .. Tests)
      BY DEF TypeOK
    <3>3. late \in SUBSET (Executors \X (1 .. Tests))
      BY DEF TypeOK
    <3>4. late \cup {<<e, test[e]>>} \in SUBSET (Executors \X (1 .. Tests))
      BY <3>2, <3>3, Zenon
    <3> QED BY <3>1, <3>3, <3>4
  <2> QED BY <1>3, <2>2, <2>3, <2>4, <2>5 DEF TypeOK
<1>8. CASE Start(e)
  <2>1. CASE Owns(e)
    <3>1. /\ container' = [container EXCEPT ![id[e]].state = "running"]
          /\ pc' = [pc EXCEPT ![e] = "attached"] /\ pc[e] = "created"
          /\ UNCHANGED <<client, others, history>>
      BY <1>8, <2>1 DEF Start, Goes
    <3>2. container' \in [Ids -> {None} \cup Container]
      <4>1. id[e] \in Ids /\ container[id[e]] \in Container
        BY <1>2, <2>1, <3>1 DEF TypeOK, Owns
      <4>2. [container[id[e]] EXCEPT !.state = "running"] \in Container
        BY <4>1 DEF Container
      <4>3. container' =
               [container EXCEPT ![id[e]] = [container[id[e]] EXCEPT !.state = "running"]]
        BY <3>1, <4>1
      <4> QED BY <4>1, <4>2, <4>3 DEF TypeOK
    <3> QED BY <1>3, <3>1, <3>2 DEF TypeOK
  <2>2. CASE ~Owns(e)
    <3>1. Back(e, 125, 0, FALSE, "unjudged") /\ pc[e] = "created"
          /\ UNCHANGED <<container, others, history>>
      BY <1>8, <2>2 DEF Start
    <3>2. /\ client' \in [Executors -> [exit : Exits, wall : 0 .. TimeLimit + 1,
                               exceeded : BOOLEAN,
                               output : {"right", "wrong", "unjudged"}]]
          /\ pc' \in [Executors -> States] /\ pc' = [pc EXCEPT ![e] = "back"]
      BY <3>1, BackType, Literals
    <3> QED BY <1>3, <3>1, <3>2 DEF TypeOK
  <2> QED BY <2>1, <2>2
<1>9. CASE ClientReturns(e) \/ ClientKilled(e)
  <2>1. /\ client' \in [Executors -> [exit : Exits, wall : 0 .. TimeLimit + 1,
                             exceeded : BOOLEAN,
                             output : {"right", "wrong", "unjudged"}]]
        /\ pc' \in [Executors -> States] /\ pc' = [pc EXCEPT ![e] = "back"]
    <3>1. CASE ended[e] # None /\ ReturnsWith(e, ended[e])
      <4>1. ended[e] \in Programs
        BY <3>1 DEF TypeOK
      <4>2. /\ ended[e].exit \in Exits /\ ended[e].wall \in 0 .. TimeLimit + 1
            /\ ended[e].exceeded \in BOOLEAN
            /\ ended[e].output \in {"right", "wrong", "unjudged"}
        BY <4>1, ProgramFacts DEF Report
      <4> QED BY <3>1, <4>2, BackType DEF ReturnsWith
    <3>2. CASE Back(e, 137, 0, FALSE, "unjudged")
      BY <3>2, BackType, Literals
    <3>3. ASSUME NEW wall \in KillTimes(e), NEW exceeded \in BOOLEAN,
                 Back(e, -1, wall, exceeded, "unjudged")
          PROVE  /\ client' \in [Executors -> [exit : Exits, wall : 0 .. TimeLimit + 1,
                             exceeded : BOOLEAN,
                             output : {"right", "wrong", "unjudged"}]]
                 /\ pc' \in [Executors -> States] /\ pc' = [pc EXCEPT ![e] = "back"]
      <4>1. wall \in 0 .. TimeLimit + 1
        BY DEF KillTimes
      <4> QED BY <3>3, <4>1, BackType, Literals
    <3> QED BY <1>9, <3>1, <3>2, <3>3 DEF ClientReturns, ClientKilled
  <2>2. UNCHANGED <<others, container, history>> /\ pc[e] # "done"
    BY <1>9 DEF ClientReturns, ClientKilled
  <2> QED BY <1>3, <2>1, <2>2 DEF TypeOK
<1>10. CASE Inspect(e)
  <2>1. pc[e] = "back" /\ pc' = [pc EXCEPT ![e] = "inspected"]
        /\ UNCHANGED <<id, test, compilers, container, client, ended, verdict,
                       cancelled, late, leftover>>
    BY <1>10 DEF Inspect, Goes
  <2>2. seen' \in [Executors -> [exit : Exits, oom : BOOLEAN]]
    <3>1. NotSeen \in [exit : Exits, oom : BOOLEAN]
      BY DEF NotSeen, Exits
    <3>2. ASSUME container[id[e]] # None
          PROVE  [exit |-> container[id[e]].exit, oom |-> container[id[e]].oom]
                     \in [exit : Exits, oom : BOOLEAN]
      BY <1>2, <2>1, <3>2 DEF TypeOK, Container
    <3> QED BY <1>10, <3>1, <3>2 DEF Inspect, TypeOK
  <2>3. faults' \in 0 .. MaxFaults /\ spoiled' \in SUBSET Ids
    BY <1>6, <1>10 DEF Inspect, TypeOK
  <2> QED BY <1>3, <2>1, <2>2, <2>3 DEF TypeOK
<1>11. CASE Remove(e)
  <2>1. /\ pc[e] = "inspected" /\ pc' = [pc EXCEPT ![e] = "judged"]
        /\ verdict' = [verdict EXCEPT ![e] = Judge(e)]
        /\ UNCHANGED <<id, test, compilers, client, seen, ended, cancelled, late>>
    BY <1>11 DEF Remove, Goes
  <2>2. verdict' \in [Executors -> Verdict \cup {None}]
    BY <2>1, JudgeType DEF TypeOK, Judge
  <2>3. container' \in [Ids -> {None} \cup Container] /\ leftover' \in SUBSET Ids
    BY <1>2, <1>11 DEF Remove, Removed, TypeOK
  <2>4. faults' \in 0 .. MaxFaults /\ spoiled' \in SUBSET Ids
    BY <1>6, <1>11 DEF Remove, TypeOK
  <2> QED BY <1>3, <2>1, <2>2, <2>3, <2>4 DEF TypeOK
<1>12. ASSUME Forget(e)
       PROVE  /\ client' \in [Executors -> [exit : Exits, wall : 0 .. TimeLimit + 1,
                             exceeded : BOOLEAN,
                             output : {"right", "wrong", "unjudged"}]]
              /\ seen' \in [Executors -> [exit : Exits, oom : BOOLEAN]]
              /\ ended' \in [Executors -> Programs \cup {None}]
              /\ verdict' \in [Executors -> Verdict \cup {None}]
  <2>1. /\ NotSeen \in [exit : Exits, oom : BOOLEAN]
        /\ NotRun \in [exit : Exits, wall : 0 .. TimeLimit + 1, exceeded : BOOLEAN,
                       output : {"right", "wrong", "unjudged"}]
    BY DEF NotSeen, NotRun, Exits
  <2> QED BY <1>12, <2>1 DEF Forget, TypeOK
<1>13. CASE NextTest(e)
  <2>1. test' \in [Executors -> 1 .. Tests]
    BY <1>13 DEF NextTest, MoreTests, TypeOK
  <2> QED BY <1>3, <1>12, <1>13, <2>1 DEF NextTest, Goes, TypeOK
<1>14. CASE Crash(e)
  <2>1. faults' \in 0 .. MaxFaults
    BY <1>14 DEF Crash, TypeOK
  <2> QED BY <1>3, <1>12, <1>14, <2>1 DEF Crash, Goes, TypeOK
<1> QED
  BY <1>4, <1>5, <1>7, <1>8, <1>9, <1>10, <1>11, <1>13, <1>14 DEF StepOf, ExecutorStep

\* What ProgramEnds does to the container and to what its maker knows.
LEMMA ProgramEndsEffect ==
    ASSUME TypeOK, NEW n \in Ids, NEW o \in Programs, ProgramEnds(n, o)
    PROVE  /\ container[n] \in Container /\ container[n].state = "running"
           /\ container' = [container EXCEPT ![n] =
                 [of |-> container[n].of, test |-> container[n].test,
                  state |-> "exited", exit |-> o.exit, oom |-> o.oom]]
           /\ ended' = IF Owns(container[n].of)
                       THEN [ended EXCEPT ![container[n].of] = o] ELSE ended
           /\ UNCHANGED <<id, pc, test, compilers, client, seen, verdict, cancelled,
                          history>>
           /\ TypeOK'
<1>1. container[n] \in Container /\ container[n].state = "running"
  BY DEF ProgramEnds, TypeOK
<1>2. container' = [container EXCEPT ![n] =
         [of |-> container[n].of, test |-> container[n].test,
          state |-> "exited", exit |-> o.exit, oom |-> o.oom]]
  <2>1. [container[n] EXCEPT !.state = "exited", !.exit = o.exit, !.oom = o.oom] =
           [of |-> container[n].of, test |-> container[n].test,
            state |-> "exited", exit |-> o.exit, oom |-> o.oom]
    <3> DEFINE c == container[n]
               d == [c EXCEPT !.state = "exited", !.exit = o.exit, !.oom = o.oom]
               r == [of |-> c.of, test |-> c.test, state |-> "exited",
                     exit |-> o.exit, oom |-> o.oom]
    <3>1. d \in Container /\ r \in Container
      BY <1>1, ProgramFacts DEF Container
    <3>2. d.of = r.of /\ d.test = r.test /\ d.state = r.state /\ d.exit = r.exit
          /\ d.oom = r.oom
      BY <1>1 DEF Container
    <3> HIDE DEF c, d, r
    <3>3. d = r
      BY <3>1, <3>2 DEF Container
    <3> QED BY <3>3 DEF c, d, r
  <2> QED BY <2>1 DEF ProgramEnds
<1>3. ended' = IF Owns(container[n].of)
               THEN [ended EXCEPT ![container[n].of] = o] ELSE ended
  BY DEF ProgramEnds
<1>4. UNCHANGED <<id, pc, test, compilers, client, seen, verdict, cancelled, history>>
  BY DEF ProgramEnds
<1>5. container' \in [Ids -> {None} \cup Container]
  BY <1>1, <1>2, ProgramFacts DEF TypeOK, Container
<1>6. ended' \in [Executors -> Programs \cup {None}]
  BY <1>1, <1>3 DEF TypeOK, Container
<1>7. TypeOK'
  BY <1>4, <1>5, <1>6 DEF TypeOK, history
<1> QED BY <1>1, <1>2, <1>3, <1>4, <1>7

-----------------------------------------------------------------------------
(* Containers and their makers.                                            *)

Same(f) ==
    /\ pc'[f] = pc[f] /\ test'[f] = test[f] /\ client'[f] = client[f]
    /\ seen'[f] = seen[f] /\ ended'[f] = ended[f] /\ verdict'[f] = verdict[f]
    /\ f \in cancelled' <=> f \in cancelled

\* An executor changes its own state and the container with its name.
LEMMA Frame ==
    ASSUME TypeOK, NEW e \in Executors, StepOf(e)
    PROVE  /\ UNCHANGED id
           /\ \A f \in Executors : f # e => Same(f)
           /\ \A n \in Ids : n # id[e] => container'[n] = container[n]
           /\ cancelled \subseteq cancelled' /\ spoiled \subseteq spoiled'
           /\ ended'[e] \in {ended[e], None}
<1> USE DEF local, history, others, Same, Goes, Back, ReturnsWith, Forget, Faulty
<1>1. CASE SkipCompile(e) \/ Compile(e) \/ Compiled(e) \/ CompileKilled(e)
           \/ CompilerEnds(e) \/ Request(e)
  BY <1>1 DEF SkipCompile, Compile, Compiled, CompileKilled, CompilerEnds, Request,
              TypeOK
<1>2. CASE Cancel(e)
  BY <1>2 DEF Cancel, TypeOK
<1>3. CASE Create(e)
  BY <1>3 DEF Create, TypeOK
<1>4. CASE RunRefused(e) \/ NotStarted(e) \/ RequestKilled(e)
  BY <1>4 DEF RunRefused, NotStarted, RequestKilled, TypeOK
<1>5. CASE Start(e)
  BY <1>5 DEF Start, TypeOK
<1>6. CASE ClientReturns(e) \/ ClientKilled(e)
  BY <1>6 DEF ClientReturns, ClientKilled, TypeOK
<1>7. CASE Inspect(e)
  BY <1>7 DEF Inspect, TypeOK
<1>8. CASE Remove(e)
  BY <1>8 DEF Remove, Removed, TypeOK
<1>9. CASE NextTest(e)
  BY <1>9 DEF NextTest, TypeOK
<1>10. CASE Crash(e)
  BY <1>10 DEF Crash, TypeOK
<1> QED
  BY <1>1, <1>2, <1>3, <1>4, <1>5, <1>6, <1>7, <1>8, <1>9, <1>10
     DEF StepOf, ExecutorStep

\* How an executor moves, and what it still knows of the end of its program.
LEMMA Moves ==
    ASSUME TypeOK, HasId, Ends, NEW e \in Executors, StepOf(e)
    PROVE  /\ test'[e] \in Nat /\ test'[e] >= test[e]
           /\ pc'[e] \in Before => pc[e] \in Before \/ test'[e] > test[e]
           /\ pc'[e] = "created" => UNCHANGED <<pc, test, container>> \/ Create(e)
           /\ ended'[e] # None => /\ ended'[e] = ended[e] /\ test'[e] = test[e]
                                  /\ pc'[e] \notin Before \cup {"created"}
           /\ verdict'[e] # None => pc'[e] = "judged"
<1> USE DEF local, history, others, Goes, Back, ReturnsWith, Forget, Before
<1>0. /\ verdict[e] # None => pc[e] = "judged"
      /\ ended[e] # None => pc[e] \notin Before \cup {"created"}
  BY DEF Ends
<1>1. CASE SkipCompile(e) \/ Compile(e) \/ Compiled(e) \/ CompileKilled(e)
           \/ CompilerEnds(e) \/ Cancel(e) \/ Request(e)
  BY <1>0, <1>1 DEF SkipCompile, Compile, Compiled, CompileKilled, CompilerEnds, Cancel,
              Request, TypeOK, AfterKill
<1>3. CASE Create(e)
  BY <1>0, <1>3 DEF Create, TypeOK
<1>4. CASE RunRefused(e) \/ NotStarted(e) \/ RequestKilled(e)
  BY <1>0, <1>4 DEF RunRefused, NotStarted, RequestKilled, TypeOK
<1>5. CASE Start(e)
  BY <1>0, <1>5 DEF Start, TypeOK
<1>6. CASE ClientReturns(e) \/ ClientKilled(e)
  BY <1>0, <1>6 DEF ClientReturns, ClientKilled, TypeOK
<1>7. CASE Inspect(e)
  BY <1>0, <1>7 DEF Inspect, TypeOK
<1>8. CASE Remove(e)
  BY <1>0, <1>8 DEF Remove, TypeOK
<1>9. CASE NextTest(e)
  BY <1>0, <1>9 DEF NextTest, MoreTests, TypeOK
<1>10. CASE Crash(e)
  BY <1>0, <1>10 DEF Crash, TypeOK
<1> QED
  BY <1>1, <1>3, <1>4, <1>5, <1>6, <1>7, <1>8, <1>9, <1>10 DEF StepOf, ExecutorStep

\* The four things a step of an executor can do to the containers.
LEMMA Touches ==
    ASSUME TypeOK, HasId, NEW e \in Executors, StepOf(e)
    PROVE  \/ UNCHANGED container
           \/ Create(e) /\ id[e] \in Ids
           \/ /\ Start(e) /\ Owns(e) /\ id[e] \in Ids
              /\ container[id[e]] \in Container
              /\ container' = [container EXCEPT ![id[e]] =
                                  [container[id[e]] EXCEPT !.state = "running"]]
           \/ Remove(e) /\ container' = Removed(e) /\ id[e] \in Ids
<1>1. pc[e] # "done" => id[e] \in Ids
  BY DEF TypeOK, HasId
<1>2. CASE Start(e)
  <2>1. CASE Owns(e)
    <3>1. id[e] \in Ids /\ container[id[e]] \in Container
      BY <1>1, <1>2, <2>1 DEF Start, Owns, TypeOK
    <3> QED BY <1>2, <2>1, <3>1 DEF Start
  <2> QED BY <1>2, <2>1 DEF Start
<1>3. CASE Create(e) \/ Remove(e)
  BY <1>1, <1>3 DEF Create, Remove
<1>4. CASE ~Start(e) /\ ~Create(e) /\ ~Remove(e)
  BY <1>4 DEF StepOf, ExecutorStep, SkipCompile, Compile, Compiled, CompileKilled,
         Request, NotStarted, RunRefused, ClientReturns, ClientKilled, RequestKilled,
         Inspect, NextTest, CompilerEnds, Cancel, Crash
<1> QED BY <1>2, <1>3, <1>4

\* Made and Ends are preserved by the steps of an executor.
LEMMA StepMade ==
    ASSUME DockerInv, TypeOK', NEW e \in Executors, StepOf(e)
    PROVE  Made' /\ Ends'
<1> USE DEF DockerInv
<1>1. /\ UNCHANGED id
      /\ \A f \in Executors : f # e => Same(f)
      /\ \A n \in Ids : n # id[e] => container'[n] = container[n]
  BY Frame
<1>2. /\ test'[e] \in Nat /\ test'[e] >= test[e]
      /\ pc'[e] \in Before => pc[e] \in Before \/ test'[e] > test[e]
      /\ pc'[e] = "created" => UNCHANGED <<pc, test, container>> \/ Create(e)
      /\ ended'[e] # None => /\ ended'[e] = ended[e] /\ test'[e] = test[e]
                             /\ pc'[e] \notin Before \cup {"created"}
      /\ verdict'[e] # None => pc'[e] = "judged"
  BY Moves
<1>3. test \in [Executors -> 1 .. Tests] /\ \A f \in Executors : test[f] \in Int
  BY DEF TypeOK
<1>4. \A n \in Ids : container[n] # None =>
         container[n] \in Container /\ container[n].of \in Executors
         /\ container[n].test \in Int
  BY DEF TypeOK, Container
<1>5. CASE UNCHANGED container
  <2>1. Made'
    <3> SUFFICES ASSUME NEW n \in Ids, container[n] # None
                 PROVE  LET f == container[n].of
                        IN /\ id[f] = n
                           /\ container[n].test <= test'[f]
                           /\ pc'[f] \in Before => container[n].test < test'[f]
                           /\ pc'[f] = "created" /\ Owns(f)' =>
                                 container[n].state = "created"
      BY <1>1, <1>5 DEF Made
    <3> DEFINE f == container[n].of
    <3>1. /\ id[f] = n /\ container[n].test <= test[f] /\ f \in Executors
          /\ pc[f] \in Before => container[n].test < test[f]
          /\ pc[f] = "created" /\ Owns(f) => container[n].state = "created"
      BY <1>4 DEF Made
    <3>2. CASE f # e
      BY <1>1, <1>5, <3>1, <3>2 DEF Same, Owns
    <3>3. CASE f = e
      <4>1. ~Create(e)
        BY <1>5, <3>1, <3>3 DEF Create
      <4>2. pc'[f] = "created" /\ Owns(f)' => container[n].state = "created"
        BY <1>1, <1>2, <1>5, <3>1, <3>3, <4>1 DEF Owns
      <4> QED BY <1>2, <1>3, <1>4, <3>1, <3>3, <4>2
    <3> QED BY <3>2, <3>3
  <2>2. Ends'
    <3> SUFFICES ASSUME NEW f \in Executors
                 PROVE  /\ verdict'[f] # None => pc'[f] = "judged"
                        /\ ended'[f] # None =>
                              /\ pc'[f] \notin Before \cup {"created"}
                              /\ Owns(f)' => /\ container'[id'[f]].state = "exited"
                                             /\ container'[id'[f]].exit = ended'[f].exit
                                             /\ container'[id'[f]].oom = ended'[f].oom
      BY DEF Ends
    <3>1. CASE f # e
      BY <1>1, <1>5, <3>1 DEF Same, Owns, Ends
    <3>2. CASE f = e
      BY <1>1, <1>2, <1>5, <3>2 DEF Owns, Ends
    <3> QED BY <3>1, <3>2
  <2> QED BY <2>1, <2>2
<1>6. ASSUME id[e] \in Ids, NEW c, container' = [container EXCEPT ![id[e]] = c],
             c # None =>
               /\ c.of = e /\ c.test = test'[e] /\ pc'[e] \notin Before
               /\ c.state = (IF pc'[e] = "created" THEN "created" ELSE "running")
               /\ ended'[e] = None
      PROVE  Made' /\ Ends'
  <2>0. container'[id[e]] = c
    BY <1>6 DEF TypeOK
  <2>1. Made'
    <3> SUFFICES ASSUME NEW n \in Ids, container'[n] # None,
                        NEW f, f = container'[n].of
                 PROVE  /\ id[f] = n
                        /\ container'[n].test <= test'[f]
                        /\ pc'[f] \in Before => container'[n].test < test'[f]
                        /\ pc'[f] = "created" /\ Owns(f)' =>
                              container'[n].state = "created"
      BY <1>1 DEF Made, Owns
    <3>1. CASE n = id[e]
      BY <1>2, <1>6, <2>0, <3>1
    <3>2. CASE n # id[e]
      <4>1. container'[n] = container[n] /\ f = container[n].of
        BY <1>1, <3>2
      <4>2. /\ id[f] = n /\ container[n].test <= test[f] /\ f \in Executors
            /\ pc[f] \in Before => container[n].test < test[f]
            /\ pc[f] = "created" /\ Owns(f) => container[n].state = "created"
        BY <1>4, <4>1 DEF Made
      <4>3. f # e /\ Same(f)
        BY <1>1, <3>2, <4>2
      <4>4. Owns(f)' => Owns(f)
        BY <1>1, <4>1, <4>2, <4>3 DEF Owns, Same
      <4> QED BY <1>1, <4>1, <4>2, <4>3, <4>4 DEF Same
    <3> QED BY <3>1, <3>2
  <2>2. Ends'
    <3> SUFFICES ASSUME NEW f \in Executors
                 PROVE  /\ verdict'[f] # None => pc'[f] = "judged"
                        /\ ended'[f] # None =>
                              /\ pc'[f] \notin Before \cup {"created"}
                              /\ Owns(f)' => /\ container'[id'[f]].state = "exited"
                                             /\ container'[id'[f]].exit = ended'[f].exit
                                             /\ container'[id'[f]].oom = ended'[f].oom
      BY DEF Ends
    <3>1. CASE f = e
      BY <1>1, <1>2, <1>6, <2>0, <3>1 DEF Owns
    <3>2. CASE f # e /\ id[f] = id[e]
      BY <1>1, <1>6, <2>0, <3>2 DEF Same, Owns, Ends
    <3>3. CASE f # e /\ id[f] # id[e]
      <4>1. Same(f) /\ id'[f] = id[f]
        BY <1>1, <3>3
      <4>2. container'[id[f]] = container[id[f]]
        BY <1>6, <3>3 DEF TypeOK
      <4> QED BY <4>1, <4>2 DEF Same, Owns, Ends
    <3> QED BY <3>1, <3>2, <3>3
  <2> QED BY <2>1, <2>2
<1>7. CASE Create(e) /\ id[e] \in Ids
  <2> DEFINE c == [of |-> e, test |-> test[e], state |-> "created", exit |-> 0,
                   oom |-> FALSE]
  <2>1. container' = [container EXCEPT ![id[e]] = c] /\ pc[e] = "requested"
        /\ pc' = [pc EXCEPT ![e] = "created"] /\ UNCHANGED <<test, ended>>
    BY <1>7 DEF Create, Goes, local
  <2>2. ended'[e] = None
    BY <2>1 DEF Ends, Before
  <2>3. /\ c.of = e /\ c.test = test'[e] /\ pc'[e] = "created"
        /\ c.state = "created" /\ "created" \notin Before
    BY <2>1 DEF TypeOK, Before
  <2> HIDE DEF c
  <2> QED BY <1>6, <1>7, <2>1, <2>2, <2>3
<1>8. CASE /\ Start(e) /\ Owns(e) /\ id[e] \in Ids
           /\ container[id[e]] \in Container
           /\ container' = [container EXCEPT ![id[e]] =
                               [container[id[e]] EXCEPT !.state = "running"]]
  <2> DEFINE c == [container[id[e]] EXCEPT !.state = "running"]
  <2>1. /\ pc[e] = "created" /\ pc' = [pc EXCEPT ![e] = "attached"]
        /\ UNCHANGED <<test, ended>>
    BY <1>8 DEF Start, Goes, others
  <2>2. ended'[e] = None
    BY <2>1 DEF Ends
  <2>3. /\ c.of = e /\ c.test = test'[e] /\ pc'[e] = "attached"
        /\ c.state = "running" /\ "attached" \notin Before
    BY <1>8, <2>1 DEF TypeOK, Before, Owns, Container
  <2>4. container' = [container EXCEPT ![id[e]] = c]
    BY <1>8
  <2> HIDE DEF c
  <2> QED BY <1>6, <1>8, <2>2, <2>3, <2>4
<1>9. CASE Remove(e) /\ container' = Removed(e) /\ id[e] \in Ids
  BY <1>6, <1>9 DEF Removed
<1> QED BY <1>5, <1>7, <1>8, <1>9, Touches

\* Made and Ends are preserved when a program ends, and an end is not replaced.
LEMMA ProgramMade ==
    ASSUME DockerInv, NEW n \in Ids, NEW o \in Programs, ProgramEnds(n, o)
    PROVE  /\ DockerInv'
           /\ \A f \in Executors : ended[f] # None => ended'[f] = ended[f]
           /\ \A f \in Executors : Owns(f)' <=> Owns(f)
           /\ \A m \in Ids : container'[m] = None <=> container[m] = None
           /\ \A m \in Ids : container[m] # None =>
                 /\ container'[m].of = container[m].of
                 /\ container[m].state = "orphan" => container'[m].state = "orphan"
<1> USE DEF DockerInv
<1> DEFINE e == container[n].of
           c == [of |-> e, test |-> container[n].test, state |-> "exited",
                 exit |-> o.exit, oom |-> o.oom]
<1>1. /\ container[n] \in Container /\ container[n].state = "running"
      /\ container' = [container EXCEPT ![n] = c]
      /\ ended' = IF Owns(e) THEN [ended EXCEPT ![e] = o] ELSE ended
      /\ UNCHANGED <<id, pc, test, verdict, late, spoiled>>
      /\ TypeOK'
  BY ProgramEndsEffect DEF history
<1>2. /\ e \in Executors /\ id[e] = n /\ container[n] # None
      /\ container[n].test <= test[e]
      /\ pc[e] \in Before => container[n].test < test[e]
      /\ ~(pc[e] = "created" /\ Owns(e))
  BY <1>1 DEF Container, Made
<1>3. /\ container'[n] = c /\ c.of = e /\ c.test = container[n].test
      /\ c.state = "exited" /\ c.exit = o.exit /\ c.oom = o.oom
      /\ \A m \in Ids : m # n => container'[m] = container[m]
  BY <1>1 DEF TypeOK
<1>4. c # None
  <2>1. c \in Container
    BY <1>1, ProgramFacts DEF Container
  <2> QED BY <2>1
<1> HIDE DEF c
<1>5. HasId'
  BY <1>1 DEF HasId
<1>6. \A f \in Executors : Owns(f)' <=> Owns(f)
  <2> SUFFICES ASSUME NEW f \in Executors PROVE Owns(f)' <=> Owns(f)
    OBVIOUS
  <2>1. CASE id[f] = n
    BY <1>1, <1>2, <1>3, <1>4, <2>1 DEF Owns
  <2>2. CASE id[f] # n
    BY <1>1, <2>2 DEF Owns, TypeOK
  <2> QED BY <2>1, <2>2
<1>7. Made'
  <2> SUFFICES ASSUME NEW m \in Ids, container'[m] # None,
                      NEW f, f = container'[m].of
               PROVE  /\ id[f] = m
                      /\ container'[m].test <= test[f]
                      /\ pc[f] \in Before => container'[m].test < test[f]
                      /\ pc[f] = "created" /\ Owns(f)' =>
                            container'[m].state = "created"
    BY <1>1 DEF Made, Owns
  <2>1. CASE m = n
    BY <1>2, <1>3, <1>6, <2>1
  <2>2. CASE m # n
    <3>1. container'[m] = container[m] /\ f \in Executors
      BY <1>3, <2>2 DEF TypeOK, Container
    <3> QED BY <1>6, <3>1 DEF Made
  <2> QED BY <2>1, <2>2
<1>8. Owns(e) => ended[e] = None
  BY <1>1, <1>2 DEF Ends
<1>9. \A f \in Executors : ended[f] # None => ended'[f] = ended[f]
  BY <1>1, <1>8 DEF TypeOK
<1>10. Ends'
  <2> SUFFICES ASSUME NEW f \in Executors
               PROVE  /\ verdict'[f] # None => pc'[f] = "judged"
                      /\ ended'[f] # None =>
                            /\ pc'[f] \notin Before \cup {"created"}
                            /\ Owns(f)' => /\ container'[id'[f]].state = "exited"
                                           /\ container'[id'[f]].exit = ended'[f].exit
                                           /\ container'[id'[f]].oom = ended'[f].oom
    BY DEF Ends
  <2>1. CASE f = e /\ Owns(e)
    <3>1. ended'[f] = o
      BY <1>1, <1>2, <2>1 DEF TypeOK
    <3>2. pc[e] \notin Before \cup {"created"}
      BY <1>2, <2>1 DEF Owns, TypeOK
    <3> QED BY <1>1, <1>2, <1>3, <2>1, <3>1, <3>2 DEF Ends
  <2>2. CASE ~(f = e /\ Owns(e))
    <3>1. ended'[f] = ended[f]
      BY <1>1, <1>2, <2>2 DEF TypeOK
    <3>2. Owns(f) => id[f] # n
      BY <1>2, <2>2 DEF Owns
    <3>3. Owns(f) => container'[id[f]] = container[id[f]]
      BY <1>1, <3>2 DEF TypeOK
    <3> QED BY <1>1, <1>6, <3>1, <3>3 DEF Ends
  <2> QED BY <2>1, <2>2
<1>11. \A m \in Ids : /\ container'[m] = None <=> container[m] = None
                      /\ container[m] # None =>
                            /\ container'[m].of = container[m].of
                            /\ container[m].state = "orphan" =>
                                  container'[m].state = "orphan"
  BY <1>1, <1>2, <1>3, <1>4
<1>12. Pending'
  BY <1>1 DEF Pending
<1> QED BY <1>1, <1>5, <1>6, <1>7, <1>9, <1>10, <1>11, <1>12

\* The step of an executor that leaves a request behind spoils its name.
LEMMA StepPending ==
    ASSUME DockerInv, NEW e \in Executors, StepOf(e)
    PROVE  Pending'
<1> USE DEF DockerInv
<1>1. /\ UNCHANGED id /\ spoiled \subseteq spoiled'
      /\ \A f \in Executors : f # e => Same(f)
  BY Frame
<1>2. /\ test'[e] \in Nat /\ test'[e] >= test[e]
      /\ pc'[e] \in Before => pc[e] \in Before \/ test'[e] > test[e]
  BY Moves
<1>3. \A f \in Executors : test[f] \in Nat
  BY DEF TypeOK
<1>4. \/ UNCHANGED late
      \/ RequestKilled(e) /\ late' = late \cup {<<e, test[e]>>}
  BY DEF StepOf, ExecutorStep, SkipCompile, Compile, Compiled, CompileKilled, Create,
         Request, NotStarted, RunRefused, Start, ClientReturns, ClientKilled,
         RequestKilled, Inspect, Remove, NextTest, CompilerEnds, Cancel, Crash, history
<1> SUFFICES ASSUME NEW f \in Executors, NEW t \in 1 .. Tests, <<f, t>> \in late'
             PROVE  /\ id'[f] \in Ids /\ id'[f] \in spoiled'
                    /\ t <= test'[f]
                    /\ pc'[f] \in Before => t < test'[f]
  BY DEF Pending
<1>5. CASE <<f, t>> \in late
  <2>1. /\ id[f] \in Ids /\ id[f] \in spoiled /\ t <= test[f]
        /\ pc[f] \in Before => t < test[f]
    BY <1>5 DEF Pending
  <2>2. CASE f = e
    BY <1>1, <1>2, <1>3, <2>1, <2>2
  <2>3. CASE f # e
    BY <1>1, <2>1, <2>3 DEF Same
  <2> QED BY <2>2, <2>3
<1>6. CASE <<f, t>> \notin late
  <2>1. RequestKilled(e) /\ f = e /\ t = test[e]
    BY <1>4, <1>6
  <2>2. /\ pc[e] = "requested" /\ pc'[e] = "back" /\ test' = test
        /\ id[e] \in spoiled'
    BY <2>1 DEF RequestKilled, Faulty, Back, Goes, others, TypeOK
  <2>3. id[e] \in Ids
    BY <2>2 DEF TypeOK, HasId
  <2> QED BY <1>1, <1>3, <2>1, <2>2, <2>3 DEF Before
<1> QED BY <1>5, <1>6

\* A late container appears under a free and spoiled name, and is nobody's.
LEMMA LateEffect ==
    ASSUME DockerInv, NEW e \in Executors, NEW t \in 1 .. Tests, LateCreate(e, t)
    PROVE  /\ DockerInv'
           /\ UNCHANGED <<id, pc, test, compilers, client, seen, ended, verdict,
                          cancelled, spoiled, leftover>>
           /\ \A f \in Executors : Owns(f)' <=> Owns(f)
           /\ \A n \in Ids : \/ container'[n] = container[n]
                             \/ /\ n \in spoiled /\ container[n] = None
                                /\ container'[n] # None
                                /\ container'[n].state = "orphan"
<1> USE DEF DockerInv
<1> DEFINE c == [of |-> e, test |-> t, state |-> "orphan", exit |-> 0, oom |-> FALSE]
<1>1. /\ UNCHANGED <<id, pc, test, compilers, client, seen, ended, verdict, cancelled,
                     faults, spoiled, leftover>>
      /\ <<e, t>> \in late /\ late' = late \ {<<e, t>>}
  BY DEF LateCreate, local
<1>2. /\ id[e] \in Ids /\ id[e] \in spoiled /\ t <= test[e]
      /\ pc[e] \in Before => t < test[e]
  BY <1>1 DEF Pending
<1>3. /\ c \in Container /\ c.of = e /\ c.test = t /\ c.state = "orphan"
  BY DEF Container, Exits
<1>4. c # None
  BY <1>3
<1>5. container' = [container EXCEPT ![id[e]] =
                       IF container[id[e]] # None THEN container[id[e]] ELSE c]
  BY DEF LateCreate
<1> HIDE DEF c
<1>6. \A n \in Ids : \/ container'[n] = container[n]
                     \/ /\ n = id[e] /\ container[n] = None /\ container'[n] = c
  BY <1>5 DEF TypeOK
<1>7. container' \in [Ids -> {None} \cup Container]
  BY <1>2, <1>3, <1>5 DEF TypeOK
<1>8. TypeOK' /\ HasId'
  BY <1>1, <1>7 DEF TypeOK, HasId
<1>9. \A f \in Executors : id[f] \in Ids => (Owns(f)' <=> Owns(f))
  BY <1>1, <1>3, <1>6 DEF Owns
<1>10. \A f \in Executors : id[f] \notin Ids => container'[id[f]] = container[id[f]]
  BY <1>2, <1>5 DEF TypeOK
<1>11. \A f \in Executors : Owns(f)' <=> Owns(f)
  BY <1>1, <1>9, <1>10 DEF Owns
<1>12. \A f \in Executors : Owns(f) => container'[id[f]] = container[id[f]]
  BY <1>5, <1>2 DEF Owns, TypeOK
<1>13. Made'
  <2> SUFFICES ASSUME NEW n \in Ids, container'[n] # None,
                      NEW f, f = container'[n].of
               PROVE  /\ id[f] = n
                      /\ container'[n].test <= test[f]
                      /\ pc[f] \in Before => container'[n].test < test[f]
                      /\ pc[f] = "created" /\ Owns(f)' =>
                            container'[n].state = "created"
    BY <1>1 DEF Made, Owns
  <2>1. CASE container'[n] = container[n]
    <3>1. f \in Executors
      BY <2>1 DEF TypeOK, Container
    <3> QED BY <1>11, <2>1, <3>1 DEF Made
  <2>2. CASE n = id[e] /\ container[n] = None /\ container'[n] = c
    <3>1. f = e /\ ~Owns(e)
      BY <1>3, <2>2 DEF Owns
    <3> QED BY <1>2, <1>3, <1>11, <2>2, <3>1
  <2> QED BY <1>6, <2>1, <2>2
<1>14. Ends'
  BY <1>1, <1>11, <1>12 DEF Ends
<1>15. Pending'
  BY <1>1 DEF Pending
<1> QED BY <1>1, <1>2, <1>3, <1>4, <1>6, <1>8, <1>11, <1>13, <1>14, <1>15

\* DockerInv holds initially: there is no container yet.
LEMMA DockerInvInit == Init => DockerInv
<1> SUFFICES ASSUME Init PROVE DockerInv
  OBVIOUS
<1>1. /\ NotSeen \in [exit : Exits, oom : BOOLEAN]
      /\ NotRun \in [exit : Exits, wall : 0 .. TimeLimit + 1, exceeded : BOOLEAN,
                     output : {"right", "wrong", "unjudged"}]
  BY DEF NotSeen, NotRun, Exits
<1>2. TypeOK
  BY <1>1 DEF Init, TypeOK, States
<1> QED BY <1>2 DEF Init, DockerInv, HasId, Made, Ends, Pending, Before

\* Every step keeps the invariant.
LEMMA DockerInvNext == DockerInv /\ [Next]_vars => DockerInv'
<1> SUFFICES ASSUME DockerInv, [Next]_vars PROVE DockerInv'
  OBVIOUS
<1>1. CASE UNCHANGED vars
  BY <1>1 DEF vars, local, history, DockerInv, TypeOK, HasId, Made, Ends, Pending, Owns
<1>2. ASSUME NEW e \in Executors, StepOf(e) PROVE DockerInv'
  BY <1>2, StepType, StepMade, StepPending DEF DockerInv
<1>3. ASSUME NEW n \in Ids, NEW o \in Programs, ProgramEnds(n, o) PROVE DockerInv'
  BY <1>3, ProgramMade
<1>4. ASSUME NEW e \in Executors, NEW t \in 1 .. Tests, LateCreate(e, t)
      PROVE  DockerInv'
  BY <1>4, LateEffect
<1> QED BY <1>1, <1>2, <1>3, <1>4 DEF Next, StepOf

\* DockerInv is an invariant.
LEMMA DockerInvHolds == Spec => []DockerInv
BY DockerInvInit, DockerInvNext, PTL DEF Spec

\* The state of the executors, of the daemon and the history keep their types.
THEOREM TypeCorrect == Spec => []TypeOK
<1>1. DockerInv => TypeOK
  BY DEF DockerInv
<1> QED BY <1>1, DockerInvHolds, PTL

-----------------------------------------------------------------------------
(* ACCEPTED.                                                               *)

\* An accepting judgement of a client that reports the end of the program.
LEMMA AcceptingJudge ==
    ASSUME TypeOK, NEW e \in Executors, Judge(e) = "ACCEPTED"
    PROVE  /\ client[e].exit = 0 /\ client[e].wall <= TimeLimit
           /\ ~client[e].exceeded /\ client[e].output # "wrong"
<1>1. /\ client[e].wall \in 0 .. TimeLimit + 1 /\ ~DockerTimedOut([wall |-> client[e].wall,
             stop |-> "none", oom |-> seen[e].oom, exit |-> ExitCode(e),
             exceeded |-> client[e].exceeded, output |-> client[e].output])
      /\ ExitCode(e) = 0 /\ ~client[e].exceeded /\ client[e].output # "wrong"
  BY DEF TypeOK, Judge, DockerVerdict, WrongOutput
<1>2. client[e].wall <= TimeLimit
  BY <1>1 DEF DockerTimedOut
<1>3. client[e].exit = 0
  BY <1>1 DEF ExitCode, TypeOK, Exits
<1> QED BY <1>1, <1>2, <1>3

\* Exit code 0 is the program's, whoever steps.
LEMMA ZeroStep ==
    ASSUME DockerInv, ZeroIsReal, NEW e \in Executors, StepOf(e)
    PROVE  ZeroIsReal'
<1> USE DEF DockerInv
<1>1. \A f \in Executors : f # e => Same(f)
  BY Frame
<1> SUFFICES ASSUME pc'[e] \in After, client'[e].exit = 0 PROVE Reported(e)'
  BY <1>1 DEF ZeroIsReal, Reported, Same
<1>2. ASSUME NEW exit, exit # 0, NEW wall, NEW exceeded, NEW output,
             Back(e, exit, wall, exceeded, output)
      PROVE  FALSE
  BY <1>2 DEF Back, TypeOK
<1>3. CASE UNCHANGED <<client, ended>> /\ pc[e] \in After
  BY <1>3 DEF ZeroIsReal, Reported
<1> USE DEF local, history, others, Goes, After
<1>4. CASE SkipCompile(e) \/ Compile(e) \/ Compiled(e) \/ CompileKilled(e)
           \/ Request(e) \/ Create(e) \/ NextTest(e) \/ Crash(e)
  BY <1>4 DEF SkipCompile, Compile, Compiled, CompileKilled, Request, Create, NextTest,
              Crash, AfterKill, TypeOK
<1>5. CASE CompilerEnds(e) \/ Cancel(e) \/ Inspect(e) \/ Remove(e)
  BY <1>3, <1>5 DEF CompilerEnds, Cancel, Inspect, Remove
<1>6. CASE RunRefused(e) \/ NotStarted(e)
  BY <1>6 DEF RunRefused, NotStarted, Back, TypeOK
<1>7. CASE Start(e)
  BY <1>7 DEF Start, Back, TypeOK
<1>8. CASE ClientKilled(e) \/ RequestKilled(e)
  <2>1. PICK wall \in KillTimes(e), exceeded \in BOOLEAN :
           Back(e, -1, wall, exceeded, "unjudged")
    BY <1>8 DEF ClientKilled, RequestKilled
  <2> QED BY <1>2, <2>1
<1>9. CASE ClientReturns(e)
  BY <1>2, <1>9 DEF ClientReturns, ReturnsWith, Back, Reported, Report, TypeOK
<1> QED
  BY <1>4, <1>5, <1>6, <1>7, <1>8, <1>9 DEF StepOf, ExecutorStep

\* The verdict of an executor changes only when its test is judged.
LEMMA VerdictStep ==
    ASSUME DockerInv, NEW e \in Executors, StepOf(e)
    PROVE  \/ verdict'[e] = None
           \/ UNCHANGED <<pc, client, seen, ended, verdict>>
           \/ /\ pc[e] = "inspected" /\ verdict'[e] = Judge(e)
              /\ UNCHANGED <<client, seen, ended, cancelled>>
<1> USE DEF DockerInv
<1>1. verdict[e] # None => pc[e] = "judged"
  BY DEF Ends
<1> USE DEF local, others
<1>2. CASE CompilerEnds(e) \/ Cancel(e)
  BY <1>2 DEF CompilerEnds, Cancel
<1>3. CASE Remove(e)
  BY <1>3 DEF Remove, TypeOK
<1>4. CASE NextTest(e) \/ Crash(e)
  BY <1>4 DEF NextTest, Crash, Forget, TypeOK
<1>5. CASE ~(CompilerEnds(e) \/ Cancel(e) \/ Remove(e) \/ NextTest(e) \/ Crash(e))
  BY <1>1, <1>5 DEF StepOf, ExecutorStep, SkipCompile, Compile, Compiled,
         CompileKilled, Request, NotStarted, Create, RunRefused, Start, ClientReturns,
         ClientKilled, RequestKilled, Inspect
<1> QED BY <1>2, <1>3, <1>4, <1>5

\* Whatever fails, whoever else uses the name and whichever container inspect
\* found, ACCEPTED is only said of a program that ran well in this very test.
THEOREM AcceptedOnlyIfRan == Spec => []AcceptedRan
<1>1. Init => ZeroIsReal /\ AcceptedRan
  <2> SUFFICES ASSUME Init, NEW e \in Executors
               PROVE  pc[e] \notin After /\ verdict[e] # "ACCEPTED"
    BY DEF ZeroIsReal, AcceptedRan
  <2>1. pc[e] \in {"done", "compile"} /\ verdict[e] = None
    BY DEF Init
  <2> QED BY <2>1 DEF After, Verdict
<1>2. DockerInv /\ ZeroIsReal /\ AcceptedRan /\ [Next]_vars => ZeroIsReal' /\ AcceptedRan'
  <2> SUFFICES ASSUME DockerInv, ZeroIsReal, AcceptedRan, [Next]_vars
               PROVE  ZeroIsReal' /\ AcceptedRan'
    OBVIOUS
  <2>1. CASE UNCHANGED vars
    BY <2>1 DEF vars, local, ZeroIsReal, AcceptedRan, Reported
  <2>2. ASSUME NEW e \in Executors, StepOf(e) PROVE ZeroIsReal' /\ AcceptedRan'
    <3>1. \A f \in Executors : f # e => Same(f)
      BY <2>2, Frame DEF DockerInv
    <3> SUFFICES ASSUME verdict'[e] = "ACCEPTED"
                 PROVE  ended'[e] # None /\ Clean(ended'[e])
      BY <2>2, <3>1, ZeroStep DEF AcceptedRan, Same
    <3>2. verdict'[e] # None
      BY DEF Verdict
    <3>3. CASE UNCHANGED <<pc, client, seen, ended, verdict>>
      BY <3>3 DEF AcceptedRan
    <3>4. CASE pc[e] = "inspected" /\ verdict'[e] = Judge(e)
               /\ UNCHANGED <<client, seen, ended, cancelled>>
      <4>1. /\ client[e].exit = 0 /\ client[e].wall <= TimeLimit
            /\ ~client[e].exceeded /\ client[e].output # "wrong"
        BY <3>4, AcceptingJudge DEF DockerInv
      <4>2. ended[e] # None /\ client[e] = Report(ended[e])
        BY <3>4, <4>1 DEF ZeroIsReal, After, Reported
      <4>3. /\ ended[e].exit = 0 /\ ended[e].wall <= TimeLimit
            /\ ~ended[e].exceeded /\ ended[e].output # "wrong"
        BY <4>1, <4>2 DEF Report
      <4> QED BY <3>4, <4>2, <4>3 DEF Clean
    <3> QED BY <2>2, <3>2, <3>3, <3>4, VerdictStep
  <2>3. ASSUME NEW n \in Ids, NEW o \in Programs, ProgramEnds(n, o)
        PROVE  ZeroIsReal' /\ AcceptedRan'
    <3>1. \A f \in Executors : ended[f] # None => ended'[f] = ended[f]
      BY <2>3, ProgramMade
    <3>2. UNCHANGED <<pc, client, verdict>>
      BY <2>3 DEF ProgramEnds
    <3> QED BY <3>1, <3>2 DEF ZeroIsReal, AcceptedRan, Reported
  <2>4. ASSUME NEW e \in Executors, NEW t \in 1 .. Tests, LateCreate(e, t)
        PROVE  ZeroIsReal' /\ AcceptedRan'
    BY <2>4, LateEffect DEF ZeroIsReal, AcceptedRan, Reported
  <2> QED BY <2>1, <2>2, <2>3, <2>4 DEF Next, StepOf
<1>3. Spec => [](ZeroIsReal /\ AcceptedRan)
  BY <1>1, <1>2, DockerInvHolds, PTL DEF Spec
<1> QED BY <1>3, PTL

-----------------------------------------------------------------------------
(* What outlives its client.                                               *)

Held == {"created", "attached", "back", "inspected"}

\* An executor gives its container up by removing it or by dying.
LEMMA Keeps ==
    ASSUME TypeOK, NEW e \in Executors, StepOf(e)
    PROVE  /\ pc[e] = "dead" => pc'[e] = "dead"
           /\ pc[e] \in Held => \/ pc'[e] = "dead"
                                \/ pc'[e] \in Held /\ test'[e] = test[e]
                                \/ Remove(e)
           /\ UNCHANGED leftover \/ Remove(e)
<1> USE DEF local, history, others, Goes, Back, ReturnsWith, Held
<1>1. CASE SkipCompile(e) \/ Compile(e) \/ Compiled(e) \/ CompileKilled(e)
           \/ CompilerEnds(e) \/ Cancel(e) \/ Request(e) \/ Create(e) \/ NextTest(e)
           \/ Crash(e)
  BY <1>1 DEF SkipCompile, Compile, Compiled, CompileKilled, CompilerEnds, Cancel,
              Request, Create, NextTest, Crash, TypeOK
<1>2. CASE RunRefused(e) \/ NotStarted(e) \/ Start(e)
  BY <1>2 DEF RunRefused, NotStarted, Start, TypeOK
<1>3. CASE ClientReturns(e) \/ ClientKilled(e) \/ RequestKilled(e) \/ Inspect(e)
  BY <1>3 DEF ClientReturns, ClientKilled, RequestKilled, Inspect, TypeOK
<1>4. CASE Remove(e)
  BY <1>4 DEF Remove, TypeOK
<1> QED BY <1>1, <1>2, <1>3, <1>4 DEF StepOf, ExecutorStep

\* A container is held, left over or orphaned after every step of an executor.
LEMMA LeftoverStep ==
    ASSUME DockerInv, TypeOK', LeftoverExplained, NEW e \in Executors, StepOf(e)
    PROVE  LeftoverExplained'
<1> USE DEF DockerInv
<1>1. /\ UNCHANGED id
      /\ \A f \in Executors : f # e => Same(f)
      /\ \A n \in Ids : n # id[e] => container'[n] = container[n]
  BY Frame
<1>2. /\ pc[e] = "dead" => pc'[e] = "dead"
      /\ pc[e] \in Held => \/ pc'[e] = "dead"
                           \/ pc'[e] \in Held /\ test'[e] = test[e]
                           \/ Remove(e)
      /\ UNCHANGED leftover \/ Remove(e)
  BY Keeps
<1> SUFFICES ASSUME NEW n \in Ids, container'[n] # None, NEW f, f = container'[n].of
             PROVE  \/ n \in leftover' \/ pc'[f] = "dead"
                    \/ container'[n].state = "orphan"
                    \/ Owns(f)' /\ pc'[f] \in Held
  BY DEF LeftoverExplained, Owns, Held
<1>3. ASSUME container[n] # None, f = container[n].of
      PROVE  /\ f \in Executors /\ id[f] = n
             /\ \/ n \in leftover \/ pc[f] = "dead" \/ container[n].state = "orphan"
                \/ Owns(f) /\ pc[f] \in Held
  BY <1>3 DEF LeftoverExplained, Made, Held, TypeOK, Container
<1>4. CASE n # id[e]
  <2>1. container'[n] = container[n] /\ container[n] # None /\ f = container[n].of
    BY <1>1, <1>4
  <2>2. f # e /\ Same(f) /\ f \in Executors /\ id'[f] = n /\ id[f] = n
    BY <1>1, <1>3, <1>4, <2>1
  <2>3. Owns(f)' <=> Owns(f)
    BY <2>1, <2>2 DEF Owns, Same
  <2>4. n \in leftover => n \in leftover'
    BY <1>2, <1>4 DEF Remove
  <2> QED BY <1>3, <2>1, <2>2, <2>3, <2>4 DEF Same
<1>5. CASE n = id[e] /\ UNCHANGED container
  <2>1. /\ f \in Executors /\ id[f] = n
        /\ \/ n \in leftover \/ pc[f] = "dead" \/ container[n].state = "orphan"
           \/ Owns(f) /\ pc[f] \in Held
    BY <1>3, <1>5
  <2>2. CASE Remove(e)
    BY <1>5, <2>2 DEF Remove, Removed, TypeOK
  <2>3. CASE ~Remove(e) /\ f = e
    BY <1>1, <1>2, <1>5, <2>1, <2>3 DEF Owns
  <2>4. CASE ~Remove(e) /\ f # e
    BY <1>1, <1>2, <1>5, <2>1, <2>4 DEF Owns, Same
  <2> QED BY <2>2, <2>3, <2>4
<1>6. CASE n = id[e] /\ Create(e)
  <2>1. container'[n] = [of |-> e, test |-> test[e], state |-> "created", exit |-> 0,
                         oom |-> FALSE]
        /\ pc'[e] = "created" /\ UNCHANGED test
    BY <1>6 DEF Create, Goes, TypeOK
  <2> QED BY <1>1, <1>6, <2>1 DEF Owns, Held
<1>7. CASE n = id[e] /\ Start(e) /\ Owns(e) /\ container[id[e]] \in Container
           /\ container' = [container EXCEPT ![id[e]] =
                               [container[id[e]] EXCEPT !.state = "running"]]
  <2>1. container'[n] = [container[n] EXCEPT !.state = "running"]
    BY <1>7 DEF TypeOK
  <2>2. container'[n].of = e /\ container'[n].test = test[e]
        /\ container'[n].state = "running"
    BY <1>7, <2>1 DEF Owns, Container
  <2>3. pc'[e] = "attached" /\ UNCHANGED test
    BY <1>7 DEF Start, Goes, others, TypeOK
  <2> QED BY <1>1, <1>7, <2>2, <2>3 DEF Owns, Held
<1>8. CASE n = id[e] /\ Remove(e) /\ container' = Removed(e)
  BY <1>8 DEF Removed, TypeOK
<1> QED BY <1>4, <1>5, <1>6, <1>7, <1>8, Touches

\* A compiler that outlives its client belongs to an executor that runs nothing.
LEMMA BinaryStep ==
    ASSUME TypeOK, BinaryStable, NEW e \in Executors, StepOf(e)
    PROVE  BinaryStable'
<1>1. \A f \in Executors : f # e => pc'[f] = pc[f]
  BY Frame DEF Same
<1>2. compilers' \subseteq compilers \cup {e}
  BY DEF StepOf, ExecutorStep, SkipCompile, Compile, Compiled, CompileKilled, Create,
         Request, NotStarted, RunRefused, Start, ClientReturns, ClientKilled,
         RequestKilled, Inspect, Remove, NextTest, CompilerEnds, Cancel, Crash, others
<1>3. e \in compilers' => pc'[e] \in {"compiling", "done", "dead"}
  <2>1. e \in compilers => pc[e] \in {"compiling", "done", "dead"}
    BY DEF BinaryStable
  <2> USE DEF others, Goes
  <2>2. CASE SkipCompile(e) \/ Compile(e) \/ Compiled(e) \/ CompileKilled(e)
             \/ CompilerEnds(e) \/ Cancel(e) \/ Crash(e)
    BY <2>1, <2>2 DEF SkipCompile, Compile, Compiled, CompileKilled, CompilerEnds,
                      Cancel, Crash, AfterKill, TypeOK
  <2>3. CASE Request(e) \/ NotStarted(e) \/ Create(e) \/ RunRefused(e) \/ Start(e)
             \/ ClientReturns(e) \/ ClientKilled(e) \/ RequestKilled(e)
             \/ Inspect(e) \/ Remove(e) \/ NextTest(e)
    BY <2>1, <2>3 DEF Request, NotStarted, Create, RunRefused, Start, ClientReturns,
                      ClientKilled, RequestKilled, Inspect, Remove, NextTest
  <2> QED BY <2>2, <2>3 DEF StepOf, ExecutorStep
<1> QED BY <1>1, <1>2, <1>3 DEF BinaryStable, TypeOK

\* A container outlives its Execute only when rm failed, its worker died, or its
\* client was killed before the daemon had made it, and then it never runs; and
\* no compiler works on a submission that is being run.
THEOREM NoStrays == Spec => []NothingStray
<1>1. Init => NothingStray
  BY DEF Init, NothingStray, LeftoverExplained, BinaryStable
<1>2. DockerInv /\ DockerInv' /\ NothingStray /\ [Next]_vars => NothingStray'
  <2> SUFFICES ASSUME DockerInv, DockerInv', NothingStray, [Next]_vars
               PROVE  NothingStray'
    OBVIOUS
  <2> USE DEF DockerInv, NothingStray
  <2>1. CASE UNCHANGED vars
    BY <2>1 DEF vars, LeftoverExplained, BinaryStable, Owns, history
  <2>2. ASSUME NEW e \in Executors, StepOf(e) PROVE NothingStray'
    BY <2>2, LeftoverStep, BinaryStep
  <2>3. ASSUME NEW n \in Ids, NEW o \in Programs, ProgramEnds(n, o)
        PROVE  NothingStray'
    <3>1. /\ \A f \in Executors : Owns(f)' <=> Owns(f)
          /\ \A m \in Ids : container'[m] = None <=> container[m] = None
          /\ \A m \in Ids : container[m] # None =>
                /\ container'[m].of = container[m].of
                /\ container[m].state = "orphan" => container'[m].state = "orphan"
      BY <2>3, ProgramMade
    <3>2. UNCHANGED <<pc, leftover, compilers>>
      BY <2>3 DEF ProgramEnds, history
    <3>3. LeftoverExplained'
      <4> SUFFICES ASSUME NEW m \in Ids, container'[m] # None,
                          NEW f, f = container'[m].of
                   PROVE  \/ m \in leftover' \/ pc'[f] = "dead"
                          \/ container'[m].state = "orphan"
                          \/ Owns(f)' /\ pc'[f] \in Held
        BY DEF LeftoverExplained, Owns, Held
      <4>1. container[m] # None /\ f = container[m].of
        BY <3>1
      <4>2. f \in Executors
        BY <4>1 DEF TypeOK, Container
      <4>3. \/ m \in leftover \/ pc[f] = "dead" \/ container[m].state = "orphan"
            \/ Owns(f) /\ pc[f] \in Held
        BY <4>1 DEF LeftoverExplained, Held
      <4> QED BY <3>1, <3>2, <4>1, <4>2, <4>3
    <3> QED BY <3>2, <3>3 DEF BinaryStable
  <2>4. ASSUME NEW e \in Executors, NEW t \in 1 .. Tests, LateCreate(e, t)
        PROVE  NothingStray'
    <3>1. /\ UNCHANGED <<pc, leftover, compilers>>
          /\ \A f \in Executors : Owns(f)' <=> Owns(f)
          /\ \A n \in Ids : container'[n] = container[n]
                             \/ container'[n].state = "orphan"
      BY <2>4, LateEffect
    <3>2. LeftoverExplained'
      <4> SUFFICES ASSUME NEW m \in Ids, container'[m] # None,
                          container'[m] = container[m], NEW f, f = container[m].of
                   PROVE  \/ m \in leftover' \/ pc'[f] = "dead"
                          \/ container'[m].state = "orphan"
                          \/ Owns(f)' /\ pc'[f] \in Held
        BY <3>1 DEF LeftoverExplained, Owns, Held
      <4>1. f \in Executors
        BY DEF TypeOK, Container
      <4>2. \/ m \in leftover \/ pc[f] = "dead" \/ container[m].state = "orphan"
            \/ Owns(f) /\ pc[f] \in Held
        BY DEF LeftoverExplained, Held
      <4> QED BY <3>1, <4>1, <4>2
    <3> QED BY <3>1, <3>2 DEF BinaryStable
  <2> QED BY <2>1, <2>2, <2>3, <2>4 DEF Next, StepOf
<1> QED BY <1>1, <1>2, DockerInvHolds, PTL DEF Spec

-----------------------------------------------------------------------------
(* The verdict of a submission nobody else works on.                       *)

\* What holds of an executor's own steps while its name is its own and no docker
\* command fails for it: refusals and lost containers do not happen.
LEMMA SoleSteps ==
    ASSUME DockerInv, SoleOwner, NEW e \in Executors, StepOf(e), Sole(e)', id[e] # None
    PROVE  /\ ~Faulty(e)
           /\ ~RunRefused(e) /\ ~RequestKilled(e)
           /\ pc[e] \in {"created", "attached"} => Owns(e)
           /\ pc[e] \in {"back", "inspected"} /\ e \notin cancelled => Owns(e)
           /\ pc[e] \in Before \cup {"judged"} => container[id[e]] = None
<1> USE DEF DockerInv
<1>1. UNCHANGED id /\ spoiled \subseteq spoiled'
  BY Frame
<1>2. Sole(e)
  BY <1>1 DEF Sole, Alone
<1>3. ~Faulty(e)
  BY <1>1 DEF Faulty, Sole
<1>4. /\ pc[e] \in {"created", "attached"} => Owns(e)
      /\ pc[e] \in {"back", "inspected"} /\ e \notin cancelled => Owns(e)
      /\ pc[e] \in Before \cup {"judged"} => container[id[e]] = None
  BY <1>2 DEF SoleOwner
<1>5. ~RunRefused(e) /\ ~RequestKilled(e)
  BY <1>3, <1>4 DEF RunRefused, RequestKilled, Before
<1> QED BY <1>3, <1>4, <1>5

\* The container of such an executor comes and goes with its own steps.
LEMMA SoleOwnerStep ==
    ASSUME DockerInv, DockerInv', SoleOwner, NEW e \in Executors, StepOf(e)
    PROVE  SoleOwner'
<1> USE DEF DockerInv
<1>1. /\ UNCHANGED id /\ cancelled \subseteq cancelled' /\ spoiled \subseteq spoiled'
      /\ \A f \in Executors : f # e => Same(f)
      /\ \A n \in Ids : n # id[e] => container'[n] = container[n]
  BY Frame
<1> DEFINE Good(f) ==
        /\ pc[f] \in Before \cup {"judged"} => container[id[f]] = None
        /\ pc[f] \in {"created", "attached"} => Owns(f)
        /\ pc[f] \in {"back", "inspected"} /\ f \notin cancelled => Owns(f)
<1>2. ASSUME NEW f \in Executors, f # e, Sole(f)', id[f] # None PROVE Good(f)'
  <2>1. id[e] # id[f] /\ id'[f] = id[f] /\ id[f] \in Ids
    BY <1>1, <1>2 DEF Sole, Alone, TypeOK
  <2>2. container'[id[f]] = container[id[f]] /\ Same(f)
    BY <1>1, <1>2, <2>1
  <2>3. Sole(f)
    BY <1>1, <1>2 DEF Sole, Alone
  <2>4. Good(f)
    BY <1>2, <2>3 DEF SoleOwner
  <2> QED BY <2>1, <2>2, <2>4 DEF Same, Owns
<1>3. ASSUME Sole(e)', id[e] # None PROVE Good(e)'
  <2>1. /\ ~Faulty(e)
        /\ ~RunRefused(e) /\ ~RequestKilled(e)
        /\ pc[e] \in {"created", "attached"} => Owns(e)
        /\ pc[e] \in {"back", "inspected"} /\ e \notin cancelled => Owns(e)
        /\ pc[e] \in Before \cup {"judged"} => container[id[e]] = None
    BY <1>3, SoleSteps
  <2>2. id'[e] = id[e] /\ id[e] \in Ids
    BY <1>1, <1>3 DEF TypeOK
  <2>3. CASE UNCHANGED <<container, test>> /\ ~Create(e)
    <3>1. Owns(e)' <=> Owns(e)
      BY <2>2, <2>3 DEF Owns
    <3>2. CASE pc'[e] = pc[e]
      BY <1>1, <2>1, <2>2, <2>3, <3>1, <3>2
    <3>3. CASE pc'[e] \in Before
      <4>1. pc[e] \in Before
        BY <2>3, <3>3, Moves DEF TypeOK
      <4> QED BY <2>1, <2>2, <2>3, <3>3, <4>1 DEF Before
    <3>4. CASE pc'[e] \in {"done", "dead"}
      BY <3>4 DEF Before
    <3>5. CASE NotStarted(e)
      <4>1. pc'[e] = "back" /\ e \in cancelled'
        BY <1>1, <3>5 DEF NotStarted, Back, Goes, TypeOK
      <4> QED BY <4>1 DEF Before
    <3>6. CASE ClientReturns(e) \/ ClientKilled(e) \/ Inspect(e)
      <4>1. pc[e] \in {"created", "attached", "back"} /\ pc'[e] \in {"back", "inspected"}
            /\ UNCHANGED cancelled
        BY <3>6 DEF ClientReturns, ClientKilled, Inspect, Back, ReturnsWith, Goes,
                    others, TypeOK
      <4> QED BY <2>1, <3>1, <4>1 DEF Before
    <3>7. CASE Start(e)
      BY <2>1, <2>3, <3>1, <3>7 DEF Start, Goes, TypeOK, Before
    <3>9. CASE Remove(e)
      <4>1. container' = Removed(e) /\ pc'[e] = "judged"
        BY <2>1, <3>9 DEF Remove, Goes, TypeOK
      <4>2. container'[id[e]] = None
        BY <2>2, <4>1 DEF Removed, TypeOK
      <4> QED BY <2>2, <4>1, <4>2
    <3>10. CASE SkipCompile(e) \/ Compile(e) \/ Compiled(e) \/ CompileKilled(e)
               \/ CompilerEnds(e) \/ Cancel(e) \/ Crash(e) \/ NextTest(e) \/ Request(e)
      <4>1. pc'[e] = pc[e] \/ pc'[e] \in Before \cup {"done", "dead"}
        BY <3>10 DEF SkipCompile, Compile, Compiled, CompileKilled, CompilerEnds, Cancel,
                     Crash, NextTest, Request, Goes, AfterKill, TypeOK, Before
      <4> QED BY <3>2, <3>3, <3>4, <4>1
    <3> QED
      BY <2>1, <2>3, <3>5, <3>6, <3>7, <3>9, <3>10 DEF StepOf, ExecutorStep
  <2>4. CASE UNCHANGED container /\ test' # test
    <3>1. NextTest(e)
      BY <2>4 DEF StepOf, ExecutorStep, SkipCompile, Compile, Compiled, CompileKilled,
             Request, NotStarted, Create, RunRefused, Start, ClientReturns,
             ClientKilled, RequestKilled, Inspect, Remove, CompilerEnds, Cancel, Crash,
             others
    <3>2. pc[e] = "judged" /\ pc'[e] = "run"
      BY <2>4, <3>1 DEF NextTest, Goes, TypeOK
    <3> QED BY <2>1, <2>2, <2>4, <3>2 DEF Before
  <2>5. CASE Create(e)
    <3>1. container'[id[e]] = [of |-> e, test |-> test[e], state |-> "created",
                               exit |-> 0, oom |-> FALSE]
          /\ pc'[e] = "created" /\ UNCHANGED test
      BY <2>2, <2>5 DEF Create, Goes, TypeOK
    <3>2. [of |-> e, test |-> test[e], state |-> "created",
           exit |-> 0, oom |-> FALSE] \in Container
      BY DEF TypeOK, Container, Exits
    <3>3. container'[id[e]] # None
      BY <3>1, <3>2
    <3>4. container'[id[e]].of = e /\ container'[id[e]].test = test'[e]
          /\ container'[id[e]].state = "created"
      BY <3>1
    <3>5. Owns(e)'
      BY <2>2, <3>3, <3>4 DEF Owns
    <3> QED BY <3>1, <3>5 DEF Before
  <2>6. CASE Start(e) /\ Owns(e) /\ container[id[e]] \in Container
             /\ container' = [container EXCEPT ![id[e]] =
                                 [container[id[e]] EXCEPT !.state = "running"]]
    <3>1. container'[id[e]] = [container[id[e]] EXCEPT !.state = "running"]
      BY <2>2, <2>6 DEF TypeOK
    <3>2. [container[id[e]] EXCEPT !.state = "running"] \in Container
      BY <2>6 DEF Container
    <3>3. container'[id[e]].of = e /\ container'[id[e]].test = test[e]
          /\ container'[id[e]].state = "running"
      BY <2>6, <3>1 DEF Owns, Container
    <3>4. pc'[e] = "attached" /\ UNCHANGED test
      BY <2>6 DEF Start, Goes, others, TypeOK
    <3>5. Owns(e)'
      BY <2>2, <3>1, <3>2, <3>3, <3>4 DEF Owns
    <3> QED BY <3>4, <3>5 DEF Before
  <2>7. CASE Remove(e) /\ container' = Removed(e)
    <3>1. container'[id[e]] = None /\ pc'[e] = "judged"
      BY <2>2, <2>7 DEF Remove, Removed, Goes, TypeOK
    <3> QED BY <2>2, <3>1
  <2> QED BY <2>3, <2>4, <2>5, <2>6, <2>7, Touches
<1> HIDE DEF Good
<1>4. \A f \in Executors : Sole(f)' /\ id'[f] # None => Good(f)'
  BY <1>1, <1>2, <1>3
<1> QED BY <1>4 DEF SoleOwner, Good

\* Its client was killed at the deadline or has the program's end, which inspect
\* sees too.
LEMMA SoleReportStep ==
    ASSUME DockerInv, SoleOwner, SoleReport, NEW e \in Executors, StepOf(e)
    PROVE  SoleReport'
<1> USE DEF DockerInv
<1>1. /\ UNCHANGED id /\ cancelled \subseteq cancelled' /\ spoiled \subseteq spoiled'
      /\ \A f \in Executors : f # e => Same(f)
  BY Frame
<1>2. \A f \in Executors : Untouched(f)' => Untouched(f) /\ Sole(f)'
  BY <1>1 DEF Untouched, Sole, Alone
<1> SUFFICES ASSUME Untouched(e)', id[e] # None
             PROVE  /\ pc'[e] \in After => client'[e].wall > TimeLimit \/ Reported(e)'
                    /\ pc'[e] = "inspected" /\ client'[e].wall <= TimeLimit =>
                          seen'[e] = [exit |-> ended'[e].exit, oom |-> ended'[e].oom]
  BY <1>1, <1>2 DEF SoleReport, Same, Reported
<1>3. /\ ~Faulty(e) /\ ~RunRefused(e) /\ ~RequestKilled(e) /\ e \notin cancelled
      /\ pc[e] \in {"created", "attached", "back", "inspected"} => Owns(e)
  BY <1>1, <1>2, SoleSteps DEF Untouched
<1>4. /\ pc[e] \in After => client[e].wall > TimeLimit \/ Reported(e)
      /\ pc[e] = "inspected" /\ client[e].wall <= TimeLimit =>
            seen[e] = [exit |-> ended[e].exit, oom |-> ended[e].oom]
  BY <1>2 DEF SoleReport
<1> USE DEF local, history, others, Goes, After
<1>5. CASE SkipCompile(e) \/ Compile(e) \/ Compiled(e) \/ CompileKilled(e)
           \/ Request(e) \/ Create(e) \/ NextTest(e) \/ Crash(e)
  BY <1>5 DEF SkipCompile, Compile, Compiled, CompileKilled, Request, Create, NextTest,
              Crash, AfterKill, TypeOK
<1>12. ~NotStarted(e)
  BY <1>3 DEF NotStarted
<1>6. CASE CompilerEnds(e) \/ Cancel(e)
  BY <1>4, <1>6 DEF CompilerEnds, Cancel, Reported
<1>7. CASE Start(e)
  BY <1>3, <1>7 DEF Start, TypeOK
<1>8. CASE ClientKilled(e)
  <2>1. PICK wall \in KillTimes(e), exceeded \in BOOLEAN :
           Back(e, -1, wall, exceeded, "unjudged")
    BY <1>8 DEF ClientKilled
  <2>2. wall > TimeLimit /\ client'[e].wall = wall /\ pc'[e] = "back"
    BY <1>3, <2>1 DEF KillTimes, Back, TypeOK
  <2> QED BY <2>2
<1>9. CASE ClientReturns(e)
  <2>1. ended[e] # None /\ ReturnsWith(e, ended[e]) /\ UNCHANGED ended
    BY <1>3, <1>9 DEF ClientReturns
  <2>2. client'[e] = Report(ended[e]) /\ pc'[e] = "back"
    BY <2>1 DEF ReturnsWith, Back, Report, TypeOK
  <2> QED BY <2>1, <2>2 DEF Reported
<1>10. CASE Inspect(e)
  <2>1. /\ pc[e] = "back" /\ pc'[e] = "inspected" /\ UNCHANGED <<client, ended>>
        /\ seen' = [seen EXCEPT ![e] =
                 IF container[id[e]] = None THEN NotSeen
                 ELSE [exit |-> container[id[e]].exit, oom |-> container[id[e]].oom]]
    BY <1>3, <1>10 DEF Inspect, TypeOK
  <2>2. seen'[e] = [exit |-> container[id[e]].exit, oom |-> container[id[e]].oom]
    BY <1>3, <2>1 DEF Owns, TypeOK
  <2>3. ended[e] # None =>
           container[id[e]].exit = ended[e].exit /\ container[id[e]].oom = ended[e].oom
    BY <1>3, <2>1 DEF Ends
  <2>4. client[e].wall > TimeLimit \/ Reported(e)
    BY <1>4, <2>1
  <2>5. client[e].wall <= TimeLimit => ~(client[e].wall > TimeLimit)
    BY DEF TypeOK
  <2> QED BY <2>1, <2>2, <2>3, <2>4, <2>5 DEF Reported
<1>11. CASE Remove(e)
  BY <1>4, <1>11 DEF Remove, Reported, TypeOK
<1> QED
  BY <1>3, <1>5, <1>6, <1>7, <1>8, <1>9, <1>10, <1>11, <1>12 DEF StepOf, ExecutorStep

\* The verdict depends on what the cascade looks at.
LEMMA SameVerdict ==
    ASSUME NEW o, NEW p, o.wall = p.wall, o.oom = p.oom, o.exit = p.exit,
           o.exceeded = p.exceeded, o.output = p.output
    PROVE  DockerVerdict(o) = DockerVerdict(p)
BY DEF DockerVerdict, DockerTimedOut, WrongOutput

\* What Remove says of an executor that was left alone.
LEMMA JudgeExact ==
    ASSUME DockerInv, SoleReport, NEW e \in Executors, Untouched(e), id[e] # None,
           pc[e] = "inspected"
    PROVE  IF client[e].wall > TimeLimit
           THEN Judge(e) \in {"TIME_LIMIT_EXCEEDED", "OUTPUT_LIMIT_EXCEEDED",
                              "MEMORY_LIMIT_EXCEEDED"}
           ELSE ended[e] # None /\ Judge(e) = DockerVerdict(ended[e])
<1> DEFINE o == [wall |-> client[e].wall, stop |-> "none",
                 oom |-> seen[e].oom, exit |-> ExitCode(e),
                 exceeded |-> client[e].exceeded, output |-> client[e].output]
<1>1. /\ o.wall = client[e].wall /\ o.oom = seen[e].oom /\ o.exit = ExitCode(e)
      /\ o.exceeded = client[e].exceeded /\ o.output = client[e].output
  OBVIOUS
<1>2. Judge(e) = DockerVerdict(o)
  BY DEF Judge
<1> HIDE DEF o
<1>3. client[e].wall \in 0 .. TimeLimit + 1
  BY DEF DockerInv, TypeOK
<1>4. CASE client[e].wall > TimeLimit
  <2>1. DockerTimedOut(o)
    BY <1>1, <1>3, <1>4 DEF DockerTimedOut
  <2> QED BY <1>2, <1>4, <2>1 DEF DockerVerdict
<1>5. CASE ~(client[e].wall > TimeLimit)
  <2>1. client[e].wall <= TimeLimit
    BY <1>3, <1>5
  <2>2. /\ ended[e] # None /\ client[e] = Report(ended[e])
        /\ seen[e] = [exit |-> ended[e].exit, oom |-> ended[e].oom]
    BY <1>5, <2>1 DEF SoleReport, After, Reported
  <2>3. /\ client[e].exit = ended[e].exit /\ client[e].wall = ended[e].wall
        /\ client[e].exceeded = ended[e].exceeded /\ client[e].output = ended[e].output
        /\ seen[e].exit = ended[e].exit /\ seen[e].oom = ended[e].oom
    BY <2>2 DEF Report
  <2>4. ExitCode(e) = ended[e].exit
    BY <2>3 DEF ExitCode
  <2>5. DockerVerdict(o) = DockerVerdict(ended[e])
    BY <1>1, <2>3, <2>4, SameVerdict
  <2> QED BY <1>2, <1>5, <2>2, <2>5
<1> QED BY <1>4, <1>5

\* While nobody else works on the submission and no docker command failed or
\* stalled for it, the verdict is the one of the program's own behaviour, over all
\* tests.
THEOREM VerdictIsExact == Spec => []VerdictExact
<1> DEFINE Inv == SoleOwner /\ SoleReport /\ VerdictExact
<1>1. Init => Inv
  <2> SUFFICES ASSUME Init, NEW e \in Executors
               PROVE  /\ pc[e] \in {"done", "compile"} /\ verdict[e] = None
                      /\ id[e] # None => container[id[e]] = None
    BY DEF SoleOwner, SoleReport, VerdictExact, After
  <2> QED BY DEF Init
<1>2. DockerInv /\ DockerInv' /\ Inv /\ [Next]_vars => Inv'
  <2> SUFFICES ASSUME DockerInv, DockerInv', Inv, [Next]_vars PROVE Inv'
    OBVIOUS
  <2>1. CASE UNCHANGED vars
    BY <2>1 DEF vars, local, history, SoleOwner, SoleReport, VerdictExact, Sole,
                Untouched, Alone, Owns, Reported
  <2>2. ASSUME NEW e \in Executors, StepOf(e) PROVE Inv'
    <3>1. /\ UNCHANGED id /\ cancelled \subseteq cancelled' /\ spoiled \subseteq spoiled'
          /\ \A f \in Executors : f # e => Same(f)
      BY <2>2, Frame DEF DockerInv
    <3>2. \A f \in Executors : Untouched(f)' => Untouched(f)
      BY <3>1 DEF Untouched, Alone
    <3>3. SoleOwner' /\ SoleReport'
      BY <2>2, SoleOwnerStep, SoleReportStep
    <3>4. VerdictExact'
      <4> SUFFICES ASSUME verdict'[e] # None, Untouched(e)'
                   PROVE  IF client'[e].wall > TimeLimit
                          THEN verdict'[e] \in {"TIME_LIMIT_EXCEEDED",
                                   "OUTPUT_LIMIT_EXCEEDED", "MEMORY_LIMIT_EXCEEDED"}
                          ELSE ended'[e] # None /\ verdict'[e] = DockerVerdict(ended'[e])
        BY <3>1, <3>2 DEF VerdictExact, Same
      <4>1. CASE UNCHANGED <<pc, client, seen, ended, verdict>>
        BY <3>2, <4>1 DEF VerdictExact
      <4>2. CASE pc[e] = "inspected" /\ verdict'[e] = Judge(e)
                 /\ UNCHANGED <<client, seen, ended, cancelled>>
        <5>1. id[e] # None
          BY <4>2 DEF DockerInv, HasId
        <5> QED BY <3>2, <4>2, <5>1, JudgeExact
      <4> QED BY <2>2, <4>1, <4>2, VerdictStep
    <3> QED BY <3>3, <3>4
  <2>3. ASSUME NEW n \in Ids, NEW o \in Programs, ProgramEnds(n, o) PROVE Inv'
    <3>1. /\ \A f \in Executors : ended[f] # None => ended'[f] = ended[f]
          /\ \A f \in Executors : Owns(f)' <=> Owns(f)
          /\ \A m \in Ids : container'[m] = None <=> container[m] = None
      BY <2>3, ProgramMade
    <3>2. UNCHANGED <<id, pc, client, seen, verdict, cancelled, spoiled>>
      BY <2>3 DEF ProgramEnds, history
    <3>3. \A f \in Executors : /\ Sole(f)' <=> Sole(f)
                               /\ Untouched(f)' <=> Untouched(f)
                               /\ id[f] # None => id[f] \in Ids
      BY <3>2 DEF Sole, Untouched, Alone, DockerInv, TypeOK
    <3>4. SoleOwner'
      BY <3>1, <3>2, <3>3 DEF SoleOwner
    <3>5. SoleReport'
      <4> SUFFICES ASSUME NEW f \in Executors, Untouched(f), id[f] # None
                   PROVE  /\ pc[f] \in After => client[f].wall > TimeLimit \/ Reported(f)'
                          /\ pc[f] = "inspected" /\ client[f].wall <= TimeLimit =>
                                seen[f] = [exit |-> ended'[f].exit, oom |-> ended'[f].oom]
        BY <3>2, <3>3 DEF SoleReport
      <4>1. /\ pc[f] \in After => client[f].wall > TimeLimit \/ Reported(f)
            /\ pc[f] = "inspected" /\ client[f].wall <= TimeLimit =>
                  seen[f] = [exit |-> ended[f].exit, oom |-> ended[f].oom]
        BY DEF SoleReport
      <4>2. Reported(f) => Reported(f)' /\ ended'[f] = ended[f]
        BY <3>1, <3>2 DEF Reported
      <4>3. client[f].wall <= TimeLimit => ~(client[f].wall > TimeLimit)
        BY DEF DockerInv, TypeOK
      <4> QED BY <4>1, <4>2, <4>3 DEF After
    <3>6. VerdictExact'
      BY <3>1, <3>2, <3>3 DEF VerdictExact
    <3> QED BY <3>4, <3>5, <3>6
  <2>4. ASSUME NEW e \in Executors, NEW t \in 1 .. Tests, LateCreate(e, t) PROVE Inv'
    <3>1. /\ UNCHANGED <<id, pc, client, seen, ended, verdict, cancelled, spoiled>>
          /\ \A f \in Executors : Owns(f)' <=> Owns(f)
          /\ \A n \in Ids : container'[n] = container[n] \/ n \in spoiled
      BY <2>4, LateEffect
    <3>2. \A f \in Executors : /\ Sole(f)' <=> Sole(f)
                               /\ Untouched(f)' <=> Untouched(f)
                               /\ id[f] # None => id[f] \in Ids
      BY <3>1 DEF Sole, Untouched, Alone, DockerInv, TypeOK
    <3>3. \A f \in Executors : Sole(f) /\ id[f] # None =>
                                 container'[id[f]] = container[id[f]]
      BY <3>1, <3>2 DEF Sole
    <3>4. SoleOwner'
      BY <3>1, <3>2, <3>3 DEF SoleOwner
    <3>5. SoleReport' /\ VerdictExact'
      BY <3>1, <3>2 DEF SoleReport, VerdictExact, Reported
    <3> QED BY <3>4, <3>5
  <2> QED BY <2>1, <2>2, <2>3, <2>4 DEF Next, StepOf
<1>3. Spec => []Inv
  BY <1>1, <1>2, DockerInvHolds, PTL DEF Spec
<1>4. Inv => VerdictExact
  OBVIOUS
<1> QED BY <1>3, <1>4, PTL
=============================================================================
