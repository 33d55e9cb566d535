--------------------------- MODULE KioJobsProofs ---------------------------
(* Proofs about KioJobs, for every number of jobs, files and nested calls: a *)
(* call that nothing disturbs waits for its own job, a comparison reads      *)
(* whole files, and no job outlives the operation it was begun in.           *)
EXTENDS KioJobs, SequenceTheorems, TLAPS

USE KioAssumption

CallOps == Ops \cup {"load", "compare"}

CallFrame ==
    [kind : {"call"}, op : CallOps, file : Files \cup {"none"}, job : Nat,
     ownLoop : BOOLEAN, woken : BOOLEAN, disturbed : BOOLEAN]

Frame == [kind : {"scope"}] \cup CallFrame

Job == [op : CallOps, state : {"running", "ok", "error", "missing", "short"}, heard : BOOLEAN]

TypeInv ==
    /\ control \in Seq(Frame)
    /\ jobs \in Seq(Job)
    /\ m_pJob \in Nat
    /\ exiting \in BOOLEAN /\ cancelled \in BOOLEAN
    /\ localCopy \in [Files -> 0..Len(jobs)]
    /\ \A i \in DOMAIN control : IsCall(control[i]) =>
          control[i].job \in DOMAIN jobs /\ (control[i].file = "none" <=> control[i].op \in Ops)

\* A call that only processes events was disturbed from the start.  The loop is
\* told to exit while the job of the call that runs it goes on only by what
\* disturbs that call.
ExitDisturbs ==
    \A i \in DOMAIN control : IsCall(control[i]) =>
        \/ control[i].disturbed
        \/ control[i].ownLoop /\ (exiting => control[i].job \notin Running)

\* While every job was begun in a scope, with no call waiting and not after a
\* cancel, there is at most one that runs; it is the one the dialog knows of,
\* some scope will end it, and the call that began it waits unless the user
\* has cancelled.
OneJobRuns ==
    late = {} =>
        /\ Running \subseteq {m_pJob}
        /\ Running # {} => HasScope
        /\ Running # {} /\ (exiting \/ ~HasLoop) => cancelled

IInv == TypeInv /\ ExitDisturbs /\ OneJobRuns /\ WaitsForItsJob /\ ComparesWholeFiles

-----------------------------------------------------------------------------
(* Frames and the operators that change them. *)

\* g is the frame f after events that disturbed the calls for the jobs of d.
Kin(f, g, d) ==
    IF IsCall(f)
    THEN /\ g \in CallFrame
         /\ g.op = f.op /\ g.file = f.file /\ g.job = f.job /\ g.ownLoop = f.ownLoop
         /\ g.disturbed <=> (f.disturbed \/ f.job \in d)
    ELSE g = f

\* A frame is a scope or a call, and never both.
LEMMA FrameCases ==
    \A f \in Frame : /\ IsCall(f) => f \in CallFrame /\ f # Scope
                     /\ ~IsCall(f) => f = Scope
<1> SUFFICES ASSUME NEW f \in Frame
             PROVE  /\ IsCall(f) => f \in CallFrame /\ f # Scope
                    /\ ~IsCall(f) => f = Scope
  OBVIOUS
<1>1. CASE f \in CallFrame
  BY <1>1 DEF CallFrame, IsCall, Scope
<1>2. CASE f \in [kind : {"scope"}]
  BY <1>2 DEF IsCall, Scope
<1> QED
  BY <1>1, <1>2 DEF Frame

\* Waking the calls keeps every frame what it is.
LEMMA WokenKin ==
    ASSUME TypeInv
    PROVE  \A d : /\ Woken(d) \in Seq(Frame)
                  /\ Len(Woken(d)) = Len(control)
                  /\ \A i \in 1..Len(control) : Kin(control[i], Woken(d)[i], d)
<1> SUFFICES ASSUME NEW d
             PROVE  /\ Woken(d) \in Seq(Frame)
                    /\ Len(Woken(d)) = Len(control)
                    /\ \A i \in 1..Len(control) : Kin(control[i], Woken(d)[i], d)
  OBVIOUS
<1>1. control \in Seq(Frame) /\ Len(control) \in Nat /\ DOMAIN control = 1..Len(control)
  BY LenProperties DEF TypeInv
<1>2. \A i \in 1..Len(control) : control[i] \in Frame
  BY <1>1, ElementOfSeq
<1>3. ASSUME NEW i \in 1..Len(control)
      PROVE  Woken(d)[i] \in Frame /\ Kin(control[i], Woken(d)[i], d)
  <2> DEFINE f == control[i]
             g == [f EXCEPT !.woken = @ \/ i = Len(control), !.disturbed = @ \/ f.job \in d]
  <2>1. CASE ~IsCall(f)
    BY <1>1, <1>2, <1>3, <2>1 DEF Woken, Kin
  <2>2. CASE IsCall(f)
    <3>1. f \in CallFrame
      BY <1>2, <2>2, FrameCases
    <3>2. Woken(d)[i] = g
      BY <1>1, <2>2 DEF Woken
    <3>3. g \in CallFrame /\ g.op = f.op /\ g.file = f.file /\ g.job = f.job
          /\ g.ownLoop = f.ownLoop /\ g.disturbed = (f.disturbed \/ f.job \in d)
      BY <3>1 DEF CallFrame
    <3> QED BY <2>2, <3>2, <3>3 DEF Kin, Frame
  <2> QED BY <2>1, <2>2
<1>4. Woken(d) \in [1..Len(control) -> Frame]
  <2>1. Woken(d) = [i \in 1..Len(control) |-> Woken(d)[i]]
    BY <1>1 DEF Woken
  <2> QED BY <1>3, <2>1
<1> QED
  BY <1>1, <1>3, <1>4, SeqDef, LenProperties

\* Front() of a stack that is not empty takes the innermost frame.
LEMMA FrontFrames ==
    ASSUME NEW S, NEW s \in Seq(S), s # <<>>
    PROVE  /\ Front(s) \in Seq(S)
           /\ Len(s) \in Nat \ {0}
           /\ Len(Front(s)) = Len(s) - 1
           /\ \A i \in 1..Len(s) - 1 : Front(s)[i] = s[i]
           /\ Last(s) = s[Len(s)]
<1>1. Len(s) \in Nat \ {0}
  BY EmptySeq
<1>2. \A i \in 1..Len(s) - 1 : s[i] \in S
  BY <1>1, ElementOfSeq
<1>3. Front(s) = SubSeq(s, 1, Len(s) - 1)
  BY DEF Front
<1>4. /\ Front(s) \in Seq(S)
      /\ Len(Front(s)) = IF 1 <= Len(s) - 1 THEN Len(s) - 1 - 1 + 1 ELSE 0
      /\ \A i \in 1..(Len(s) - 1 - 1 + 1) : Front(s)[i] = s[1 + i - 1]
  BY <1>1, <1>2, <1>3, SubSeqProperties
<1>5. Len(Front(s)) = Len(s) - 1
  <2>1. PICK n \in Nat \ {0} : n = Len(s)
    BY <1>1
  <2>2. n = 1 \/ 1 <= n - 1
    OBVIOUS
  <2>3. n - 1 - 1 + 1 = n - 1
    OBVIOUS
  <2> QED BY <1>4, <2>1, <2>2, <2>3
<1>6. \A i \in 1..Len(s) - 1 : Front(s)[i] = s[i]
  BY <1>1, <1>4
<1> QED
  BY <1>1, <1>4, <1>5, <1>6 DEF Last

-----------------------------------------------------------------------------
(* Every step keeps the invariant. *)

LEMMA InitIInv == Init => IInv
<1> SUFFICES ASSUME Init PROVE IInv
  OBVIOUS
<1>1. Len(jobs) = 0 /\ DOMAIN control = {} /\ DOMAIN jobs = {} /\ control \in Seq(Frame) /\ jobs \in Seq(Job)
  BY DEF Init
<1>2. TypeInv
  <2>1. localCopy \in [Files -> 0..Len(jobs)]
    BY <1>1 DEF Init
  <2> QED BY <1>1, <2>1 DEF TypeInv, Init
<1>3. Running = {}
  BY <1>1 DEF Running
<1> QED
  BY <1>1, <1>2, <1>3 DEF IInv, ExitDisturbs, OneJobRuns, WaitsForItsJob, ComparesWholeFiles, Init

\* What the invariant says of the stack and of its frames.
LEMMA Facts ==
    ASSUME TypeInv
    PROVE  /\ control \in Seq(Frame) /\ Len(control) \in Nat /\ DOMAIN control = 1..Len(control)
           /\ jobs \in Seq(Job) /\ Len(jobs) \in Nat /\ DOMAIN jobs = 1..Len(jobs)
           /\ \A i \in 1..Len(control) : control[i] \in Frame
           /\ \A i \in 1..Len(control) : IsCall(control[i]) => control[i].job \in 1..Len(jobs)
           /\ Running \subseteq 1..Len(jobs)
  BY LenProperties, ElementOfSeq DEF TypeInv, Running

\* The frames of the stack are those it had, and perhaps new ones above; calls
\* for the jobs of d are disturbed.
Older(d) ==
    /\ control' \in Seq(Frame)
    /\ Len(control') \in Nat
    /\ \A i \in 1..Len(control) : i <= Len(control') => Kin(control[i], control'[i], d)

\* While scopes and calls only wake or end, the frames of the stack keep
\* their types, their jobs and their files.
LEMMA OlderTypes ==
    ASSUME TypeInv, NEW d, Older(d), Len(control') <= Len(control),
           jobs' \in Seq(Job), Len(jobs') = Len(jobs), m_pJob' \in Nat,
           exiting' \in BOOLEAN, cancelled' \in BOOLEAN, localCopy' = localCopy
    PROVE  TypeInv'
<1>1. DOMAIN control' = 1..Len(control') /\ DOMAIN jobs' = 1..Len(jobs)
  BY LenProperties DEF Older
<1>2. ASSUME NEW i \in 1..Len(control'), IsCall(control'[i])
      PROVE  control'[i].job \in 1..Len(jobs) /\ (control'[i].file = "none" <=> control'[i].op \in Ops)
  <2>1. i \in 1..Len(control) /\ Kin(control[i], control'[i], d)
    BY <1>2, Facts DEF Older
  <2>2. IsCall(control[i])
    BY <1>2, <2>1 DEF Kin
  <2>3. control[i].job \in 1..Len(jobs) /\ (control[i].file = "none" <=> control[i].op \in Ops)
    BY <2>1, <2>2, Facts DEF TypeInv
  <2> QED BY <2>1, <2>2, <2>3 DEF Kin
<1> QED
  BY <1>1, <1>2 DEF TypeInv, Older

\* A job that ends runs no more, and the others go on.
LEMMA EndedJob ==
    ASSUME TypeInv, NEW j \in 1..Len(jobs), NEW end \in {"ok", "error", "missing", "short"},
           jobs' = [jobs EXCEPT ![j].state = end]
    PROVE  jobs' \in Seq(Job) /\ Len(jobs') = Len(jobs) /\ Running' = Running \ {j}
<1> DEFINE e == [jobs[j] EXCEPT !.state = end]
<1>1. e \in Job /\ e.state = end
  <2>1. jobs[j] \in Job
    BY Facts, ElementOfSeq
  <2> QED BY <2>1 DEF Job
<1>2. jobs' = [jobs EXCEPT ![j] = e]
  OBVIOUS
<1>3. /\ jobs' \in Seq(Job) /\ Len(jobs') = Len(jobs)
      /\ \A i \in 1..Len(jobs) : jobs'[i] = IF i = j THEN e ELSE jobs[i]
  <2> HIDE DEF e
  <2> QED BY <1>1, <1>2, Facts, ExceptSeq, SMTT(30)
<1>4. DOMAIN jobs' = 1..Len(jobs)
  BY <1>3, LenProperties
<1> QED
  BY <1>1, <1>3, <1>4, Facts DEF Running

\* A job ends, and disturbs every call but its own.
LEMMA EndDisturbs ==
    ASSUME IInv, NEW d, Older(d), Len(control') <= Len(control),
           \A i \in 1..Len(control) : IsCall(control[i]) =>
               control[i].job \in d \/ control[i].job \notin Running' \/ (exiting' => exiting),
           Running' \subseteq Running
    PROVE  ExitDisturbs'
<1>1. DOMAIN control' = 1..Len(control')
  BY LenProperties DEF Older
<1>2. SUFFICES ASSUME NEW i \in 1..Len(control'), IsCall(control'[i]), ~control'[i].disturbed
      PROVE  control'[i].ownLoop /\ (exiting' => control'[i].job \notin Running')
  BY <1>1 DEF ExitDisturbs
<1>3. i \in 1..Len(control) /\ Kin(control[i], control'[i], d)
  BY <1>2, Facts DEF Older, IInv
<1>4. IsCall(control[i])
  BY <1>2, <1>3 DEF Kin
<1>5. ~control[i].disturbed /\ control[i].job \notin d
  BY <1>2, <1>3, <1>4 DEF Kin
<1>6. control[i].ownLoop /\ (exiting => control[i].job \notin Running)
  BY <1>3, <1>4, <1>5, Facts DEF IInv, ExitDisturbs
<1>7. control'[i].ownLoop = control[i].ownLoop /\ control'[i].job = control[i].job
  BY <1>3, <1>4 DEF Kin
<1> QED
  BY <1>3, <1>4, <1>5, <1>6, <1>7

\* Scopes and loops outlive what happens above them.
LEMMA OlderKinds ==
    ASSUME TypeInv, NEW d, Older(d), Len(control') >= Len(control)
    PROVE  (HasScope => HasScope') /\ (HasLoop => HasLoop')
<1>1. DOMAIN control' = 1..Len(control')
  BY LenProperties DEF Older
<1>2. \A i \in 1..Len(control) : i \in 1..Len(control') /\ Kin(control[i], control'[i], d)
  BY Facts DEF Older
<1>3. HasScope => HasScope'
  <2> SUFFICES ASSUME NEW i \in 1..Len(control), control[i] = Scope PROVE control'[i] = Scope
    BY <1>1, <1>2, Facts DEF HasScope
  <2> QED BY <1>2, Facts, FrameCases DEF Kin
<1>4. HasLoop => HasLoop'
  <2> SUFFICES ASSUME NEW i \in 1..Len(control), IsCall(control[i]), control[i].ownLoop
               PROVE  IsCall(control'[i]) /\ control'[i].ownLoop
    BY <1>1, <1>2, Facts DEF HasLoop
  <2>1. control'[i] \in CallFrame /\ control'[i].ownLoop = control[i].ownLoop
    BY <1>2 DEF Kin
  <2> QED BY <2>1 DEF CallFrame, IsCall
<1> QED BY <1>3, <1>4

\* A frame above those that wait already.
LEMMA PushedFrame ==
    ASSUME TypeInv, NEW STATE x, x \in Frame, control' = Append(Woken({}), x)
    PROVE  /\ Older({}) /\ Len(control') = Len(control) + 1
           /\ control'[Len(control')] = x
           /\ DOMAIN control' = 1..Len(control) + 1
<1>1. Woken({}) \in Seq(Frame) /\ Len(Woken({})) = Len(control)
  BY WokenKin
<1>2. /\ control' \in Seq(Frame)
      /\ Len(control') = Len(control) + 1
      /\ \A i \in 1..Len(control) : control'[i] = Woken({})[i]
      /\ control'[Len(control) + 1] = x
  BY <1>1, AppendProperties, Facts
<1>3. DOMAIN control' = 1..Len(control')
  BY <1>2, LenProperties
<1> QED
  BY <1>2, <1>3, WokenKin, Facts DEF Older

LEMMA PushKeeps == ASSUME IInv, Push PROVE IInv'
<1> USE DEF IInv
<1>1. Scope \in Frame /\ ~IsCall(Scope)
  BY DEF Scope, Frame, IsCall
<1>2. /\ Older({}) /\ Len(control') = Len(control) + 1
      /\ control'[Len(control')] = Scope
      /\ DOMAIN control' = 1..Len(control) + 1
  BY <1>1, PushedFrame DEF Push
<1>3. ASSUME NEW i \in DOMAIN control', IsCall(control'[i])
      PROVE  i \in 1..Len(control) /\ IsCall(control[i]) /\ Kin(control[i], control'[i], {})
  BY <1>1, <1>2, <1>3, Facts DEF Older, Kin
<1>4. Running' = Running
  BY DEF Push, Running
<1>5. TypeInv'
  <2>1. \A i \in DOMAIN control' : IsCall(control'[i]) =>
           control'[i].job \in DOMAIN jobs' /\ (control'[i].file = "none" <=> control'[i].op \in Ops)
    <3> SUFFICES ASSUME NEW i \in DOMAIN control', IsCall(control'[i])
                 PROVE  control'[i].job \in DOMAIN jobs /\ (control'[i].file = "none" <=> control'[i].op \in Ops)
      BY DEF Push
    <3>1. control[i].job \in DOMAIN jobs /\ (control[i].file = "none" <=> control[i].op \in Ops)
      BY <1>3, Facts DEF TypeInv
    <3> QED BY <1>3, <3>1 DEF Kin
  <2>2. cancelled' \in BOOLEAN
    BY Zenon DEF Push
  <2> QED BY <1>2, <2>1, <2>2 DEF TypeInv, Push, Older
<1>6. ExitDisturbs'
  <2> SUFFICES ASSUME NEW i \in DOMAIN control', IsCall(control'[i]), ~control'[i].disturbed
               PROVE  control'[i].ownLoop /\ (exiting' => control'[i].job \notin Running')
    BY DEF ExitDisturbs
  <2>1. control[i].ownLoop /\ (exiting => control[i].job \notin Running)
    BY <1>3, Facts DEF ExitDisturbs, Kin
  <2> QED BY <1>3, <1>4, <2>1 DEF Push, Kin
<1>7. OneJobRuns'
  <2>1. (HasScope => HasScope') /\ (HasLoop => HasLoop')
    BY <1>2, OlderKinds, Facts
  <2> QED BY <1>4, <2>1 DEF OneJobRuns, Push
<1> QED
  BY <1>5, <1>6, <1>7 DEF WaitsForItsJob, ComparesWholeFiles, Push

LEMMA EnterEventLoopKeeps ==
    ASSUME IInv, NEW o \in CallOps, NEW f \in Files \cup {"none"}, f = "none" <=> o \in Ops,
           EnterEventLoop(o, f),
           localCopy' = localCopy \/ (f \in Files /\ localCopy' = [localCopy EXCEPT ![f] = Len(jobs) + 1])
    PROVE  IInv'
<1> USE DEF IInv
<1> DEFINE j == Len(jobs) + 1
           n == Len(control) + 1
           call == [kind |-> "call", op |-> o, file |-> f, job |-> j,
                    ownLoop |-> OwnsLoop, woken |-> FALSE, disturbed |-> HasLoop]
           job == [op |-> o, state |-> "running", heard |-> TRUE]
<1>1. call \in CallFrame /\ IsCall(call) /\ call \in Frame
  <2>1. OwnsLoop \in BOOLEAN /\ HasLoop \in BOOLEAN
    BY DEF OwnsLoop, HasLoop
  <2> QED BY <2>1, Facts DEF CallFrame, Frame, IsCall
<1>2. /\ Older({}) /\ Len(control') = n /\ control'[n] = call /\ DOMAIN control' = 1..n
  BY <1>1, PushedFrame DEF EnterEventLoop
<1>3. /\ jobs' \in Seq(Job) /\ Len(jobs') = j /\ DOMAIN jobs' = 1..j
      /\ \A i \in 1..Len(jobs) : jobs'[i] = jobs[i]
      /\ jobs'[j] = job
  <2>1. job \in Job
    BY DEF Job
  <2>2. jobs' = Append(jobs, job)
    BY DEF EnterEventLoop
  <2>3. jobs' \in Seq(Job) /\ Len(jobs') = j /\ (\A i \in 1..Len(jobs) : jobs'[i] = jobs[i]) /\ jobs'[j] = job
    BY <2>1, <2>2, Facts, AppendProperties
  <2> QED BY <2>3, LenProperties
<1>4. Running' = Running \cup {j} /\ j \notin Running
  BY <1>3, Facts DEF Running
<1>5. ASSUME NEW i \in DOMAIN control', IsCall(control'[i]), i # n
      PROVE  i \in 1..Len(control) /\ IsCall(control[i]) /\ Kin(control[i], control'[i], {})
  BY <1>2, <1>5, Facts DEF Older, Kin
<1>6. TypeInv'
  <2>1. \A i \in DOMAIN control' : IsCall(control'[i]) =>
           control'[i].job \in DOMAIN jobs' /\ (control'[i].file = "none" <=> control'[i].op \in Ops)
    <3> SUFFICES ASSUME NEW i \in DOMAIN control', IsCall(control'[i])
                 PROVE  control'[i].job \in 1..j /\ (control'[i].file = "none" <=> control'[i].op \in Ops)
      BY <1>3
    <3>1. CASE i = n
      BY <1>2, <3>1, Facts
    <3>2. CASE i # n
      <4>1. control[i].job \in 1..Len(jobs) /\ (control[i].file = "none" <=> control[i].op \in Ops)
        BY <1>5, <3>2, Facts DEF TypeInv
      <4> QED BY <1>5, <3>2, <4>1, Facts DEF Kin
    <3> QED BY <3>1, <3>2
  <2>2. exiting' \in BOOLEAN /\ cancelled' \in BOOLEAN
    BY Zenon DEF EnterEventLoop, TypeInv
  <2>3. localCopy' \in [Files -> 0..Len(jobs')]
    <3>1. localCopy \in [Files -> 0..Len(jobs)] /\ 0..Len(jobs) \subseteq 0..j /\ j \in 0..j
      BY Facts DEF TypeInv
    <3>2. localCopy' \in [Files -> 0..j]
      BY <3>1
    <3> QED BY <1>3, <3>2
  <2> QED BY <1>2, <1>3, <2>1, <2>2, <2>3, Facts DEF TypeInv, EnterEventLoop, Older
<1>7. ExitDisturbs'
  <2> SUFFICES ASSUME NEW i \in DOMAIN control', IsCall(control'[i]), ~control'[i].disturbed
               PROVE  control'[i].ownLoop /\ (exiting' => control'[i].job \notin Running')
    BY DEF ExitDisturbs
  <2>1. exiting' = (exiting /\ HasLoop)
    BY DEF EnterEventLoop
  <2>2. CASE i = n
    <3>1. control'[i].disturbed = HasLoop /\ control'[i].ownLoop = ~HasLoop
      BY <1>2, <2>2 DEF OwnsLoop
    <3> QED BY Zenon, <2>1, <3>1
  <2>3. CASE i # n
    <3>1. control[i].ownLoop /\ (exiting => control[i].job \notin Running)
      BY <1>5, <2>3, Facts DEF ExitDisturbs, Kin
    <3>2. control[i].job \in 1..Len(jobs)
      BY <1>5, <2>3, Facts
    <3>3. control'[i].ownLoop = control[i].ownLoop /\ control'[i].job = control[i].job
      BY <1>5, <2>3 DEF Kin
    <3>4. control[i].job # j
      BY <3>2, Facts
    <3> QED BY Zenon, <1>4, <2>1, <3>1, <3>3, <3>4
  <2> QED BY <2>2, <2>3
<1>8. OneJobRuns'
  <2> SUFFICES ASSUME late' = {}
               PROVE  Running' = {m_pJob'} /\ HasScope' /\ HasLoop' /\ ~exiting'
    BY DEF OneJobRuns
  <2>1. late = {} /\ ~cancelled /\ ~HasLoop /\ HasScope
    BY DEF EnterEventLoop
  <2>2. Running = {}
    BY <2>1 DEF OneJobRuns
  <2>3. HasScope'
    BY <1>2, <2>1, OlderKinds, Facts
  <2>4. HasLoop'
    <3>1. OwnsLoop /\ call.ownLoop = OwnsLoop
      BY <2>1 DEF OwnsLoop
    <3>2. n \in DOMAIN control' /\ IsCall(control'[n]) /\ control'[n].ownLoop
      BY <1>1, <1>2, <3>1, Facts
    <3> QED BY Zenon, <3>2 DEF HasLoop
  <2> QED BY <1>4, <2>1, <2>2, <2>3, <2>4 DEF EnterEventLoop
<1> QED
  BY <1>6, <1>7, <1>8 DEF WaitsForItsJob, ComparesWholeFiles, EnterEventLoop

LEMMA JobEndsKeeps == ASSUME IInv, NEW j \in 1..MaxJobs, JobEnds(j) PROVE IInv'
<1> USE DEF IInv
<1> DEFINE d == DOMAIN jobs \ {j}
<1>1. j \in Running /\ j \in 1..Len(jobs)
  BY Facts DEF JobEnds
<1>2. control' = Woken(d)
  BY DEF JobEnds
<1>3. Older(d) /\ Len(control') = Len(control)
  BY <1>2, WokenKin, Facts DEF Older
<1>4. jobs' \in Seq(Job) /\ Len(jobs') = Len(jobs) /\ Running' = Running \ {j}
  <2>1. PICK end \in Ends(jobs[j].op) : jobs' = [jobs EXCEPT ![j].state = end]
    BY DEF JobEnds
  <2>2. end \in {"ok", "error", "missing", "short"}
    BY <2>1 DEF Ends
  <2> QED BY <1>1, <2>1, <2>2, EndedJob
<1>5. m_pJob' \in Nat /\ exiting' \in BOOLEAN
  <2>1. HasLoop \in BOOLEAN
    BY DEF HasLoop
  <2>2. \/ m_pJob' = 0 /\ exiting' = HasLoop
        \/ m_pJob' = m_pJob /\ exiting' = exiting
    BY Zenon DEF JobEnds, SlotJobEnded
  <2> QED BY <2>1, <2>2 DEF TypeInv
<1>6. TypeInv'
  <2>1. cancelled' \in BOOLEAN /\ localCopy' = localCopy /\ Len(control') <= Len(control)
    BY <1>3, Facts DEF JobEnds, TypeInv
  <2> HIDE DEF d
  <2> QED BY <1>3, <1>4, <1>5, <2>1, OlderTypes
<1>7. ExitDisturbs'
  <2>1. \A i \in 1..Len(control) : IsCall(control[i]) => control[i].job \in d \/ control[i].job \notin Running'
    BY <1>4, Facts
  <2> HIDE DEF d
  <2> QED BY <1>3, <1>4, <2>1, EndDisturbs, Facts
<1>8. OneJobRuns'
  BY <1>1, <1>4 DEF OneJobRuns, JobEnds
<1> QED
  BY <1>6, <1>7, <1>8 DEF WaitsForItsJob, ComparesWholeFiles, JobEnds

LEMMA CancelKeeps == ASSUME IInv, Cancel PROVE IInv'
<1> USE DEF IInv
<1> DEFINE d == IF cancelled THEN {} ELSE DOMAIN jobs
<1>1. control' = Woken(d)
  BY DEF Cancel
<1>2. Older(d) /\ Len(control') = Len(control)
  BY <1>1, WokenKin, Facts DEF Older
<1>3. Running' = Running
  BY DEF Cancel, Running
<1>4. TypeInv'
  <2>1. exiting' \in BOOLEAN /\ cancelled' \in BOOLEAN
    BY Zenon DEF Cancel, HasLoop, TypeInv
  <2> QED BY <1>2, <2>1, OlderTypes, Facts DEF Cancel, TypeInv
<1>5. ExitDisturbs'
  <2>1. \A i \in 1..Len(control) : IsCall(control[i]) => control[i].job \in d \/ (exiting' => exiting)
    BY Facts DEF Cancel
  <2> HIDE DEF d
  <2> QED BY <1>2, <1>3, <2>1, EndDisturbs, Facts
<1>6. OneJobRuns'
  <2>1. HasScope => HasScope'
    BY <1>2, OlderKinds, Facts
  <2> QED BY <1>3, <2>1 DEF OneJobRuns, Cancel
<1> QED
  BY <1>4, <1>5, <1>6 DEF WaitsForItsJob, ComparesWholeFiles, Cancel

\* The innermost frame goes.
LEMMA PoppedFrame ==
    ASSUME TypeInv, control # <<>>, NEW d, control' = Front(Woken(d))
    PROVE  Older(d) /\ Len(control') = Len(control) - 1
<1>1. Woken(d) \in Seq(Frame) /\ Len(Woken(d)) = Len(control)
  BY WokenKin
<1>2. Len(control) # 0
  BY EmptySeq DEF TypeInv
<1>3. Woken(d) # <<>>
  BY <1>1, <1>2, EmptySeq
<1>4. /\ control' \in Seq(Frame) /\ Len(control') = Len(control) - 1
      /\ \A i \in 1..Len(control) - 1 : control'[i] = Woken(d)[i]
  BY <1>1, <1>3, FrontFrames
<1>5. \A i \in 1..Len(control) : Kin(control[i], Woken(d)[i], d)
  BY WokenKin
<1> QED
  BY <1>4, <1>5, LenProperties, Facts DEF Older

LEMMA TakenFrame ==
    ASSUME TypeInv, control # <<>>, control' = Front(control)
    PROVE  /\ Older({}) /\ Len(control') = Len(control) - 1
           /\ \A i \in 1..Len(control) - 1 : control'[i] = control[i]
           /\ DOMAIN control' = 1..Len(control) - 1
           /\ Top = control[Len(control)] /\ Len(control) \in DOMAIN control
           /\ Top \in Frame
<1>1. /\ control' \in Seq(Frame) /\ Len(control) \in Nat \ {0}
      /\ Len(control') = Len(control) - 1
      /\ \A i \in 1..Len(control) - 1 : control'[i] = control[i]
      /\ Top = control[Len(control)]
  BY FrontFrames DEF TypeInv, Top
<1>2. DOMAIN control' = 1..Len(control) - 1 /\ Len(control') \in Nat
  BY <1>1, LenProperties
<1>3. \A i \in 1..Len(control) : Kin(control[i], control[i], {})
  BY Zenon, Facts, FrameCases DEF Kin
<1> QED
  BY <1>1, <1>2, <1>3, Facts DEF Older

LEMMA PopKeeps == ASSUME IInv, Pop PROVE IInv'
<1> USE DEF IInv
<1>1. control # <<>> /\ Top = Scope /\ ~IsCall(Top)
  BY DEF Pop, Scope, IsCall
<1>2. cancelled' = cancelled /\ localCopy' = localCopy /\ late' = late /\ last' = last
  BY DEF Pop
<1>3. CASE control' = Front(control) /\ UNCHANGED <<jobs, exiting>>
           /\ \/ m_pJob' = m_pJob /\ \E i \in DOMAIN Front(control) : control[i] = Scope
              \/ m_pJob' = 0 /\ m_pJob \notin Running
  <2>1. Running' = Running
    BY <1>3 DEF Running
  <2>2. TypeInv'
    BY <1>1, <1>2, <1>3, TakenFrame, OlderTypes, Facts DEF TypeInv
  <2>3. ExitDisturbs'
    BY <1>1, <1>3, <2>1, TakenFrame, EndDisturbs, Facts
  <2>4. OneJobRuns'
    <3> SUFFICES ASSUME late = {}, Running # {}
                 PROVE  Running \subseteq {m_pJob'} /\ HasScope' /\ (exiting \/ ~HasLoop' => cancelled)
      BY <1>2, <1>3, <2>1 DEF OneJobRuns
    <3>1. m_pJob' = m_pJob /\ (\E i \in DOMAIN Front(control) : control[i] = Scope)
      BY <1>3 DEF OneJobRuns
    <3>2. HasScope'
      BY <1>1, <1>3, <3>1, TakenFrame DEF HasScope
    <3>3. HasLoop => HasLoop'
      <4> SUFFICES ASSUME NEW i \in DOMAIN control, IsCall(control[i]), control[i].ownLoop
                   PROVE  i \in DOMAIN control' /\ control'[i] = control[i]
        BY Zenon DEF HasLoop
      <4> QED BY <1>1, <1>3, TakenFrame, Facts
    <3> QED BY <3>1, <3>2, <3>3 DEF OneJobRuns
  <2> QED BY <1>2, <2>2, <2>3, <2>4 DEF WaitsForItsJob, ComparesWholeFiles
<1>4. CASE /\ m_pJob' = 0 /\ m_pJob \in Running
           /\ jobs' = [jobs EXCEPT ![m_pJob].state = "error"]
           /\ exiting' = IF jobs[m_pJob].heard THEN HasLoop ELSE exiting
           /\ control' = Front(Woken(DOMAIN jobs \ {m_pJob}))
  <2> DEFINE d == DOMAIN jobs \ {m_pJob}
  <2>1. jobs' \in Seq(Job) /\ Len(jobs') = Len(jobs) /\ Running' = Running \ {m_pJob}
    BY <1>4, EndedJob, Facts
  <2>2. Older(d) /\ Len(control') = Len(control) - 1
    BY <1>1, <1>4, PoppedFrame
  <2>3. TypeInv'
    <3>1. exiting' \in BOOLEAN
      <4>1. HasLoop \in BOOLEAN
        BY DEF HasLoop
      <4> QED BY <1>4, <4>1 DEF TypeInv
    <3>2. cancelled' \in BOOLEAN /\ m_pJob' \in Nat /\ Len(control') <= Len(control)
      BY <1>2, <1>4, <2>2, Facts DEF TypeInv
    <3> HIDE DEF d
    <3> QED BY <1>2, <2>1, <2>2, <3>1, <3>2, OlderTypes
  <2>4. ExitDisturbs'
    <3>1. \A i \in 1..Len(control) : IsCall(control[i]) => control[i].job \in d \/ control[i].job \notin Running'
      BY <2>1, Facts
    <3> HIDE DEF d
    <3> QED BY <2>1, <2>2, <3>1, EndDisturbs, Facts
  <2>5. OneJobRuns'
    BY <1>2, <2>1 DEF OneJobRuns
  <2> QED BY <1>2, <2>3, <2>4, <2>5 DEF WaitsForItsJob, ComparesWholeFiles
<1> QED
  BY <1>3, <1>4 DEF Pop, KillJob

LEMMA ReturnKeeps == ASSUME IInv, Return PROVE IInv'
<1> USE DEF IInv
<1> DEFINE c == Top
           n == Len(control)
<1>1. control # <<>> /\ IsCall(c) /\ MayReturn(c) /\ control' = Front(control)
  BY DEF Return, Waiting
<1>2. /\ Older({}) /\ Len(control') = n - 1
      /\ \A i \in 1..n - 1 : control'[i] = control[i]
      /\ DOMAIN control' = 1..n - 1
      /\ c = control[n] /\ n \in DOMAIN control
      /\ c \in CallFrame /\ c # Scope
  BY <1>1, TakenFrame, FrameCases
<1>3. c.job \in 1..Len(jobs) /\ (c.file = "none" <=> c.op \in Ops)
  BY <1>1, <1>2, Facts DEF TypeInv
<1>4. jobs' \in Seq(Job) /\ Len(jobs') = Len(jobs) /\ Running' = Running
  <2>1. CASE UNCHANGED jobs
    BY <2>1, Facts DEF Running
  <2>2. ASSUME NEW lives \in BOOLEAN, jobs' = [jobs EXCEPT ![c.job].heard = lives]
        PROVE  jobs' \in Seq(Job) /\ Len(jobs') = Len(jobs) /\ Running' = Running
    <3> DEFINE e == [jobs[c.job] EXCEPT !.heard = lives]
    <3>1. e \in Job /\ e.state = jobs[c.job].state
      <4>1. jobs[c.job] \in Job
        BY <1>3, Facts, ElementOfSeq
      <4> QED BY <4>1 DEF Job
    <3>2. jobs' = [jobs EXCEPT ![c.job] = e]
      BY <2>2
    <3>3. /\ jobs' \in Seq(Job) /\ Len(jobs') = Len(jobs)
          /\ \A i \in 1..Len(jobs) : jobs'[i] = IF i = c.job THEN e ELSE jobs[i]
      <4> HIDE DEF e, c
      <4> QED BY <1>3, <3>1, <3>2, Facts, ExceptSeq
    <3>4. DOMAIN jobs' = 1..Len(jobs)
      BY <3>3, LenProperties
    <3>5. \A i \in 1..Len(jobs) : jobs'[i].state = jobs[i].state
      BY <1>3, <3>1, <3>3
    <3> HIDE DEF e, c
    <3> QED BY <3>3, <3>4, <3>5, Facts DEF Running
  <2> QED BY <2>1, <2>2 DEF Return
<1>5. exiting' = (exiting /\ ~c.ownLoop) /\ UNCHANGED <<m_pJob, cancelled, localCopy, late>>
  BY DEF Return
<1>6. TypeInv'
  <2>1. exiting' \in BOOLEAN
    BY Zenon, <1>5
  <2> HIDE DEF c
  <2> QED BY <1>2, <1>4, <1>5, <2>1, OlderTypes, Facts DEF TypeInv
<1>7. ExitDisturbs'
  <2>1. exiting' => exiting
    BY <1>5
  <2>2. Len(control') <= Len(control)
    BY <1>2, Facts
  <2> HIDE DEF c, n
  <2> QED BY <1>2, <1>4, <2>1, <2>2, EndDisturbs
<1>8. OneJobRuns'
  <2> SUFFICES ASSUME late = {}, Running # {}
               PROVE  Running \subseteq {m_pJob} /\ HasScope' /\ (exiting' \/ ~HasLoop' => cancelled)
    BY <1>4, <1>5 DEF OneJobRuns
  <2>1. HasScope'
    <3>1. PICK i \in DOMAIN control : control[i] = Scope
      BY DEF OneJobRuns, HasScope
    <3>2. i \in DOMAIN control' /\ control'[i] = Scope
      BY <1>2, <3>1, Facts
    <3> QED BY <3>2 DEF HasScope
  <2>2. CASE c.ownLoop
    BY <1>1, <1>5, <2>1, <2>2 DEF OneJobRuns, MayReturn
  <2>3. CASE ~c.ownLoop
    <3>1. HasLoop => HasLoop'
      <4> SUFFICES ASSUME NEW i \in DOMAIN control, IsCall(control[i]), control[i].ownLoop
                   PROVE  i \in DOMAIN control' /\ control'[i] = control[i]
        BY Zenon DEF HasLoop
      <4> QED BY <1>2, <2>3, Facts
    <3> QED BY <1>5, <2>1, <3>1 DEF OneJobRuns
  <2> QED BY <2>2, <2>3
<1>9. WaitsForItsJob'
  <2>1. last'.op = c.op /\ last'.early = (c.job \in Running) /\ last'.disturbed = c.disturbed
    BY DEF Return, Finished
  <2>2. c.disturbed \/ (c.ownLoop /\ (exiting => c.job \notin Running))
    BY <1>1, <1>2 DEF ExitDisturbs
  <2> QED BY Zenon, <1>1, <2>1, <2>2 DEF WaitsForItsJob, MayReturn
<1>10. ComparesWholeFiles'
  <2>1. CASE c.file = "none"
    <3>1. last'.op = c.op /\ c.op # "compare"
      BY <1>3, <2>1, KioAssumption DEF Return, Finished
    <3> QED BY <3>1 DEF ComparesWholeFiles
  <2>2. CASE c.file # "none"
    <3>1. PICK ok : /\ last'.op = c.op /\ last'.data = Copied(c.file)
                    /\ last'.ok = (c.op = "load" \/ (ok /\ Copied(c.file) = "whole"))
      BY <2>2 DEF Return, Finished, Reads
    <3> QED BY <3>1 DEF ComparesWholeFiles
  <2> QED BY <2>1, <2>2
<1> QED
  BY <1>6, <1>7, <1>8, <1>9, <1>10

\* What begins no job and ends none.
LEMMA RereadKeeps ==
    ASSUME IInv, NEW o, NEW f, Reread(o, f) \/ ListCancelled \/ UNCHANGED vars
    PROVE  IInv'
<1>1. UNCHANGED <<control, jobs, m_pJob, exiting, cancelled, localCopy, late>>
  BY DEF Reread, ListCancelled, vars
<1>2. TypeInv' /\ ExitDisturbs' /\ OneJobRuns'
  BY <1>1 DEF IInv, TypeInv, ExitDisturbs, OneJobRuns, Running, HasScope, HasLoop
<1>3. WaitsForItsJob' /\ ComparesWholeFiles'
  <2>1. CASE Reread(o, f)
    <3>1. /\ last'.op = o /\ last'.disturbed = TRUE /\ last'.data = Copied(f)
          /\ last'.ok = (o = "load" \/ (TRUE /\ Copied(f) = "whole"))
      BY <2>1 DEF Reread, Finished, Reads
    <3> QED BY <3>1 DEF WaitsForItsJob, ComparesWholeFiles
  <2>2. CASE ListCancelled
    BY <2>2 DEF ListCancelled, WaitsForItsJob, ComparesWholeFiles
  <2>3. CASE UNCHANGED vars
    BY <2>3 DEF vars, IInv, WaitsForItsJob, ComparesWholeFiles
  <2> QED BY <2>1, <2>2, <2>3
<1> QED
  BY <1>2, <1>3 DEF IInv

LEMMA NextKeepsIInv == IInv /\ [Next]_vars => IInv'
<1> SUFFICES ASSUME IInv, [Next]_vars PROVE IInv'
  OBVIOUS
<1>1. ASSUME NEW o \in Ops, Call(o) PROVE IInv'
  BY <1>1, EnterEventLoopKeeps DEF Call, CallOps
<1>2. ASSUME NEW o \in {"load", "compare"}, NEW f \in Files, CopyFirst(o, f) PROVE IInv'
  <2>1. f # "none" /\ o \notin Ops
    BY KioAssumption
  <2> QED BY <1>2, <2>1, EnterEventLoopKeeps DEF CopyFirst, CallOps
<1> QED
  BY <1>1, <1>2, PushKeeps, PopKeeps, CancelKeeps, ReturnKeeps, JobEndsKeeps, RereadKeeps DEF Next

\* The invariant holds of every run of the calls.
THEOREM Invariance == Spec => []IInv
  BY InitIInv, NextKeepsIInv, PTL DEF Spec

\* A call of stat(), put(), listDir() and so on that nothing comes between
\* returns only when its job has ended, for every way calls are nested.
THEOREM CallsWaitForTheirJob == Spec => []WaitsForItsJob
<1>1. IInv => WaitsForItsJob
  BY DEF IInv
<1> QED BY <1>1, Invariance, PTL

\* fastFileComparison() answers only for two files it has read whole, whatever
\* became of earlier copies.
THEOREM ComparisonsReadWholeFiles == Spec => []ComparesWholeFiles
<1>1. IInv => ComparesWholeFiles
  BY DEF IInv
<1> QED BY <1>1, Invariance, PTL

\* While no job is begun after a cancel, inside a waiting call or outside every
\* ProgressScope, no job outlives the operation it was begun in.
THEOREM NoJobOutlivesItsOperation == Spec => []NothingRunsOn
<1>1. IInv => NothingRunsOn
  BY DEF IInv, OneJobRuns, HasScope, NothingRunsOn
<1> QED BY <1>1, Invariance, PTL
=============================================================================
