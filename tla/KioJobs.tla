------------------------------ MODULE KioJobs ------------------------------
(* Calls on remote files and folders.  Each starts a KIO job and waits for   *)
(* it in an event loop of the progress dialog (DefaultFileAccessJobHandler,  *)
(* ProgressDialog); the dialog can cancel, and kills the job it knows of     *)
(* when the last of the nested ProgressScopes ends.  A remote file is read   *)
(* from a local copy (FileAccess::createLocalCopy()).                        *)
(*                                                                           *)
(* There is one thread: "control" is its call stack, of scopes and of calls  *)
(* that wait.  While a call waits, or the code polls wasCancelled(), events  *)
(* are processed: a job ends, the user cancels, or a handler of the program  *)
(* opens a scope and makes calls of its own.                                 *)
EXTENDS Integers, Sequences, FiniteSets, SequencesExt

CONSTANTS
    Ops,      \* the calls: "stat", "put", "list", "simple" (remove, make, rename)
    Files,    \* remote files that are read, by a "load" or a "compare"
    MaxJobs,  \* bound: jobs in one run
    MaxDepth  \* bound: length of control

ASSUME KioAssumption ==
    /\ Ops \subseteq {"stat", "put", "list", "simple"}
    /\ "none" \notin Files
    /\ MaxJobs \in Nat /\ MaxDepth \in Nat

VARIABLES
    control,    \* scopes and waiting calls, innermost last
    jobs,       \* sequence of [op, state, heard]; heard: its handler still lives
    m_pJob,     \* the job the dialog would kill, an index of jobs, or 0
    exiting,    \* m_eventLoop was told to exit
    cancelled,  \* m_bWasCancelled
    localCopy,  \* file |-> the job that made m_localCopy, or 0
    last,       \* history: the call that ended last
    late        \* history: jobs begun after a cancel, in a waiting call or in no scope

vars == <<control, jobs, m_pJob, exiting, cancelled, localCopy, last, late>>

Scope == [kind |-> "scope"]
IsCall(f) == f.kind = "call"
Top == Last(control)
Waiting == control # <<>> /\ IsCall(Top)
HasLoop == \E i \in DOMAIN control : IsCall(control[i]) /\ control[i].ownLoop
HasScope == \E i \in DOMAIN control : control[i] = Scope
Running == {j \in DOMAIN jobs : jobs[j].state = "running"}

\* How a job can end.
Ends(o) == {"ok", "error"} \cup (CASE o = "stat" -> {"missing"} [] o = "put" -> {"short"} [] OTHER -> {})

\* The result slots: a file that is missing was looked up, but only a complete
\* transfer was put.
Success(o, end) == end = "ok" \/ (o = "stat" /\ end = "missing")

Init ==
    /\ control = <<>>
    /\ jobs = <<>>
    /\ m_pJob = 0
    /\ exiting = FALSE
    /\ cancelled = FALSE
    /\ localCopy = [f \in Files |-> 0]
    /\ last = [op |-> "none"]
    /\ late = {}

-----------------------------------------------------------------------------
(* The event loop. *)

\* The innermost call has processed an event; calls for these jobs did not
\* wait for it.
Woken(disturbed) ==
    [i \in DOMAIN control |->
        IF ~IsCall(control[i]) THEN control[i]
        ELSE [control[i] EXCEPT !.woken = @ \/ i = Len(control),
                                !.disturbed = @ \/ control[i].job \in disturbed]]

\* Handlers are called only until the loop is told to exit; a call without a
\* loop of its own calls those that wait already.
MayCallHandler == Waiting => IF Top.ownLoop THEN ~exiting ELSE ~Top.woken

\* enterEventLoop(): the first call runs an event loop until it is told to
\* exit, a call inside it only processes the next events.
OwnsLoop == ~HasLoop

EnterEventLoop(o, f) ==
    LET j == Len(jobs) + 1
        call == [kind |-> "call", op |-> o, file |-> f, job |-> j,
                 ownLoop |-> OwnsLoop, woken |-> FALSE, disturbed |-> HasLoop]
    IN /\ Len(jobs) < MaxJobs /\ Len(control) < MaxDepth /\ MayCallHandler
       /\ jobs' = Append(jobs, [op |-> o, state |-> "running", heard |-> TRUE])
       /\ m_pJob' = j
       /\ control' = Append(Woken({}), call)
       /\ exiting' = (exiting /\ HasLoop)
       /\ late' = IF cancelled \/ HasLoop \/ ~HasScope THEN late \cup {j} ELSE late
       /\ UNCHANGED <<cancelled, last>>

\* Mutant: the event loop goes on.
SlotJobEndedOnly(j) == m_pJob' = 0 /\ exiting' = exiting

\* slotJobEnded(), exitEventLoop(): the end of any job whose handler lives.
SlotJobEnded(j) ==
    IF jobs[j].heard THEN m_pJob' = 0 /\ exiting' = HasLoop
    ELSE UNCHANGED <<m_pJob, exiting>>

JobEnds(j) ==
    /\ j \in Running
    /\ \E end \in Ends(jobs[j].op) : jobs' = [jobs EXCEPT ![j].state = end]
    /\ SlotJobEnded(j)
    /\ control' = Woken(DOMAIN jobs \ {j})
    /\ UNCHANGED <<cancelled, localCopy, last, late>>

\* cancel(): the loop is left, the job goes on.  Only the first one counts.
Cancel ==
    /\ control # <<>>
    /\ cancelled' = TRUE
    /\ exiting' = IF cancelled THEN exiting ELSE HasLoop
    /\ control' = Woken(IF cancelled THEN {} ELSE DOMAIN jobs)
    /\ UNCHANGED <<jobs, m_pJob, localCopy, last, late>>

\* A ProgressScope begins, in the code or in an event handler.
Push ==
    /\ Len(control) < MaxDepth /\ MayCallHandler
    /\ control' = Append(Woken({}), Scope)
    /\ cancelled' = (cancelled /\ HasScope)
    /\ UNCHANGED <<jobs, m_pJob, exiting, localCopy, last, late>>

\* Mutant: the job of a cancelled call is not killed.
KillJobNot(j) ==
    /\ control' = Front(control)
    /\ UNCHANGED <<jobs, exiting>>

\* killJob(): the job ends, and says so.
KillJob(j) ==
    IF j \in Running
    THEN /\ jobs' = [jobs EXCEPT ![j].state = "error"]
         /\ exiting' = IF jobs[j].heard THEN HasLoop ELSE exiting
         /\ control' = Front(Woken(DOMAIN jobs \ {j}))
    ELSE /\ control' = Front(control)
         /\ UNCHANGED <<jobs, exiting>>

\* ... and ends; the last one takes the job with it.
Pop ==
    /\ control # <<>> /\ Top = Scope
    /\ IF \E i \in DOMAIN Front(control) : control[i] = Scope
       THEN control' = Front(control) /\ UNCHANGED <<m_pJob, jobs, exiting>>
       ELSE m_pJob' = 0 /\ KillJob(m_pJob)
    /\ UNCHANGED <<cancelled, localCopy, last, late>>

-----------------------------------------------------------------------------
(* Calls. *)

\* stat(), put(), removeFile(), mkDirImp(), rmDirImp(), rename(), and listDir()
\* of a folder that is not local.
Call(o) ==
    /\ o = "list" => ~cancelled
    /\ EnterEventLoop(o, "none")
    /\ UNCHANGED localCopy

\* listDir() does not begin when the user has cancelled: "not an error".
ListCancelled ==
    /\ "list" \in Ops /\ ~Waiting /\ cancelled
    /\ last' = [op |-> "list", ok |-> TRUE, early |-> FALSE, disturbed |-> TRUE, data |-> "part"]
    /\ UNCHANGED <<control, jobs, m_pJob, exiting, cancelled, localCopy, late>>

\* createLocalCopy(): the name is kept, whatever becomes of the copy.
CopyFirst(o, f) ==
    /\ localCopy[f] = 0
    /\ EnterEventLoop(o, f)
    /\ localCopy' = [localCopy EXCEPT ![f] = Len(jobs) + 1]

Copied(f) == IF jobs[localCopy[f]].state = "ok" THEN "whole" ELSE "part"

\* Mutant: the result of the copy is trusted, the size is not.
ReadsTrusting(o, copied, data) == copied

\* What is read from the copy: MergeFileInfos::fastFileComparison() wants a
\* copy that was made and as many bytes as the file has;
\* SourceData::readAndPreprocess() asks for neither.
Reads(o, copied, data) == o = "load" \/ (copied /\ data = "whole")

Finished(o, c, ok, data) ==
    last' = [op |-> o, ok |-> ok, early |-> c.job \in Running, disturbed |-> c.disturbed, data |-> data]

Reread(o, f) ==
    /\ ~Waiting /\ localCopy[f] # 0
    /\ Finished(o, [job |-> 0, disturbed |-> TRUE], Reads(o, TRUE, Copied(f)), Copied(f))
    /\ UNCHANGED <<control, jobs, m_pJob, exiting, cancelled, localCopy, late>>

\* Mutant: any event ends the wait.
MayReturnEarly(c) == c.woken

MayReturn(c) == IF c.ownLoop THEN exiting ELSE c.woken

\* The call returns m_bSuccess.  The handler of a call on a temporary
\* FileAccess goes then, and with it its connection to the job.
Return ==
    LET c == Top
        ok == Success(c.op, jobs[c.job].state)
    IN /\ Waiting /\ MayReturn(c)
       /\ control' = Front(control)
       /\ IF c.file = "none"
          THEN /\ Finished(c.op, c, ok, "none")
               /\ \E lives \in BOOLEAN : jobs' = [jobs EXCEPT ![c.job].heard = lives]
          ELSE /\ Finished(c.op, c, Reads(c.op, ok, Copied(c.file)), Copied(c.file))
               /\ UNCHANGED jobs
       /\ exiting' = (exiting /\ ~c.ownLoop)
       /\ UNCHANGED <<m_pJob, cancelled, localCopy, late>>

Next ==
    \/ Push \/ Pop \/ Cancel \/ Return \/ ListCancelled
    \/ \E o \in Ops : Call(o)
    \/ \E o \in {"load", "compare"}, f \in Files : CopyFirst(o, f) \/ Reread(o, f)
    \/ \E j \in 1..MaxJobs : JobEnds(j)

\* Jobs end, the event loop hands their end over and returns when told, and
\* code that runs comes to the end of its scopes: it does not open and close
\* inner ones for ever.
Fairness ==
    /\ WF_vars(Return)
    /\ \A n \in 1..MaxDepth : SF_vars(Pop /\ Len(control) = n)
    /\ \A j \in 1..MaxJobs : WF_vars(JobEnds(j))

Spec == Init /\ [][Next]_vars /\ Fairness
-----------------------------------------------------------------------------
\* A call returns before its job has ended only if something else came between:
\* a cancel, the end of another job, or a call that waited already.
WaitsForItsJob == last.op # "none" /\ last.early => last.disturbed

\* Two files that a comparison calls equal or different were read whole, also
\* when a copy failed before and its name was kept.
ComparesWholeFiles == last.op = "compare" /\ last.ok => last.data = "whole"

\* When an operation ends, so does the job it was cancelled in - unless it went
\* on after the cancel, and began another.
NothingRunsOn == control = <<>> /\ late = {} => Running = {}

\* However calls are nested and cancelled, each comes back to its caller.
CallsReturn ==
    \A j \in 1..MaxJobs :
        (\E i \in DOMAIN control : IsCall(control[i]) /\ control[i].job = j)
            ~> ~\E i \in DOMAIN control : IsCall(control[i]) /\ control[i].job = j
=============================================================================
