------------------------------ MODULE FileJobs ------------------------------
(***************************************************************************)
(* Files that go to and come from jobs: the pipes (pipe.py), the upload    *)
(* and download handlers with their timers (apps/file_app.py),             *)
(* core.download, and the end of Job.run that closes the pipes.            *)
(*                                                                         *)
(* Handlers and timers run on the event loop and are atomic between two    *)
(* suspension points; methods of jobs, the copying of a file and every     *)
(* close() run in worker threads.  A file is a number of chunks, a chunk   *)
(* being what the buffer of a BufferedWriter holds.                        *)
(***************************************************************************)
EXTENDS Integers, FiniteSets

CONSTANTS
    Downloads,   \* calls of core.download
    Uploads,     \* requests to /_upload
    Jobs,
    None,
    JobOf,       \* the job a call creates, or is merged into while that job is queued
    Buffered,    \* jobs whose output goes to a temporary file
    Coroutines,  \* jobs whose method is a coroutine that writes in a worker thread
    Iterates,    \* jobs that iterate over job.pipes.inputs; the others read the first one
    Files,       \* how many files an upload brings
    MAX_UPLOADED_FILES,
    Capacity,    \* chunks that an os.pipe holds
    Chunks,      \* bound: the length of the files of a job
    AbortTargets, \* bound: jobs that somebody aborts
    Opened,      \* bound: downloads whose URL a client opens
    MaxJobs      \* bound: how many jobs are created; jobs do not interact

Calls   == Downloads \cup Uploads
Outputs == {JobOf[d] : d \in Downloads}
Inputs  == {JobOf[u] : u \in Uploads}
Pipes   == Calls \X (1..MAX_UPLOADED_FILES)

ASSUME FileJobsAssumption ==
    /\ Downloads \cap Uploads = {} /\ Jobs \cap Downloads = {}
    /\ None \notin Jobs \cup Calls
    /\ JobOf \in [Calls -> Jobs] /\ Outputs \cap Inputs = {}
    /\ Buffered \cup Coroutines \subseteq Outputs /\ Iterates \subseteq Inputs
    /\ AbortTargets \subseteq Jobs /\ Opened \subseteq Downloads
    /\ Files \in [Uploads -> Nat \ {0}] /\ Chunks \in [Jobs -> Nat \ {0}]
    /\ {MAX_UPLOADED_FILES, Capacity, MaxJobs} \subseteq Nat \ {0}

VARIABLES
    pipe,     \* Pipe objects; pipe i of a call
    job,      \* Job objects, the tasks of Job.run and the threads of their methods
    upload,   \* the handlers of uploads
    download, \* the calls of core.download, their timers and the requests to their URLs
    jobs      \* FileApplication.jobs: whose timer it holds for a job

vars == <<pipe, job, upload, download, jobs>>

PipeType ==
    [put : Nat, got : Nat,                     \* chunks written and read
     buf : BOOLEAN,                            \* the last of them is still in w's buffer
     r : BOOLEAN, w : BOOLEAN,                 \* the two sides are open
     reader : Jobs \cup Downloads \cup {None}] \* who waits in r.read(), which locks r
JobType ==
    [creator : Calls \cup {None},              \* the call whose pipes the job has
     run : {"none", "queued", "body", "closing", "over", "dead"},
     aborted : BOOLEAN,
     closing : 1..MAX_UPLOADED_FILES + 1,      \* where close_pipes is in pipes_to_close
     method : {"none", "write", "read", "get", "over"},
     finished : BOOLEAN,                       \* the method has come to its normal end
     pos : 1..MAX_UPLOADED_FILES]              \* the input pipe it reads
UploadType ==
    [pc : {"new", "copying", "next", "ok", "error"},
     part : 0..MAX_UPLOADED_FILES]             \* the files that have been given a pipe
DownloadType ==
    [pc : {"new", "called", "failed", "registered"},
     timer : {"none", "on", "cancelled", "fired", "close_r", "close_w", "done"},
     get : {"none", "checking", "preparing", "copying", "close_r", "close_w", "done"},
     eof : BOOLEAN]                            \* the client has come to the end of the file

TypeOK ==
    /\ pipe \in [Pipes -> PipeType]
    /\ \A p \in Pipes : pipe[p].got <= pipe[p].put /\ pipe[p].put <= Chunks[JobOf[p[1]]]
    /\ job \in [Jobs -> JobType]
    /\ upload \in [Uploads -> UploadType]
    /\ download \in [Downloads -> DownloadType]
    /\ jobs \in [Jobs -> Downloads \cup {None}]

Init ==
    /\ pipe = [p \in Pipes |-> [put |-> 0, got |-> 0, buf |-> FALSE, r |-> FALSE, w |-> FALSE,
                                reader |-> None]]
    /\ job = [j \in Jobs |-> [creator |-> None, run |-> "none", aborted |-> FALSE, closing |-> 1,
                              method |-> "none", finished |-> FALSE, pos |-> 1]]
    /\ upload = [u \in Uploads |-> [pc |-> "new", part |-> 0]]
    /\ download = [d \in Downloads |-> [pc |-> "new", timer |-> "none", get |-> "none", eof |-> FALSE]]
    /\ jobs = [j \in Jobs |-> None]

-----------------------------------------------------------------------------
(* Pipe                                                                    *)

\* A temporary file: it has no buffer, and its reader does not wait for the writer.
IsFile(p) == JobOf[p[1]] \in Buffered

Content(p) == pipe[p].put - pipe[p].got - IF pipe[p].buf THEN 1 ELSE 0
Room(p)    == Content(p) < Capacity
Broken(p)  == pipe[p].w /\ pipe[p].buf /\ ~pipe[p].r

open_pipe(p) == pipe' = [pipe EXCEPT ![p] = [pipe[p] EXCEPT !.r = TRUE, !.w = TRUE]]

\* w.write() puts the chunk into the buffer once the one before it is in the pipe; it
\* raises if w is closed (ValueError) or nobody can read (BrokenPipeError).
CanWrite(p)    == pipe[p].w /\ (pipe[p].buf => pipe[p].r /\ Room(p))
WriteRaises(p) == ~pipe[p].w \/ Broken(p)
write(p)       == pipe' = [pipe EXCEPT ![p] = [pipe[p] EXCEPT !.put = @ + 1, !.buf = ~IsFile(p)]]

\* w.close() flushes the buffer: it waits for room, and raises if the pipe is broken, with
\* w closed all the same.
CanCloseW(p) == pipe[p].w /\ pipe[p].buf /\ pipe[p].r => Room(p)
close_w(p)   ==
    pipe' = [pipe EXCEPT ![p] = [pipe[p] EXCEPT !.w = FALSE, !.buf = Broken(p) \/ (@ /\ ~pipe[p].w)]]

CanCloseR(p) == pipe[p].reader = None
close_r(p)   == pipe' = [pipe EXCEPT ![p].r = FALSE]

\* Mutant: an empty pipe is taken for the end of the file.
AtEnd_nonblocking(p) == Content(p) = 0

AtEnd(p) == Content(p) = 0 /\ (~pipe[p].w \/ IsFile(p))

\* r.read() by t: it begins to wait, has a chunk, or comes to the end of the file.  It
\* raises ValueError if r is closed.
read_blocks(p, t) == /\ pipe[p].r /\ Content(p) = 0 /\ ~AtEnd(p) /\ pipe[p].reader = None
                     /\ pipe' = [pipe EXCEPT ![p].reader = t]
read_chunk(p, t)  == /\ pipe[p].r /\ Content(p) > 0 /\ pipe[p].reader \in {None, t}
                     /\ pipe' = [pipe EXCEPT ![p] = [pipe[p] EXCEPT !.got = @ + 1, !.reader = None]]
read_end(p, t)    == /\ pipe[p].r /\ AtEnd(p) /\ pipe[p].reader \in {None, t}
                     /\ pipe' = [pipe EXCEPT ![p].reader = None]
read_raises(p)    == ~pipe[p].r /\ UNCHANGED pipe

-----------------------------------------------------------------------------
(* The job                                                                 *)

Output(j) == <<job[j].creator, 1>>
Input(j)  == <<job[j].creator, job[j].pos>>

\* JobsQueue.add: the call creates the job, or is given one that is still queued.
new_job(c) ==
    /\ job[JobOf[c]].run = "none" /\ Cardinality({j \in Jobs : job[j].run # "none"}) < MaxJobs
    /\ job' = [job EXCEPT ![JobOf[c]] = [job[JobOf[c]] EXCEPT !.run = "queued", !.creator = c]]
merged(c) == job[JobOf[c]].run = "queued" /\ UNCHANGED job

\* run() begins: the method's thread, unless the job has been aborted.
Start(j) ==
    /\ job[j].run = "queued"
    /\ IF job[j].aborted
       THEN job' = [job EXCEPT ![j].run = "closing"]
       ELSE job' = [job EXCEPT ![j] = [job[j] EXCEPT !.run = "body",
                                                     !.method = IF j \in Outputs THEN "write" ELSE "read"]]
    /\ UNCHANGED <<pipe, upload, download, jobs>>

\* core.job_abort: a queued job will not begin; run() of a coroutine goes on to its end
\* while the thread writes on.  For other methods see MethodStops.
Abort(j) ==
    /\ j \in AbortTargets /\ ~job[j].aborted
    /\ job[j].run = "queued" \/ (job[j].run = "body" /\ j \in Coroutines)
    /\ job' = [job EXCEPT ![j] = [job[j] EXCEPT !.aborted = TRUE,
                                                 !.run = IF @ = "body" THEN "closing" ELSE @]]
    /\ UNCHANGED <<pipe, upload, download, jobs>>

BodyEnds(j) ==
    /\ job[j].run = "body" /\ job[j].method = "over"
    /\ job' = [job EXCEPT ![j].run = "closing"]
    /\ UNCHANGED <<pipe, upload, download, jobs>>

\* close_pipes for an output.  An exception leaves run() before release_lock.
CloseOutput(j) ==
    /\ job[j].run = "closing" /\ j \in Outputs /\ CanCloseW(Output(j))
    /\ close_w(Output(j))
    /\ job' = [job EXCEPT ![j].run = IF Broken(Output(j)) THEN "dead" ELSE "over"]
    /\ UNCHANGED <<upload, download, jobs>>

\* Mutant: the first pipe is passed over.
CloseInput_rest(j) ==
    LET i == job[j].closing
        p == <<job[j].creator, i>>
    IN  /\ job[j].run = "closing" /\ j \in Inputs
        /\ IF i <= upload[job[j].creator].part
           THEN /\ IF i = 1 THEN UNCHANGED pipe ELSE CanCloseR(p) /\ close_r(p)
                /\ job' = [job EXCEPT ![j].closing = i + 1]
           ELSE job' = [job EXCEPT ![j].run = "over"] /\ UNCHANGED pipe
        /\ UNCHANGED <<upload, download, jobs>>

\* close_pipes for inputs: one turn of a loop over a list that may still grow.
CloseInput(j) ==
    LET i == job[j].closing
        p == <<job[j].creator, i>>
    IN  /\ job[j].run = "closing" /\ j \in Inputs
        /\ IF i <= upload[job[j].creator].part
           THEN /\ CanCloseR(p) /\ close_r(p)
                /\ job' = [job EXCEPT ![j].closing = i + 1]
           ELSE job' = [job EXCEPT ![j].run = "over"] /\ UNCHANGED pipe
        /\ UNCHANGED <<upload, download, jobs>>

method_ends(j, ok) == job' = [job EXCEPT ![j] = [job[j] EXCEPT !.method = "over", !.finished = ok]]

\* The method raises or returns early; it is not inside a read, a write or a get then.
MethodStops(j) ==
    /\ \/ job[j].method = "write" /\ CanWrite(Output(j))
       \/ job[j].method = "read" /\ pipe[Input(j)].reader # j
    /\ method_ends(j, FALSE)
    /\ UNCHANGED <<pipe, upload, download, jobs>>

\* A method with an output writes its file; in the end it may or may not close the pipe.
MethodWrites(j) ==
    LET p    == Output(j)
        more == pipe[p].put < Chunks[j]
    IN  /\ job[j].method = "write"
        /\ \/ more /\ CanWrite(p) /\ write(p) /\ UNCHANGED job
           \/ more /\ WriteRaises(p) /\ method_ends(j, FALSE) /\ UNCHANGED pipe
           \/ ~more /\ method_ends(j, TRUE) /\ UNCHANGED pipe
           \/ ~more /\ CanCloseW(p) /\ close_w(p) /\ method_ends(j, ~Broken(p))
        /\ UNCHANGED <<upload, download, jobs>>

\* A method with inputs reads a pipe to its end, itself or (what it has left) in __iter__.
MethodReads(j) ==
    LET p == Input(j)
    IN  /\ job[j].method = "read"
        /\ \/ (read_blocks(p, j) \/ read_chunk(p, j)) /\ UNCHANGED job
           \/ read_end(p, j) /\ IF j \in Iterates THEN job' = [job EXCEPT ![j].method = "get"]
                                                  ELSE method_ends(j, TRUE)
           \/ read_raises(p) /\ method_ends(j, FALSE)
        /\ UNCHANGED <<upload, download, jobs>>

\* Mutant: __exit__ is skipped when the handler leaves with an error.
Exited_ok(u) == upload[u].pc = "ok"

\* InputPipes.__exit__ has put None at the end of the queue.
Exited(u) == upload[u].pc \in {"ok", "error"}

\* queue.get(): the next pipe, or None.
MethodGets(j) ==
    LET u == job[j].creator
    IN  /\ job[j].method = "get"
        /\ IF upload[u].part > job[j].pos
           THEN job' = [job EXCEPT ![j] = [job[j] EXCEPT !.method = "read", !.pos = @ + 1]]
           ELSE Exited(u) /\ method_ends(j, TRUE)
        /\ UNCHANGED <<pipe, upload, download, jobs>>

-----------------------------------------------------------------------------
(* FileApplication.upload                                                  *)

\* The request is authorized; its first pipe is opened and the job called.  The pipe of a
\* call that is merged into another one is not a pipe of the job.
Upload(u) ==
    /\ upload[u].pc = "new"
    /\ new_job(u) \/ merged(u)
    /\ upload' = [upload EXCEPT ![u] = [pc |-> "copying", part |-> 1]]
    /\ open_pipe(<<u, 1>>)
    /\ UNCHANGED <<download, jobs>>

\* copy_multipart_to_pipe: a chunk of the file; its end, or the end of the job, which is
\* not an error; or the end of the connection.  The pipe is closed in every case.
Copy(u) ==
    LET p    == <<u, upload[u].part>>
        more == pipe[p].put < Chunks[JobOf[u]]
    IN  /\ upload[u].pc = "copying"
        /\ \/ more /\ CanWrite(p) /\ write(p) /\ UNCHANGED upload
           \/ /\ ~more \/ WriteRaises(p)
              /\ CanCloseW(p) /\ close_w(p)
              /\ upload' = [upload EXCEPT ![u].pc = "next"]
           \/ CanCloseW(p) /\ close_w(p) /\ upload' = [upload EXCEPT ![u].pc = "error"]
        /\ UNCHANGED <<job, download, jobs>>

\* Mutant: as many files as the client likes.
NextFile_unlimited(u) ==
    /\ upload[u].pc = "next" /\ upload[u].part < Files[u]
    /\ upload' = [upload EXCEPT ![u] = [pc |-> "copying", part |-> upload[u].part + 1]]
    /\ open_pipe(<<u, upload[u].part + 1>>)
    /\ UNCHANGED <<job, download, jobs>>

\* The next part of the request is another file: add_pipe ...
NextFile(u) ==
    /\ upload[u].pc = "next"
    /\ upload[u].part < Files[u] /\ upload[u].part < MAX_UPLOADED_FILES
    /\ upload' = [upload EXCEPT ![u] = [pc |-> "copying", part |-> upload[u].part + 1]]
    /\ open_pipe(<<u, upload[u].part + 1>>)
    /\ UNCHANGED <<job, download, jobs>>

\* ... there is none; or it is one too many, or something else, or cannot be read.
Answer(u) ==
    /\ upload[u].pc = "next"
    /\ \E pc \in {"error"} \cup IF upload[u].part = Files[u] THEN {"ok"} ELSE {} :
          upload' = [upload EXCEPT ![u].pc = pc]
    /\ UNCHANGED <<pipe, job, download, jobs>>

-----------------------------------------------------------------------------
(* core.download and FileApplication.download                              *)

\* core.download calls the job with a pipe for its output ...
Download(d) ==
    /\ download[d].pc = "new"
    /\ download' = [download EXCEPT ![d].pc = "called"]
    /\ (new_job(d) /\ open_pipe(<<d, 1>>)) \/ (merged(d) /\ UNCHANGED pipe)
    /\ UNCHANGED <<upload, jobs>>

\* ... and fails, or is cancelled with its connection, while the token is generated ...
DownloadFails(d) ==
    /\ download[d].pc = "called"
    /\ download' = [download EXCEPT ![d].pc = "failed"]
    /\ UNCHANGED <<pipe, job, upload, jobs>>

\* Mutant: no timer.
register_job_no_timer(d) ==
    /\ download[d].pc = "called"
    /\ download' = [download EXCEPT ![d].pc = "registered"]
    /\ jobs' = [jobs EXCEPT ![JobOf[d]] = d]
    /\ UNCHANGED <<pipe, job, upload>>

\* ... or registers the job and returns the URL.  A timer that was there goes on.
register_job(d) ==
    /\ download[d].pc = "called"
    /\ download' = [download EXCEPT ![d] = [download[d] EXCEPT !.pc = "registered", !.timer = "on"]]
    /\ jobs' = [jobs EXCEPT ![JobOf[d]] = d]
    /\ UNCHANGED <<pipe, job, upload>>

\* 60 seconds (buffered: an hour) have passed.
TimerFires(d) ==
    /\ download[d].timer = "on"
    /\ download' = [download EXCEPT ![d].timer = "fired"]
    /\ UNCHANGED <<pipe, job, upload, jobs>>

\* What becomes of a timer when the one that the table holds for j is cancelled.
Cancelled(j, d) == IF d = jobs[j] /\ download[d].timer = "on" THEN "cancelled" ELSE download[d].timer

\* _cleanup_job, up to Pipes.close.
CleanupJob(d) ==
    LET j == JobOf[d]
    IN  /\ download[d].timer = "fired"
        /\ download' = [e \in Downloads |-> [download[e] EXCEPT !.timer =
                           IF e # d THEN Cancelled(j, e)
                           ELSE IF jobs[j] = None THEN "done" ELSE "close_r"]]
        /\ jobs' = [jobs EXCEPT ![j] = None]
        /\ UNCHANGED <<pipe, job, upload>>

\* The client opens the URL: get_token takes the token, which is for one use ...
GetToken(d) ==
    /\ d \in Opened /\ download[d].pc = "registered" /\ download[d].get = "none"
    /\ download' = [download EXCEPT ![d].get = "checking"]
    /\ UNCHANGED <<pipe, job, upload, jobs>>

\* ... the job must be registered (else 410), and the response is prepared ...
CheckJob(d) ==
    /\ download[d].get = "checking"
    /\ download' = [download EXCEPT ![d].get = IF jobs[JobOf[d]] = None THEN "done" ELSE "preparing"]
    /\ UNCHANGED <<pipe, job, upload, jobs>>

\* ... which fails if the client has gone, before the timer is cancelled ...
PrepareFails(d) ==
    /\ download[d].get = "preparing"
    /\ download' = [download EXCEPT ![d].get = "done"]
    /\ UNCHANGED <<pipe, job, upload, jobs>>

\* Mutant: the timer goes on.
Prepared_timer_on(d) ==
    /\ download[d].get = "preparing"
    /\ download' = [download EXCEPT ![d].get = "copying"]
    /\ UNCHANGED <<pipe, job, upload, jobs>>

\* ... or _cleanup_cancel takes the job out of the table, and the copying begins.
Prepared(d) ==
    /\ download[d].get = "preparing"
    /\ download' = [e \in Downloads |-> [download[e] EXCEPT
                       !.timer = Cancelled(JobOf[d], e),
                       !.get = IF e = d THEN "copying" ELSE @]]
    /\ jobs' = [jobs EXCEPT ![JobOf[d]] = None]
    /\ UNCHANGED <<pipe, job, upload>>

\* do_copy: chunks are read and sent until there is nothing more to read, the pipe has
\* been closed or the client has gone.
DoCopy(d) ==
    LET p == Output(JobOf[d])
    IN  /\ download[d].get = "copying"
        /\ \/ read_blocks(p, d) /\ UNCHANGED download
           \/ /\ read_chunk(p, d)
              /\ download' \in {download, [download EXCEPT ![d].get = "close_r"]}
           \/ /\ read_end(p, d)
              /\ download' = [download EXCEPT ![d] = [download[d] EXCEPT !.get = "close_r", !.eof = TRUE]]
           \/ read_raises(p) /\ download' = [download EXCEPT ![d].get = "close_r"]
        /\ UNCHANGED <<job, upload, jobs>>

\* Mutant: only the reading side is closed.
close_half(p, at, to) == at = "close_r" /\ to = "done" /\ CanCloseR(p) /\ close_r(p)

\* Pipe.close, by the handler or by _cleanup_job: two work items for worker threads.
close(p, at, to) ==
    \/ at = "close_r" /\ to = "close_w" /\ CanCloseR(p) /\ close_r(p)
    \/ at = "close_w" /\ to = "done" /\ CanCloseW(p) /\ close_w(p)

GetCloses(d) ==
    /\ \E to \in {"close_w", "done"} : /\ close(Output(JobOf[d]), download[d].get, to)
                                       /\ download' = [download EXCEPT ![d].get = to]
    /\ UNCHANGED <<job, upload, jobs>>

CleanupCloses(d) ==
    /\ \E to \in {"close_w", "done"} : /\ close(Output(JobOf[d]), download[d].timer, to)
                                       /\ download' = [download EXCEPT ![d].timer = to]
    /\ UNCHANGED <<job, upload, jobs>>

-----------------------------------------------------------------------------
JobStep(j) == Start(j) \/ BodyEnds(j) \/ CloseOutput(j) \/ CloseInput(j)
MethodStep(j) == MethodWrites(j) \/ MethodReads(j) \/ MethodGets(j)
UploadStep(u) == Copy(u) \/ NextFile(u) \/ Answer(u)
TimerStep(d) == TimerFires(d) \/ CleanupJob(d) \/ CleanupCloses(d)
GetStep(d) == CheckJob(d) \/ PrepareFails(d) \/ Prepared(d) \/ DoCopy(d) \/ GetCloses(d)

Next ==
    \/ \E j \in Jobs : JobStep(j) \/ MethodStep(j) \/ Abort(j) \/ MethodStops(j)
    \/ \E u \in Uploads : Upload(u) \/ UploadStep(u)
    \/ \E d \in Downloads : Download(d) \/ DownloadFails(d) \/ register_job(d) \/ GetToken(d)
                              \/ TimerStep(d) \/ GetStep(d)

Spec == Init /\ [][Next]_vars

\* Worker threads, tasks and timers are served, a queued job gets its turn, and a client
\* sends, receives or disconnects.  Nobody has to call, to abort or to open the URL, and
\* a method need not fail.
FairSpec ==
    /\ Spec
    /\ \A j \in Jobs : WF_vars(JobStep(j)) /\ WF_vars(MethodStep(j))
    /\ \A u \in Uploads : WF_vars(UploadStep(u))
    /\ \A d \in Downloads : WF_vars(TimerStep(d)) /\ WF_vars(GetStep(d))

-----------------------------------------------------------------------------
(* Correctness                                                             *)

\* A call that shares its job with no other.
Alone(c) == \A e \in Calls : JobOf[e] = JobOf[c] => e = c

\* download(): a client that has read an unbuffered output to its end has all that the
\* method has written, however the job ended.
WholeOutput ==
    \A d \in Downloads : Alone(d) /\ JobOf[d] \notin Buffered /\ download[d].eof
                            => pipe[<<d, 1>>].got = pipe[<<d, 1>>].put

\* _cleanup_cancel: the pipe is not taken away from a download that has begun, except by a
\* cleanup that was under way before.
BegunStep ==
    \A d \in Downloads : Alone(d) /\ download[d].get = "copying" /\ download[d].timer # "close_r"
        => download'[d].timer # "close_r" /\ pipe'[<<d, 1>>].r = pipe[<<d, 1>>].r
BegunIsLeftAlone == [][BegunStep]_vars

\* upload() and InputPipes: a method that has got to the end of its inputs, and whose
\* upload was answered with the job's id, has had every file from beginning to end.
WholeInputs ==
    \A u \in Uploads : LET j == JobOf[u] IN
        upload[u].pc = "ok" /\ job[j].creator = u /\ job[j].finished /\ j \in Iterates
            => \A i \in 1..Files[u] : pipe[<<u, i>>].got = Chunks[j]

\* Job.run fails in close_pipes, and never releases its lock, only while somebody is
\* between the two halves of Pipe.close.
DeathStep ==
    \A j \in Jobs : job'[j].run = "dead" /\ job[j].run # "dead"
        => \E d \in Downloads : JobOf[d] = j /\ "close_w" \in {download[d].get, download[d].timer}
DiesBetweenCloses == [][DeathStep]_vars

\* register_job: once the URL has been given out the job comes to its end, whether the
\* file is downloaded or not ("File download must begin within 60 seconds or the job is
\* canceled").
OutputsEnd ==
    \A d \in Downloads : LET j == JobOf[d] IN
        download[d].pc = "registered" ~> job[j].run \in {"over", "dead"} /\ job[j].method \in {"none", "over"}

\* InputPipes: the method of a job with inputs never waits for ever.
InputsEnd == \A j \in Inputs : job[j].method = "read" ~> job[j].method = "over"

\* upload(): a file gets through, or the end of its job is noticed, unless its pipe belongs
\* to no job: the call was merged, or the pipe was added when close_pipes was over.
Orphan(u) == LET j == JobOf[u]
             IN  job[j].creator # u \/ (job[j].run = "over" /\ job[j].closing <= upload[u].part)
FilesGetThrough ==
    \A u \in Uploads : upload[u].pc = "copying" ~> upload[u].pc # "copying" \/ Orphan(u)

=============================================================================
