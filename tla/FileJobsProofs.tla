--------------------------- MODULE FileJobsProofs ---------------------------
(* Files that go to and come from jobs: types, files that arrive whole,    *)
(* downloads that nobody cuts short, and jobs that die closing a pipe.     *)
EXTENDS FileJobsStepProofs

-----------------------------------------------------------------------------
(* Types                                                                   *)

\* Every step, of a handler, a method or Job.run, keeps the pipes and the types.
LEMMA PipesStepType == ASSUME TypeInv, [Next]_vars PROVE PipeInv' /\ TypeOK'
<1>1. /\ pipe' \in [Pipes -> PipeType] /\ \A p \in Pipes : PipeStep(p)
      /\ job' \in [Jobs -> JobType] /\ upload' \in [Uploads -> UploadType] /\ CallsStep
  BY PipeSteps, JobSteps, UploadSteps, DownloadSteps, Zenon
<1>2. ASSUME NEW p \in Pipes
      PROVE  /\ pipe'[p].got + (IF pipe'[p].buf THEN 1 ELSE 0) <= pipe'[p].put
             /\ pipe'[p].got <= pipe'[p].put /\ pipe'[p].put <= Chunks[JobOf[p[1]]]
  <2>0. /\ pipe[p] \in PipeType /\ pipe'[p] \in PipeType /\ PipeStep(p) /\ Chunks[JobOf[p[1]]] \in Nat
        /\ pipe[p].put <= Chunks[JobOf[p[1]]]
        /\ pipe[p].got + (IF pipe[p].buf THEN 1 ELSE 0) <= pipe[p].put
    BY <1>1, FileJobsAssumption, Zenon DEF TypeInv, TypeOK, PipeInv, Pipes, Calls
  <2>1. /\ {pipe[p].put, pipe[p].got, pipe'[p].put, pipe'[p].got} \subseteq Nat
        /\ {pipe[p].buf, pipe'[p].buf} \subseteq BOOLEAN
    BY <2>0, Zenon DEF PipeType
  <2> QED
    BY <2>0, <2>1 DEF PipeStep, Content
<1> QED
  BY <1>1, <1>2, Zenon DEF PipeInv, TypeOK, CallsStep

\* A file that has a pipe keeps it.
LEMMA PartsGrow ==
    ASSUME TypeInv, [Next]_vars, NEW u \in Uploads
    PROVE  upload[u].part \in Nat /\ upload'[u].part \in Nat /\ upload[u].part <= upload'[u].part
<1>1. UploadStepOf(u) /\ upload[u] \in UploadType /\ upload'[u] \in UploadType
  BY UploadSteps, Zenon DEF TypeInv, TypeOK
<1>2. upload[u].part \in Nat /\ upload'[u].part \in Nat
  BY <1>1 DEF UploadType
<1> QED
  BY <1>1, <1>2 DEF UploadStepOf

\* Every step keeps the records of the jobs: who created them and how far run() and the
\* method can be.
LEMMA JobsStepType == ASSUME TypeInv, [Next]_vars PROVE JobInv'
<1> SUFFICES ASSUME NEW j \in Jobs PROVE JobOK(j)'
  BY Zenon DEF JobInv
<1>1. JobStepOf(j) /\ JobOK(j) /\ job[j] \in JobType /\ job'[j] \in JobType
  BY JobSteps, Zenon DEF TypeInv, TypeOK, JobInv
<1>2. /\ j \in Inputs => j \notin Outputs
      /\ \A c \in Calls : JobOf[c] = j /\ j \in Inputs => c \in Uploads
      /\ Iterates \subseteq Inputs
  BY FileJobsAssumption, ZenonT(120) DEF Inputs, Outputs, Calls
<1>3. j \in Inputs \/ j \in Outputs \/ job[j].run = "none"
  BY <1>1, Zenon DEF JobOK, Inputs, Outputs, Calls
<1>4. job[j].pos \in Nat /\ job'[j].pos \in Nat
  BY <1>1 DEF JobType
<1>5. CASE Created(j)
  BY <1>1, <1>2, <1>4, <1>5 DEF Created, JobOK
<1>6. ASSUME job[j].run # "none", job'[j].creator = job[j].creator, j \in Inputs,
             \/ job'[j].pos = job[j].pos
             \/ job'[j].pos = job[j].pos + 1 /\ job[j].pos + 1 <= upload[job[j].creator].part
      PROVE  job'[j].pos <= upload'[job'[j].creator].part
  <2>1. job[j].creator \in Uploads /\ job[j].pos <= upload[job[j].creator].part
    BY <1>1, <1>2, <1>6, Zenon DEF JobOK
  <2> QED
    BY <1>4, <1>6, <2>1, PartsGrow
<1>7. CASE job'[j] = job[j]
  BY <1>1, <1>6, <1>7, Zenon DEF JobOK
<1>8. ASSUME job[j].run # "none", job'[j].creator = job[j].creator, RunMoves(j) \/ Starts(j) \/ MethodMoves(j)
      PROVE  JobOK(j)'
  <2>1. \/ job'[j].pos = job[j].pos
        \/ job'[j].pos = job[j].pos + 1 /\ job[j].pos + 1 <= upload[job[j].creator].part
    BY <1>8, Zenon DEF RunMoves, Starts, MethodMoves
  <2>2. job'[j].run # "none" /\ (job'[j].run = "queued" => job'[j].method = "none")
    BY <1>1, <1>8, Zenon DEF JobOK, RunMoves, Starts, MethodMoves
  <2>3. (job'[j].method = "write" => j \in Outputs) /\ (job'[j].method \in {"read", "get"} => j \in Inputs)
    BY <1>1, <1>3, <1>8, Zenon DEF JobOK, RunMoves, Starts, MethodMoves
  <2> QED
    BY <1>1, <1>6, <1>8, <2>1, <2>2, <2>3, Zenon DEF JobOK
<1> QED
  BY <1>1, <1>5, <1>7, <1>8, Zenon DEF JobStepOf

\* Every step keeps the records of the calls and the table of timers.
LEMMA CallsStepType == ASSUME TypeInv, [Next]_vars PROVE CallInv'
<1>1. ASSUME NEW u \in Uploads PROVE upload'[u].pc = "new" <=> upload'[u].part = 0
  <2>1. /\ UploadStepOf(u) /\ upload[u].part \in Nat
        /\ upload[u].pc = "new" <=> upload[u].part = 0
    BY UploadSteps, PartsGrow, Zenon DEF TypeInv, CallInv
  <2> QED
    BY <2>1 DEF UploadStepOf
<1>2. ASSUME NEW d \in Downloads
      PROVE  /\ download'[d].pc # "new" => job'[JobOf[d]].run # "none"
             /\ download'[d].timer # "none" \/ download'[d].get # "none" \/ download'[d].eof
                   => download'[d].pc = "registered"
  <2>1. DownloadStepOf(d) /\ JobStepOf(JobOf[d]) /\ (download[d].pc # "new" => job[JobOf[d]].run # "none")
    BY DownloadSteps, JobSteps, FileJobsAssumption, Zenon DEF CallsStep, TypeInv, CallInv, Calls
  <2>2. job[JobOf[d]].run # "none" => job'[JobOf[d]].run # "none"
    BY <2>1, Zenon DEF JobStepOf, Created, RunMoves, Starts, MethodMoves
  <2> QED
    BY <2>1, <2>2, Zenon DEF DownloadStepOf
<1> QED
  BY <1>1, <1>2, Zenon DEF CallInv

\* Every state has its types, and no chunk is read that was not written or is still in the
\* buffer of its writer.
THEOREM TypeInvariance == Spec => []TypeInv
<1>1. Init => TypeInv
  <2> SUFFICES ASSUME Init PROVE TypeInv
    OBVIOUS
  <2>1. TypeOK
    BY FileJobsAssumption DEF Init, TypeOK, PipeType, JobType, UploadType, DownloadType, Pipes, Calls
  <2>2. PipeInv /\ JobInv
    BY DEF Init, PipeInv, JobInv, JobOK
  <2>3. CallInv
    BY Zenon DEF Init, CallInv
  <2> QED
    BY <2>1, <2>2, <2>3, Zenon DEF TypeInv
<1>2. TypeInv /\ [Next]_vars => TypeInv'
  BY PipesStepType, JobsStepType, CallsStepType, Zenon DEF TypeInv
<1> QED
  BY <1>1, <1>2, PTL DEF Spec

\* The types that TypeOK states.
THEOREM TypeCorrectness == Spec => []TypeOK
BY TypeInvariance, PTL DEF TypeInv

-----------------------------------------------------------------------------
(* The inductive invariants                                                *)

\* Why an end of file is the end of the file: the buffer of a writer that has been closed
\* is empty unless nobody could read any more, and what has been read to its end was not
\* written or opened again.
OutputInv ==
    /\ \A p \in Pipes : pipe[p].r /\ ~pipe[p].w => ~pipe[p].buf
    /\ \A d \in Downloads : Alone(d) /\ JobOf[d] \notin Buffered /\ download[d].eof
          => ~pipe[<<d, 1>>].w /\ pipe[<<d, 1>>].got = pipe[<<d, 1>>].put

\* The handler of a download that has begun has taken its job out of the table.
BegunInv == \A d \in Downloads : Alone(d) /\ download[d].get = "copying" => jobs[JobOf[d]] = None

\* A pipe that can be written but not read is being closed.
HalfClosedInv ==
    \A j \in Outputs : job[j].run # "none" /\ pipe[Output(j)].w /\ ~pipe[Output(j)].r
        => \E d \in Downloads : JobOf[d] = j /\ "close_w" \in {download[d].get, download[d].timer}

\* A file is copied into an open pipe; a pipe that has been closed has the whole file,
\* unless the connection was lost or the job had closed its side.
CopiedInv ==
    \A u \in Uploads :
        /\ upload[u].pc = "copying" => pipe[<<u, upload[u].part>>].w
        /\ \A i \in 1..upload[u].part : i < upload[u].part \/ upload[u].pc \in {"next", "ok"}
              => /\ ~pipe[<<u, i>>].w
                 /\ pipe[<<u, i>>].put = Chunks[JobOf[u]] \/ ~pipe[<<u, i>>].r
        /\ upload[u].pc = "ok" => upload[u].part = Files[u]

\* The pipes of a method that reads are open: close_pipes comes after the method.
ReadableInv ==
    \A j \in Inputs :
        /\ job[j].method \in {"read", "get"} => job[j].run = "body"
        /\ job[j].run \in {"queued", "body"}
              => \A i \in 1..upload[job[j].creator].part : pipe[<<job[j].creator, i>>].r
        /\ job[j].finished => job[j].method = "over"

\* The method is done with the i-th pipe: it asks for the next one or has asked for it.
Passed(j, i) == i < job[j].pos \/ (i = job[j].pos /\ (job[j].method = "get" \/ job[j].finished))

\* A method passes a pipe only after the whole file, or after an error of the upload, and
\* ends only when the upload has ended and no pipe is left.
PassedInv ==
    \A j \in Iterates : job[j].run # "none" => LET u == job[j].creator IN
        /\ \A i \in 1..MAX_UPLOADED_FILES : Passed(j, i) =>
              /\ ~pipe[<<u, i>>].w /\ pipe[<<u, i>>].got = pipe[<<u, i>>].put
              /\ pipe[<<u, i>>].put = Chunks[j] \/ upload[u].pc = "error"
        /\ job[j].finished => Exited(u) /\ job[j].pos = upload[u].part

InputInv == CopiedInv /\ ReadableInv /\ PassedInv

-----------------------------------------------------------------------------
(* Downloads                                                               *)

\* The only call for a job gives it its pipe.
LEMMA AloneOutput ==
    ASSUME TypeInv, NEW d \in Downloads, Alone(d), job[JobOf[d]].run # "none"
    PROVE  Output(JobOf[d]) = <<d, 1>> /\ <<d, 1>> \in Pipes
<1>1. JobOf[d] \in Jobs /\ JobOf[d] \in Outputs
  BY FileJobsAssumption, Zenon DEF Outputs, Calls
<1>2. job[JobOf[d]].creator \in Downloads /\ JobOf[job[JobOf[d]].creator] = JobOf[d] /\ Output(JobOf[d]) \in Pipes
  BY <1>1, OutputFacts, Zenon
<1>3. job[JobOf[d]].creator = d
  BY <1>2, Zenon DEF Alone, Calls
<1> QED
  BY <1>2, <1>3, Zenon DEF Output

\* download(): what a handler counts as read of an output stays tied to what was written.
LEMMA OutputStep == ASSUME TypeInv, OutputInv, [Next]_vars PROVE OutputInv'
<1>0. /\ pipe \in [Pipes -> PipeType] /\ pipe' \in [Pipes -> PipeType]
      /\ \A p \in Pipes : PipeStep(p)
      /\ \A d \in Downloads : DownloadStepOf(d)
  BY PipeSteps, DownloadSteps, Zenon DEF TypeInv, TypeOK, CallsStep
<1>1. ASSUME NEW p \in Pipes, pipe'[p].r, ~pipe'[p].w PROVE ~pipe'[p].buf
  <2>1. PipeStep(p) /\ (pipe[p].r /\ ~pipe[p].w => ~pipe[p].buf)
    BY <1>0, Zenon DEF OutputInv
  <2> QED
    BY Zenon, <1>1, <2>1 DEF PipeStep
<1>2. ASSUME NEW d \in Downloads, Alone(d), JobOf[d] \notin Buffered, download'[d].eof
      PROVE  ~pipe'[<<d, 1>>].w /\ pipe'[<<d, 1>>].got = pipe'[<<d, 1>>].put
  <2> DEFINE p == <<d, 1>>
  <2>1. download[d].eof \/ (download[d].get = "copying" /\ read_end(Output(JobOf[d]), d))
    BY <1>0, <1>2, Zenon DEF DownloadStepOf
  <2>2. p = Output(JobOf[d]) /\ p \in Pipes /\ p[1] = d /\ download[d].pc = "registered"
    BY <1>2, <2>1, DownloadFacts, AloneOutput, Zenon
  <2>3. /\ {pipe[p].put, pipe[p].got} \subseteq Nat /\ pipe[p].buf \in BOOLEAN
        /\ PipeStep(p) /\ Made(p)
    BY <1>0, <2>2 DEF PipeType, Made
  <2>4. CASE download[d].eof
    <3>1. ~pipe[p].w /\ pipe[p].got = pipe[p].put
      BY <1>2, <2>4, Zenon DEF OutputInv
    <3>2. ~(Content(p) > 0)
      BY <2>3, <3>1 DEF Content
    <3> QED
      BY <2>3, <3>1, <3>2, Zenon DEF PipeStep
  <2>5. CASE read_end(p, d)
    <3>1. ~IsFile(p)
      BY <1>2, <2>2, Zenon DEF IsFile
    <3>2. pipe[p].r /\ ~pipe[p].w /\ Content(p) = 0
      BY <2>5, <3>1, Zenon DEF read_end, AtEnd
    <3>3. ~pipe[p].buf
      BY <2>2, <3>2, Zenon DEF OutputInv
    <3>4. pipe[p].got = pipe[p].put
      BY <2>3, <3>2, <3>3 DEF Content
    <3>5. pipe'[p].w = pipe[p].w /\ pipe'[p].got = pipe[p].got /\ pipe'[p].put = pipe[p].put
      BY <1>0, <2>2, <2>5, ZenonT(120) DEF read_end, PipeType
    <3> QED
      BY <3>2, <3>4, <3>5, Zenon
  <2> QED
    BY <2>1, <2>2, <2>4, <2>5, Zenon
<1> QED
  BY <1>1, <1>2, Zenon DEF OutputInv, Alone

\* The invariant behind WholeOutputs: a handler sees the end of an output only after its
\* writing side is closed and everything in it is read.
LEMMA OutputInvariance == Spec => []OutputInv
<1>1. Init => OutputInv
  BY DEF Init, OutputInv
<1>2. TypeInv /\ OutputInv /\ [Next]_vars => OutputInv'
  BY OutputStep, Zenon
<1> QED
  BY <1>1, <1>2, TypeInvariance, PTL DEF Spec

\* download() and Pipe.close: a client that has read an unbuffered output to its end has
\* every chunk that the method has written, whoever has closed the pipe and when.
THEOREM WholeOutputs == Spec => []WholeOutput
<1>1. OutputInv => WholeOutput
  BY Zenon DEF OutputInv, WholeOutput
<1> QED
  BY <1>1, OutputInvariance, PTL

\* download() and the timer of register_job: of a call that is alone, a begun request has
\* taken the entry of the table, so the timer leaves the pipe alone.
LEMMA BegunInvariance == Spec => []BegunInv
<1>1. Init => BegunInv
  BY DEF Init, BegunInv
<1>2. TypeInv /\ BegunInv /\ [Next]_vars => BegunInv'
  <2> SUFFICES ASSUME TypeInv, BegunInv, [Next]_vars, NEW d \in Downloads, Alone(d), download'[d].get = "copying"
               PROVE  jobs'[JobOf[d]] = None
    BY Zenon DEF BegunInv, Alone
  <2>1. DownloadStepOf(d) /\ TableStep /\ JobOf[d] \in Jobs
    BY DownloadSteps, FileJobsAssumption, Zenon DEF CallsStep, Calls
  <2>2. CASE download[d].get = "copying"
    <3>1. jobs[JobOf[d]] = None /\ download[d].pc = "registered"
      BY <2>2, DownloadFacts, Zenon DEF BegunInv
    <3>2. \A e \in Downloads : JobOf[e] = JobOf[d] => e = d
      BY Zenon DEF Alone, Calls
    <3> QED
      BY <2>1, <3>1, <3>2, Zenon DEF TableStep
  <2> QED
    BY <2>1, <2>2, Zenon DEF DownloadStepOf
<1> QED
  BY <1>1, <1>2, TypeInvariance, PTL DEF Spec

\* _cleanup_cancel: once a client has begun to download, no timer begins a cleanup of its
\* job and nobody but the handler closes the pipe it reads.
THEOREM BegunLeftAlone == Spec => BegunIsLeftAlone
<1>1. TypeInv /\ BegunInv /\ [Next]_vars => [BegunStep]_vars
  <2> SUFFICES ASSUME TypeInv, BegunInv, [Next]_vars, NEW d \in Downloads, Alone(d),
                      download[d].get = "copying", download[d].timer # "close_r"
               PROVE  download'[d].timer # "close_r" /\ pipe'[<<d, 1>>].r = pipe[<<d, 1>>].r
    BY Zenon DEF BegunStep
  <2> DEFINE p == <<d, 1>>
  <2>1. jobs[JobOf[d]] = None /\ DownloadStepOf(d)
    BY DownloadSteps, Zenon DEF BegunInv, CallsStep
  <2>2. download'[d].timer # "close_r"
    BY <2>1, Zenon DEF DownloadStepOf
  <2>3. /\ p \in Pipes /\ PipeStep(p) /\ Made(p) /\ p[1] \notin Uploads
    BY DownloadFacts, AloneOutput, PipeSteps, FileJobsAssumption, Zenon DEF Made
  <2>4. ASSUME NEW e \in Downloads, p = Output(JobOf[e]), "close_r" \in {download[e].get, download[e].timer}
        PROVE  FALSE
    <3>1. JobOf[e] \in Jobs /\ JobOf[e] \in Outputs /\ job[JobOf[e]].run # "none"
      BY <2>4, DownloadFacts, Zenon
    <3>2. JobOf[job[JobOf[e]].creator] = JobOf[e] /\ job[JobOf[e]].creator = d
      BY Zenon, <2>4, <3>1, OutputFacts DEF Output
    <3>3. e = d
      BY <3>2, Zenon DEF Alone, Calls
    <3> QED
      BY <2>4, <3>3, Zenon
  <2>5. pipe'[p].r = pipe[p].r
    BY <2>3, <2>4, Zenon DEF PipeStep
  <2> QED
    BY <2>2, <2>5, Zenon
<1> QED
  BY <1>1, TypeInvariance, BegunInvariance, PTL DEF Spec, BegunIsLeftAlone

\* Pipe.close: an output that is half closed is in the hands of a handler or a timer that
\* is about to close the other side.
LEMMA HalfClosedInvariance == Spec => []HalfClosedInv
<1>1. Init => HalfClosedInv
  BY FileJobsAssumption DEF Init, HalfClosedInv, Outputs, Calls
<1>2. TypeInv /\ HalfClosedInv /\ [Next]_vars => HalfClosedInv'
  <2> SUFFICES ASSUME TypeInv, HalfClosedInv, [Next]_vars, NEW j \in Outputs, job'[j].run # "none",
                      pipe'[Output(j)'].w, ~pipe'[Output(j)'].r
               PROVE  \E d \in Downloads : JobOf[d] = j /\ "close_w" \in {download'[d].get, download'[d].timer}
    BY Zenon DEF HalfClosedInv
  <2>0. j \in Jobs
    BY FileJobsAssumption, Zenon DEF Outputs, Calls
  <2>1. JobStepOf(j)
    BY <2>0, JobSteps, Zenon
  <2>2. job[j].run # "none" /\ job'[j].creator = job[j].creator
    <3>1. ~Created(j)
      BY Zenon DEF Created, Output
    <3> QED
      BY <2>1, <3>1, Zenon DEF JobStepOf
  <2> DEFINE p == Output(j)
  <2>3. Output(j)' = p /\ p \in Pipes /\ JobOf[p[1]] = j /\ p[1] \in Downloads
    BY <2>0, <2>2, OutputFacts, Zenon DEF Output
  <2>4. PipeStep(p) /\ p[1] \notin Uploads
    BY <2>3, PipeSteps, FileJobsAssumption, Zenon
  <2>5. CASE \E d \in Downloads : /\ p = Output(JobOf[d])
                                  /\ "close_r" \in {download[d].get, download[d].timer}
                                  /\ "close_w" \in {download'[d].get, download'[d].timer}
    <3>1. PICK d \in Downloads : /\ p = Output(JobOf[d])
                                 /\ "close_r" \in {download[d].get, download[d].timer}
                                 /\ "close_w" \in {download'[d].get, download'[d].timer}
      BY <2>5, Zenon
    <3>2. JobOf[d] \in Jobs /\ JobOf[d] \in Outputs /\ job[JobOf[d]].run # "none"
      BY <3>1, DownloadFacts, Zenon
    <3>3. JobOf[p[1]] = JobOf[d]
      BY Zenon, <3>1, <3>2, OutputFacts DEF Output
    <3> QED
      BY <2>3, <3>1, <3>3, Zenon
  <2>6. CASE pipe[p].w /\ ~pipe[p].r
    <3>1. PICK d \in Downloads : JobOf[d] = j /\ "close_w" \in {download[d].get, download[d].timer}
      BY <2>2, <2>6, Zenon DEF HalfClosedInv
    <3>2. DownloadStepOf(d)
      BY DownloadSteps, Zenon DEF CallsStep
    <3> QED
      BY <2>3, <3>1, <3>2, Zenon DEF DownloadStepOf
  <2> QED
    BY <2>3, <2>4, <2>5, <2>6, Zenon DEF PipeStep
<1> QED
  BY <1>1, <1>2, TypeInvariance, PTL DEF Spec

\* close_pipes: Job.run dies in w.close(), before release_lock, only while a handler or a
\* timer has closed the reading side of the pipe and not yet the other one.
THEOREM DeathBetweenCloses == Spec => DiesBetweenCloses
<1>1. TypeInv /\ HalfClosedInv /\ [Next]_vars => [DeathStep]_vars
  <2> SUFFICES ASSUME TypeInv, HalfClosedInv, [Next]_vars, NEW j \in Jobs, job'[j].run = "dead", job[j].run # "dead"
               PROVE  \E d \in Downloads : JobOf[d] = j /\ "close_w" \in {download[d].get, download[d].timer}
    BY Zenon DEF DeathStep
  <2>1. JobStepOf(j)
    BY JobSteps, Zenon
  <2>2. j \in Outputs /\ Broken(Output(j)) /\ job[j].run # "none"
    BY <2>1, Zenon DEF JobStepOf, Created, RunMoves, Starts, MethodMoves
  <2> QED
    BY <2>2, Zenon DEF HalfClosedInv, Broken
<1> QED
  BY <1>1, TypeInvariance, HalfClosedInvariance, PTL DEF Spec, DiesBetweenCloses

-----------------------------------------------------------------------------
(* Uploads                                                                 *)

\* upload(): a file whose pipe the handler has closed was copied whole, or its reader has
\* left.
LEMMA CopiedStep == ASSUME TypeInv, CopiedInv, [Next]_vars PROVE CopiedInv'
<1> SUFFICES ASSUME NEW u \in Uploads
             PROVE  /\ upload'[u].pc = "copying" => pipe'[<<u, upload'[u].part>>].w
                    /\ \A i \in 1..upload'[u].part : i < upload'[u].part \/ upload'[u].pc \in {"next", "ok"}
                          => /\ ~pipe'[<<u, i>>].w
                             /\ pipe'[<<u, i>>].put = Chunks[JobOf[u]] \/ ~pipe'[<<u, i>>].r
                    /\ upload'[u].pc = "ok" => upload'[u].part = Files[u]
  BY Zenon DEF CopiedInv
<1> DEFINE n == upload[u].part
           p == <<u, n>>
<1>0. /\ n \in 0..MAX_UPLOADED_FILES /\ upload'[u].part \in 0..MAX_UPLOADED_FILES /\ n <= upload'[u].part
      /\ upload[u].pc = "new" <=> n = 0
  BY UploadSteps, PartsGrow, Zenon DEF TypeInv, TypeOK, UploadType, CallInv
<1>1. ASSUME NEW i \in 1..MAX_UPLOADED_FILES
      PROVE  /\ <<u, i>> \in Pipes /\ PipeStep(<<u, i>>) /\ (i <= n => Made(<<u, i>>))
             /\ pipe[<<u, i>>] \in PipeType /\ pipe[<<u, i>>].put <= Chunks[JobOf[u]]
  <2>1. <<u, i>> \in Pipes
    BY Zenon DEF Pipes, Calls
  <2> QED
    BY <2>1, PipeSteps, Zenon DEF Made, TypeInv, TypeOK
<1>2. UploadStepOf(u) /\ Chunks[JobOf[u]] \in Nat /\ u \notin Downloads
  BY UploadSteps, FileJobsAssumption, Zenon DEF Calls
<1>3. upload'[u].pc = "copying" => pipe'[<<u, upload'[u].part>>].w
  <2>1. CASE upload'[u] = upload[u] /\ upload[u].pc = "copying"
    <3>1. pipe[p].w /\ p \in Pipes /\ PipeStep(p)
      BY <1>0, <1>1, <2>1 DEF CopiedInv
    <3> QED
      BY Zenon, <2>1, <3>1 DEF PipeStep
  <2> QED
    BY <1>2, <2>1, Zenon DEF UploadStepOf
<1>4. ASSUME NEW i \in 1..upload'[u].part, i < upload'[u].part \/ upload'[u].pc \in {"next", "ok"}
      PROVE  ~pipe'[<<u, i>>].w /\ (pipe'[<<u, i>>].put = Chunks[JobOf[u]] \/ ~pipe'[<<u, i>>].r)
  <2> DEFINE q == <<u, i>>
  <2>0. i \in 1..MAX_UPLOADED_FILES
    BY <1>0, FileJobsAssumption
  <2>1. PipeStep(q) /\ q[1] = u /\ (i <= n => Made(q)) /\ pipe[q].put \in Nat /\ pipe[q].put <= Chunks[JobOf[u]]
    BY <1>1, <2>0, Zenon DEF PipeType
  <2>2. CASE i \in 1..n /\ (i < n \/ upload[u].pc \in {"next", "ok"})
    <3>1. ~pipe[q].w /\ (pipe[q].put = Chunks[JobOf[u]] \/ ~pipe[q].r)
      BY Zenon, <2>2 DEF CopiedInv
    <3>2. Made(q)
      BY <1>0, <2>1, <2>2
    <3> QED
      BY <2>1, <3>1, <3>2, Zenon DEF PipeStep
  <2>3. CASE i = n /\ upload[u].pc = "copying"
    <3>1. /\ ~pipe'[q].w /\ pipe'[q].r = pipe[q].r /\ pipe'[q].put = pipe[q].put
          /\ ~(pipe[q].put < Chunks[JobOf[u]]) \/ WriteRaises(q)
      BY <1>0, <1>2, <1>4, <2>3 DEF UploadStepOf
    <3>2. pipe[q].w
      BY <2>3, Zenon DEF CopiedInv
    <3> QED
      BY <1>2, <2>1, <3>1, <3>2 DEF WriteRaises, Broken
  <2>4. i <= n /\ (i < n \/ upload[u].pc \in {"next", "ok", "copying"})
    BY <1>0, <1>2, <1>4 DEF UploadStepOf
  <2> QED
    BY <1>0, <2>0, <2>2, <2>3, <2>4
<1>5. upload'[u].pc = "ok" => upload'[u].part = Files[u]
  BY Zenon, <1>2 DEF UploadStepOf, CopiedInv
<1> QED
  BY <1>3, <1>4, <1>5, Zenon

\* An input stays readable until the method of its job is over.
LEMMA ReadableStep == ASSUME TypeInv, ReadableInv, [Next]_vars PROVE ReadableInv'
<1> SUFFICES ASSUME NEW j \in Inputs
             PROVE  /\ job'[j].method \in {"read", "get"} => job'[j].run = "body"
                    /\ job'[j].run \in {"queued", "body"}
                          => \A i \in 1..upload'[job'[j].creator].part : pipe'[<<job'[j].creator, i>>].r
                    /\ job'[j].finished => job'[j].method = "over"
  BY Zenon DEF ReadableInv
<1>0. j \in Jobs /\ j \notin Outputs /\ j \notin Coroutines
  BY FileJobsAssumption, ZenonT(120) DEF Inputs, Outputs, Calls
<1>1. JobStepOf(j) /\ JobOK(j)
  BY <1>0, JobSteps, Zenon DEF TypeInv, JobInv
<1>2. /\ job'[j].method \in {"read", "get"} => job'[j].run = "body"
      /\ job'[j].finished => job'[j].method = "over"
  <2>1. /\ job[j].method \in {"read", "get"} => job[j].run = "body"
        /\ job[j].finished => job[j].method = "over"
    BY Zenon DEF ReadableInv
  <2>2. CASE job'[j] = job[j]
    BY <2>1, <2>2, Zenon
  <2>3. CASE Created(j) \/ RunMoves(j)
    BY <1>0, <1>1, <2>1, <2>3, Zenon DEF Created, RunMoves, JobOK
  <2>4. CASE Starts(j)
    BY <1>1, <2>1, <2>4, Zenon DEF Starts, JobOK
  <2>5. CASE MethodMoves(j)
    BY <2>1, <2>5, Zenon DEF MethodMoves
  <2> QED
    BY <1>1, <2>2, <2>3, <2>4, <2>5, Zenon DEF JobStepOf
<1>3. ASSUME job'[j].run \in {"queued", "body"}, NEW i \in 1..upload'[job'[j].creator].part
      PROVE  pipe'[<<job'[j].creator, i>>].r
  <2>1. CASE Created(j)
    <3>1. job'[j].creator \in Uploads
      BY <2>1, FileJobsAssumption, SMTT(60) DEF Created, Calls, Inputs, Outputs
    <3>2. i = 1
      BY <1>3, <2>1, <3>1 DEF Created
    <3> QED
      BY <2>1, <3>2, Zenon DEF Created
  <2>2. CASE ~Created(j)
    <3> DEFINE u == job[j].creator
               p == <<u, i>>
    <3>1. job[j].run \in {"queued", "body"} /\ job'[j].creator = u
      BY <1>1, <1>3, <2>2, Zenon DEF JobStepOf, RunMoves, Starts, MethodMoves
    <3>2. u \in Uploads /\ JobOf[u] = j
      BY <1>0, <3>1, InputFacts, Zenon
    <3>3. /\ UploadStepOf(u) /\ upload[u].part \in Nat /\ upload'[u].part \in 0..MAX_UPLOADED_FILES
          /\ MAX_UPLOADED_FILES \in Nat
      BY <3>2, UploadSteps, PartsGrow, FileJobsAssumption, Zenon DEF UploadType
    <3>4. i \in 1..MAX_UPLOADED_FILES /\ i \in 1..upload'[u].part
      BY <1>3, <3>1, <3>3
    <3>5. p \in Pipes /\ p[1] = u /\ PipeStep(p) /\ u \notin Downloads
      BY <3>2, <3>4, PipeSteps, FileJobsAssumption, Zenon DEF Pipes, Calls
    <3>6. CASE i <= upload[u].part
      <4>1. pipe[p].r
        BY <3>1, <3>3, <3>4, <3>6 DEF ReadableInv
      <4>2. ASSUME NEW d \in Downloads, p = Output(JobOf[d]), "close_r" \in {download[d].get, download[d].timer}
            PROVE  FALSE
        BY <3>5, <4>2, DownloadFacts, OutputFacts, Zenon DEF Output
      <4> QED
        BY ZenonT(120), <3>1, <3>2, <3>5, <4>1, <4>2 DEF PipeStep
    <3>7. CASE ~(i <= upload[u].part)
      <4>1. \/ upload'[u].part = upload[u].part
            \/ upload'[u].part = upload[u].part + 1 /\ pipe'[<<u, upload[u].part + 1>>].r
        BY <3>3, Zenon DEF UploadStepOf
      <4>2. i = upload[u].part + 1 /\ upload'[u].part # upload[u].part
        BY <3>3, <3>4, <3>7, <4>1
      <4> QED
        BY <3>1, <4>1, <4>2, Zenon
    <3> QED
      BY <3>1, <3>6, <3>7, Zenon
  <2> QED
    BY <2>1, <2>2, Zenon
<1> QED
  BY <1>2, <1>3, Zenon

\* Of the parts of an upload the first n exist.
LEMMA PartsSoFar ==
    ASSUME NEW m \in Nat, NEW i \in 1..m, NEW n \in 0..m, i <= n
    PROVE  i \in 1..n /\ i # 0 /\ (i < n \/ i = n)
  OBVIOUS

\* A method that has come to the end of an input has the whole file, or the upload failed.
LEMMA WholeFile ==
    ASSUME TypeInv, OutputInv, CopiedInv, NEW j \in Inputs, job[j].run # "none", read_end(Input(j), j)
    PROVE  LET p == Input(j) IN
           /\ ~pipe[p].w /\ pipe[p].got = pipe[p].put
           /\ pipe[p].put = Chunks[j] \/ upload[job[j].creator].pc = "error"
<1> DEFINE u == job[j].creator
           i == job[j].pos
           p == <<u, i>>
<1>0. j \in Jobs /\ j \notin Buffered
  BY FileJobsAssumption, ZenonT(120) DEF Inputs, Outputs, Calls
<1>1. u \in Uploads /\ JobOf[u] = j /\ i \in 1..MAX_UPLOADED_FILES /\ p \in Pipes /\ p = Input(j) /\ p[1] = u
  BY <1>0, InputFacts, Zenon DEF Input
<1>2. pipe[p].r /\ ~pipe[p].w /\ Content(p) = 0
  BY <1>0, <1>1, Zenon DEF read_end, AtEnd, IsFile
<1>3. ~pipe[p].buf /\ pipe[p] \in PipeType
  BY <1>1, <1>2, Zenon DEF OutputInv, TypeInv, TypeOK
<1>4. pipe[p].got = pipe[p].put
  BY <1>2, <1>3 DEF Content, PipeType
<1>5. /\ upload[u] \in UploadType /\ i <= upload[u].part /\ (upload[u].pc = "new" <=> upload[u].part = 0)
  BY <1>0, <1>1, Zenon DEF TypeInv, TypeOK, JobInv, JobOK, CallInv
<1>6. upload[u].part \in 0..MAX_UPLOADED_FILES /\ upload[u].pc \in {"new", "copying", "next", "ok", "error"}
  BY <1>5, Zenon DEF UploadType
<1> SUFFICES /\ ~pipe[p].w /\ pipe[p].got = pipe[p].put
             /\ pipe[p].put = Chunks[j] \/ upload[u].pc = "error"
  BY <1>1, ZenonT(120)
<1>a. p = <<u, i>> /\ u \in Uploads /\ JobOf[u] = j
  BY <1>1, ZenonT(120)
<1> HIDE DEF u, i, p
<1>7. i \in 1..upload[u].part /\ i # 0 /\ (i < upload[u].part \/ i = upload[u].part)
  <2>1. MAX_UPLOADED_FILES \in Nat
    BY FileJobsAssumption, ZenonT(120)
  <2>2. i \in 1..MAX_UPLOADED_FILES /\ upload[u].part \in 0..MAX_UPLOADED_FILES /\ i <= upload[u].part
    BY <1>1, <1>5, <1>6, ZenonT(120)
  <2> QED
    BY <2>1, <2>2, PartsSoFar, ZenonT(120)
<1>8. CASE i < upload[u].part \/ upload[u].pc \in {"next", "ok"}
  <2>1. pipe[<<u, i>>].put = Chunks[JobOf[u]] \/ ~pipe[<<u, i>>].r
    BY <1>a, <1>7, <1>8, ZenonT(120) DEF CopiedInv
  <2> QED
    BY <1>a, <1>2, <1>4, <2>1, ZenonT(120)
<1>9. CASE i = upload[u].part /\ upload[u].pc \in {"new", "copying", "error"}
  <2>1. upload[u].pc = "copying" => pipe[<<u, i>>].w
    BY <1>a, <1>9, ZenonT(120) DEF CopiedInv
  <2> QED
    BY <1>a, <1>2, <1>4, <1>5, <1>7, <1>9, <2>1, ZenonT(120)
<1> QED
  BY <1>6, <1>7, <1>8, <1>9, ZenonT(120)

\* A method that goes from one input to the next has read the one before to its end.
LEMMA PassedStep == ASSUME TypeInv, OutputInv, InputInv, [Next]_vars PROVE PassedInv'
<1> SUFFICES ASSUME NEW j \in Iterates, job'[j].run # "none"
             PROVE  LET u == job'[j].creator IN
                    /\ \A i \in 1..MAX_UPLOADED_FILES : Passed(j, i)' =>
                          /\ ~pipe'[<<u, i>>].w /\ pipe'[<<u, i>>].got = pipe'[<<u, i>>].put
                          /\ pipe'[<<u, i>>].put = Chunks[j] \/ upload'[u].pc = "error"
                    /\ job'[j].finished => upload'[u].pc \in {"ok", "error"} /\ job'[j].pos = upload'[u].part
  BY Zenon DEF PassedInv, Exited
<1>0. j \in Jobs /\ j \in Inputs /\ j \notin Outputs
  BY FileJobsAssumption DEF Inputs, Outputs, Calls
<1>1. JobStepOf(j) /\ JobOK(j) /\ job[j] \in JobType /\ job'[j] \in JobType
  BY <1>0, JobSteps, Zenon DEF TypeInv, TypeOK, JobInv
<1>2. job[j].pos \in 1..MAX_UPLOADED_FILES /\ job'[j].pos \in 1..MAX_UPLOADED_FILES
  BY <1>1, Zenon DEF JobType
<1>3. job[j].finished => job[j].method = "over"
  BY <1>0, Zenon DEF InputInv, ReadableInv
<1>4. CASE Created(j)
  <2>1. ~job'[j].finished /\ job'[j].method # "get" /\ job'[j].pos = 1
    BY <1>1, <1>3, <1>4, Zenon DEF Created, JobOK
  <2>2. \A i \in 1..MAX_UPLOADED_FILES : ~Passed(j, i)'
    BY <2>1 DEF Passed
  <2> QED
    BY <2>1, <2>2, Zenon
<1>5. CASE ~Created(j)
  <2> DEFINE u == job[j].creator
  <2>1. job[j].run # "none" /\ job'[j].creator = u
    BY <1>1, <1>5, Zenon DEF JobStepOf
  <2>2. u \in Uploads /\ JobOf[u] = j /\ job[j].pos <= upload[u].part
    BY <1>0, <1>1, <2>1, InputFacts, Zenon DEF JobOK
  <2>3. UploadStepOf(u) /\ upload[u].part \in Nat
    BY <2>2, UploadSteps, PartsGrow, Zenon
  <2>4. upload[u].pc \in {"ok", "error"} => upload'[u] = upload[u]
    BY <2>3, Zenon DEF UploadStepOf
  <2>5. ASSUME NEW i \in 1..MAX_UPLOADED_FILES, Passed(j, i)'
        PROVE  /\ ~pipe'[<<u, i>>].w /\ pipe'[<<u, i>>].got = pipe'[<<u, i>>].put
               /\ pipe'[<<u, i>>].put = Chunks[j] \/ upload'[u].pc = "error"
    <3> DEFINE p == <<u, i>>
    <3>0. p \in Pipes /\ p[1] = u /\ p[2] = i /\ PipeStep(p) /\ pipe[p] \in PipeType
      BY <2>2, PipeSteps, Zenon DEF Pipes, Calls, TypeInv, TypeOK
    <3>1. Passed(j, i) \/ (i = job[j].pos /\ read_end(Input(j), j))
      <4>0. i < job'[j].pos \/ (i = job'[j].pos /\ (job'[j].method = "get" \/ job'[j].finished))
        BY <2>5, Zenon DEF Passed
      <4>1. CASE job'[j] = job[j]
        BY <4>0, <4>1, Zenon DEF Passed
      <4>2. CASE RunMoves(j) \/ Starts(j)
        BY <1>0, <4>0, <4>2, Zenon DEF Passed, RunMoves, Starts
      <4>3. CASE MethodMoves(j)
        BY <1>2, <1>3, <4>0, <4>3 DEF Passed, MethodMoves
      <4> QED
        BY <1>1, <1>5, <4>1, <4>2, <4>3, Zenon DEF JobStepOf
    <3>2. i <= job[j].pos
      BY <1>2, <3>1 DEF Passed
    <3>3. Made(p)
      BY <1>2, <2>2, <2>3, <3>0, <3>2 DEF Made
    <3>4. /\ ~pipe[p].w /\ pipe[p].got = pipe[p].put
          /\ pipe[p].put = Chunks[j] \/ upload[u].pc = "error"
      <4>1. CASE Passed(j, i)
        BY <2>1, <4>1, Zenon DEF InputInv, PassedInv
      <4>2. CASE i = job[j].pos /\ read_end(Input(j), j)
        <5>1. p = Input(j)
          BY <4>2, Zenon DEF Input
        <5> QED
          BY <1>0, <2>1, <4>2, <5>1, WholeFile, Zenon DEF InputInv
      <4> QED
        BY <3>1, <4>1, <4>2, Zenon
    <3>5. ~(Content(p) > 0)
      BY <3>0, <3>4 DEF Content, PipeType
    <3>6. ~pipe'[p].w /\ pipe'[p].got = pipe[p].got /\ pipe'[p].put = pipe[p].put
      BY Zenon, <3>0, <3>3, <3>4, <3>5 DEF PipeStep
    <3> QED
      BY <2>4, <3>4, <3>6, Zenon
  <2>6. ASSUME job'[j].finished
        PROVE  upload'[u].pc \in {"ok", "error"} /\ job'[j].pos = upload'[u].part
    <3>1. CASE job[j].finished
      <4>1. job'[j].pos = job[j].pos
        BY Zenon, <1>1, <1>3, <1>5, <3>1 DEF JobStepOf, RunMoves, Starts, MethodMoves
      <4>2. Exited(u) /\ job[j].pos = upload[u].part
        BY <2>1, <3>1, Zenon DEF InputInv, PassedInv
      <4> QED
        BY <2>4, <4>1, <4>2, Zenon DEF Exited
    <3>2. CASE ~job[j].finished
      <4>1. Exited(u) /\ job'[j].pos = job[j].pos /\ upload[u].part <= job[j].pos
        BY Zenon, <1>1, <1>5, <2>6, <3>2 DEF JobStepOf, RunMoves, Starts, MethodMoves
      <4>2. job[j].pos = upload[u].part
        BY <1>2, <2>2, <2>3, <4>1
      <4> QED
        BY <2>4, <4>1, <4>2, Zenon DEF Exited
    <3> QED
      BY <3>1, <3>2, Zenon
  <2> QED
    BY <2>1, <2>5, <2>6, Zenon
<1> QED
  BY <1>4, <1>5, Zenon

\* The invariant behind WholeUploads.
LEMMA InputInvariance == Spec => []InputInv
<1>1. Init => InputInv
  <2> SUFFICES ASSUME Init PROVE InputInv
    OBVIOUS
  <2>1. CopiedInv
    BY DEF Init, CopiedInv
  <2>2. ReadableInv /\ PassedInv
    <3>1. Inputs \subseteq Jobs /\ Iterates \subseteq Jobs
      <4>1. \A c \in Calls : JobOf[c] \in Jobs
        BY FileJobsAssumption, ZenonT(120)
      <4>2. Inputs \subseteq Jobs
        BY <4>1, ZenonT(120) DEF Inputs, Calls
      <4> QED
        BY <4>2, FileJobsAssumption, ZenonT(120)
    <3>2. \A j \in Jobs : job[j].run = "none" /\ job[j].method = "none" /\ job[j].finished = FALSE
      BY ZenonT(120) DEF Init
    <3> QED
      BY <3>1, <3>2, ZenonT(120) DEF ReadableInv, PassedInv
  <2> QED
    BY <2>1, <2>2, Zenon DEF InputInv
<1>2. TypeInv /\ OutputInv /\ InputInv /\ [Next]_vars => InputInv'
  BY CopiedStep, ReadableStep, PassedStep, Zenon DEF InputInv
<1> QED
  BY <1>1, <1>2, TypeInvariance, OutputInvariance, PTL DEF Spec

\* InputPipes.__iter__ and upload(): a method that has iterated to the end, for a request
\* that was answered with the job's id, has read every chunk of every file of the request.
THEOREM WholeUploads == Spec => []WholeInputs
<1>1. TypeInv /\ InputInv => WholeInputs
  <2> SUFFICES ASSUME TypeInv, InputInv, NEW u \in Uploads, upload[u].pc = "ok", job[JobOf[u]].creator = u,
                      job[JobOf[u]].finished, JobOf[u] \in Iterates, NEW i \in 1..Files[u]
               PROVE  pipe[<<u, i>>].got = Chunks[JobOf[u]]
    BY Zenon DEF WholeInputs
  <2> DEFINE j == JobOf[u]
  <2>1. j \in Jobs /\ j \in Inputs
    BY FileJobsAssumption, Zenon DEF Inputs, Calls
  <2>2. job[j].method = "over" /\ job[j].run # "none"
    BY <2>1, Zenon DEF InputInv, ReadableInv, TypeInv, JobInv, JobOK
  <2>3. job[j].pos = upload[u].part /\ upload[u].part = Files[u]
    <3>1. job[j].pos = upload[u].part
      BY <2>2, Zenon DEF InputInv, PassedInv
    <3> QED
      BY Zenon, <3>1 DEF InputInv, CopiedInv
  <2>4. job[j].pos \in 1..MAX_UPLOADED_FILES
    BY <2>1, Zenon DEF TypeInv, TypeOK, JobType
  <2>5. i \in 1..MAX_UPLOADED_FILES /\ Passed(j, i)
    BY <2>3, <2>4, FileJobsAssumption DEF Passed
  <2> QED
    BY <2>2, <2>5, ZenonT(120) DEF InputInv, PassedInv
<1> QED
  BY <1>1, TypeInvariance, InputInvariance, PTL

=============================================================================
