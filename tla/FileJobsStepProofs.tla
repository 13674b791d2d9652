------------------------- MODULE FileJobsStepProofs -------------------------
(* Files that go to and come from jobs: what a step may do to a pipe, a    *)
(* job and a call, for any calls, jobs, files and pipe capacity.           *)
EXTENDS FileJobs, TLAPS

-----------------------------------------------------------------------------
(* The type invariant                                                      *)

\* What makes TypeOK inductive: a job that exists has the pipes of one of its calls, a
\* method reads only inputs that add_pipe has made, and what is in w's buffer has not
\* been read.
PipeInv == \A p \in Pipes : pipe[p].got + (IF pipe[p].buf THEN 1 ELSE 0) <= pipe[p].put

JobOK(j) ==
    /\ job[j].run # "none" => job[j].creator \in Calls /\ JobOf[job[j].creator] = j
    /\ job[j].run = "none" => job[j].pos = 1
    /\ job[j].run \in {"none", "queued"} => job[j].method = "none"
    /\ job[j].method = "write" => j \in Outputs
    /\ job[j].method \in {"read", "get"} => j \in Inputs
    /\ job[j].run # "none" /\ j \in Inputs => job[j].pos <= upload[job[j].creator].part
JobInv == \A j \in Jobs : JobOK(j)

CallInv ==
    /\ \A u \in Uploads : upload[u].pc = "new" <=> upload[u].part = 0
    /\ \A d \in Downloads :
          /\ download[d].pc # "new" => job[JobOf[d]].run # "none"
          /\ download[d].timer # "none" \/ download[d].get # "none" \/ download[d].eof
                => download[d].pc = "registered"

TypeInv == TypeOK /\ PipeInv /\ JobInv /\ CallInv

-----------------------------------------------------------------------------
(* What the operations of a pipe do                                        *)

\* Only pipe p changes.
Only(p) == pipe' \in [Pipes -> PipeType] /\ \A q \in Pipes : q # p => pipe'[q] = pipe[q]

\* The constructor opens both sides.
LEMMA OpenFacts ==
    ASSUME NEW p \in Pipes, pipe \in [Pipes -> PipeType], open_pipe(p)
    PROVE  /\ Only(p) /\ pipe'[p].r /\ pipe'[p].w
           /\ pipe'[p].put = pipe[p].put /\ pipe'[p].got = pipe[p].got /\ pipe'[p].buf = pipe[p].buf
BY ZenonT(120) DEF open_pipe, Only, PipeType

\* w.write() adds a chunk.
LEMMA WriteFacts ==
    ASSUME NEW p \in Pipes, pipe \in [Pipes -> PipeType], write(p)
    PROVE  /\ Only(p) /\ pipe'[p].r = pipe[p].r /\ pipe'[p].w = pipe[p].w
           /\ pipe'[p].put = pipe[p].put + 1 /\ pipe'[p].got = pipe[p].got
<1> DEFINE b == ~IsFile(p)
           n == pipe[p].put + 1
           v == [pipe[p] EXCEPT !.put = n, !.buf = b]
<1>0. n \in Nat
  BY DEF PipeType
<1>1. b \in BOOLEAN
  BY Zenon DEF IsFile
<1>2. pipe' = [pipe EXCEPT ![p] = v]
  BY Zenon DEF write
<1>3. v \in PipeType /\ v.put = n /\ v.got = pipe[p].got /\ v.r = pipe[p].r /\ v.w = pipe[p].w
  <2> HIDE DEF b, n
  <2> QED
    BY Zenon, <1>0, <1>1 DEF PipeType
<1> HIDE DEF v
<1> QED
  BY <1>2, <1>3, Zenon DEF Only

\* w.close() closes w; what is in the buffer stays there only if nobody can read it.
LEMMA CloseWFacts ==
    ASSUME NEW p \in Pipes, pipe \in [Pipes -> PipeType], close_w(p)
    PROVE  /\ Only(p) /\ pipe'[p].r = pipe[p].r /\ ~pipe'[p].w
           /\ pipe'[p].put = pipe[p].put /\ pipe'[p].got = pipe[p].got
           /\ pipe'[p].buf => pipe[p].buf /\ (pipe[p].r => ~pipe[p].w)
<1> DEFINE b == Broken(p) \/ (pipe[p].buf /\ ~pipe[p].w)
           v == [pipe[p] EXCEPT !.w = FALSE, !.buf = b]
<1>1. b \in BOOLEAN /\ (b => pipe[p].buf /\ (pipe[p].r => ~pipe[p].w))
  BY Zenon DEF Broken
<1>2. pipe' = [pipe EXCEPT ![p] = v]
  BY Zenon DEF close_w
<1>3. /\ v \in PipeType /\ v.put = pipe[p].put /\ v.got = pipe[p].got /\ v.r = pipe[p].r
      /\ v.w = FALSE /\ v.buf = b
  <2> HIDE DEF b
  <2> QED
    BY ZenonT(120), <1>1 DEF PipeType
<1> HIDE DEF v, b
<1> QED
  BY <1>1, <1>2, <1>3, Zenon DEF Only

\* r.close() closes r and nothing else.
LEMMA CloseRFacts ==
    ASSUME NEW p \in Pipes, pipe \in [Pipes -> PipeType], close_r(p)
    PROVE  /\ Only(p) /\ ~pipe'[p].r /\ pipe'[p].w = pipe[p].w
           /\ pipe'[p].put = pipe[p].put /\ pipe'[p].got = pipe[p].got /\ pipe'[p].buf = pipe[p].buf
BY ZenonT(120) DEF close_r, Only, PipeType

\* r.read() takes at most a chunk, one that has left the buffer, and closes nothing.
LEMMA ReadFacts ==
    ASSUME NEW p \in Pipes, NEW t \in Jobs \cup Downloads, pipe \in [Pipes -> PipeType],
           read_blocks(p, t) \/ read_chunk(p, t) \/ read_end(p, t) \/ read_raises(p)
    PROVE  /\ Only(p) /\ pipe'[p].r = pipe[p].r /\ pipe'[p].w = pipe[p].w
           /\ pipe'[p].put = pipe[p].put /\ pipe'[p].buf = pipe[p].buf
           /\ \/ pipe'[p].got = pipe[p].got
              \/ pipe'[p].got = pipe[p].got + 1 /\ Content(p) > 0
<1>1. CASE read_blocks(p, t)
  BY ZenonT(120), <1>1 DEF read_blocks, Only, PipeType
<1>2. CASE read_chunk(p, t)
  <2> DEFINE n == pipe[p].got + 1
             v == [pipe[p] EXCEPT !.got = n, !.reader = None]
  <2>0. n \in Nat
    BY DEF PipeType
  <2>1. pipe' = [pipe EXCEPT ![p] = v]
    BY <1>2, Zenon DEF read_chunk
  <2>2. /\ v \in PipeType /\ v.put = pipe[p].put /\ v.got = n /\ v.r = pipe[p].r
        /\ v.w = pipe[p].w /\ v.buf = pipe[p].buf
    <3> HIDE DEF n
    <3> QED
      BY ZenonT(120), <2>0 DEF PipeType
  <2>3. Content(p) > 0
    BY <1>2, Zenon DEF read_chunk
  <2> HIDE DEF v
  <2> QED
    BY <2>1, <2>2, <2>3, Zenon DEF Only
<1>3. CASE read_end(p, t)
  BY ZenonT(120), <1>3 DEF read_end, Only, PipeType
<1>4. CASE read_raises(p)
  BY <1>4, Zenon DEF read_raises, Only
<1> QED
  BY <1>1, <1>2, <1>3, <1>4, Zenon

-----------------------------------------------------------------------------
(* What a step does to a pipe                                              *)

\* The pipes of a job are those of a call for it.
LEMMA OutputFacts ==
    ASSUME TypeInv, NEW j \in Jobs, j \in Outputs, job[j].run # "none"
    PROVE  job[j].creator \in Downloads /\ JobOf[job[j].creator] = j /\ Output(j) \in Pipes
<1>1. job[j].creator \in Calls /\ JobOf[job[j].creator] = j
  BY Zenon DEF TypeInv, JobInv, JobOK
<1>2. job[j].creator \in Downloads
  BY <1>1, FileJobsAssumption DEF Outputs, Inputs, Calls
<1>3. 1 \in 1..MAX_UPLOADED_FILES
  BY FileJobsAssumption
<1> QED
  BY <1>1, <1>2, <1>3, Zenon DEF Output, Pipes

\* An input job was created by an upload and reads one of its pipes.
LEMMA InputFacts ==
    ASSUME TypeInv, NEW j \in Jobs, j \in Inputs, job[j].run # "none"
    PROVE  /\ job[j].creator \in Uploads /\ JobOf[job[j].creator] = j
           /\ job[j].pos \in 1..MAX_UPLOADED_FILES /\ Input(j) \in Pipes
<1>1. job[j].creator \in Calls /\ JobOf[job[j].creator] = j
  BY Zenon DEF TypeInv, JobInv, JobOK
<1>2. job[j].creator \in Uploads
  BY <1>1, FileJobsAssumption DEF Outputs, Inputs, Calls
<1>3. job[j].pos \in 1..MAX_UPLOADED_FILES
  BY Zenon DEF TypeInv, TypeOK, JobType
<1> QED
  BY <1>1, <1>2, <1>3, Zenon DEF Input, Pipes

\* A handler that has its URL has a job.
LEMMA DownloadFacts ==
    ASSUME TypeInv, NEW d \in Downloads,
           download[d].timer # "none" \/ download[d].get # "none" \/ download[d].eof
    PROVE  /\ download[d].pc = "registered" /\ JobOf[d] \in Jobs /\ JobOf[d] \in Outputs
           /\ job[JobOf[d]].run # "none"
BY FileJobsAssumption, Zenon DEF TypeInv, CallInv, Outputs, Calls

\* The pipe has been opened.
Made(p) == \/ p[1] \in Downloads /\ download[p[1]].pc # "new"
           \/ p[1] \in Uploads /\ p[2] <= upload[p[1]].part

PipeStep(p) ==
    \/ pipe'[p] = pipe[p]
    \/ /\ ~Made(p) /\ pipe'[p].r /\ pipe'[p].w
       /\ pipe'[p].put = pipe[p].put /\ pipe'[p].got = pipe[p].got /\ pipe'[p].buf = pipe[p].buf
    \/ /\ pipe[p].w /\ pipe'[p].r = pipe[p].r /\ pipe'[p].w = pipe[p].w
       /\ pipe[p].put < Chunks[JobOf[p[1]]]
       /\ pipe'[p].put = pipe[p].put + 1 /\ pipe'[p].got = pipe[p].got
    \/ /\ pipe'[p].r = pipe[p].r /\ ~pipe'[p].w
       /\ pipe'[p].put = pipe[p].put /\ pipe'[p].got = pipe[p].got
       /\ pipe'[p].buf => pipe[p].buf /\ (pipe[p].r => ~pipe[p].w)
       /\ p[1] \in Uploads => /\ upload[p[1]].pc = "copying" /\ p[2] = upload[p[1]].part
                              /\ upload'[p[1]].pc # "copying"
    \/ /\ ~pipe'[p].r /\ pipe'[p].w = pipe[p].w
       /\ pipe'[p].put = pipe[p].put /\ pipe'[p].got = pipe[p].got /\ pipe'[p].buf = pipe[p].buf
       /\ \/ /\ p[1] \in Uploads /\ job[JobOf[p[1]]].creator = p[1]
             /\ job[JobOf[p[1]]].run = "closing" /\ UNCHANGED <<upload, download>>
          \/ \E d \in Downloads : /\ p = Output(JobOf[d])
                                  /\ "close_r" \in {download[d].get, download[d].timer}
                                  /\ "close_w" \in {download'[d].get, download'[d].timer}
    \/ /\ pipe'[p].r = pipe[p].r /\ pipe'[p].w = pipe[p].w
       /\ pipe'[p].put = pipe[p].put /\ pipe'[p].buf = pipe[p].buf
       /\ pipe'[p].got = pipe[p].got \/ (pipe'[p].got = pipe[p].got + 1 /\ Content(p) > 0)

\* A pipe is opened once, written only while w is open and up to the length of the file,
\* and read only when there is something in it.
LEMMA PipeSteps ==
    ASSUME TypeInv, [Next]_vars
    PROVE  pipe' \in [Pipes -> PipeType] /\ \A p \in Pipes : PipeStep(p)
<1> DEFINE Goal == pipe' \in [Pipes -> PipeType] /\ \A p \in Pipes : PipeStep(p)
<1>0. pipe \in [Pipes -> PipeType]
  BY Zenon DEF TypeInv, TypeOK
<1>1. CASE UNCHANGED pipe
  BY <1>0, <1>1, Zenon DEF PipeStep
<1>2. ASSUME NEW j \in Jobs, CloseOutput(j) PROVE Goal
  <2>1. Output(j) \in Pipes /\ close_w(Output(j)) /\ Output(j)[1] \notin Uploads
    BY <1>2, OutputFacts, FileJobsAssumption, SMTT(60) DEF CloseOutput, Output
  <2> QED
    BY <1>0, <2>1, CloseWFacts, ZenonT(120) DEF PipeStep, Only
<1>3. ASSUME NEW j \in Jobs, CloseInput(j) PROVE Goal
  <2>1. CASE UNCHANGED pipe
    BY <1>1, <2>1, Zenon
  <2>2. CASE job[j].closing <= upload[job[j].creator].part
    <3>1. <<job[j].creator, job[j].closing>> \in Pipes
      <4>1. job[j].creator \in Uploads
        BY <1>3, InputFacts, Zenon DEF CloseInput
      <4>2. upload[job[j].creator].part <= MAX_UPLOADED_FILES /\ upload[job[j].creator].part \in Nat
        BY <4>1, FileJobsAssumption DEF TypeInv, TypeOK, UploadType
      <4>3. job[j].closing \in 1..(MAX_UPLOADED_FILES + 1)
        BY Zenon DEF TypeInv, TypeOK, JobType
      <4>4. job[j].closing \in 1..MAX_UPLOADED_FILES
        BY <2>2, <4>2, <4>3, FileJobsAssumption
      <4> QED
        BY <4>1, <4>4, Zenon DEF Pipes, Calls
    <3>2. close_r(<<job[j].creator, job[j].closing>>)
      BY <1>3, <2>2, Zenon DEF CloseInput
    <3>3. /\ job[j].creator \in Uploads /\ JobOf[job[j].creator] = j
          /\ job[j].run = "closing" /\ UNCHANGED <<upload, download>>
      BY <1>3, InputFacts, Zenon DEF CloseInput
    <3> QED
      BY <1>0, <3>1, <3>2, <3>3, CloseRFacts DEF PipeStep, Only
  <2> QED
    BY <1>3, <2>1, <2>2, Zenon DEF CloseInput
<1>4. ASSUME NEW j \in Jobs, MethodWrites(j) PROVE Goal
  <2>1. Output(j) \in Pipes /\ JobOf[Output(j)[1]] = j /\ Output(j)[1] \notin Uploads
    BY Zenon, <1>4, OutputFacts, FileJobsAssumption DEF MethodWrites, TypeInv, JobInv, JobOK, Output
  <2>2. CASE pipe[Output(j)].put < Chunks[j] /\ CanWrite(Output(j)) /\ write(Output(j))
    BY <1>0, <2>1, <2>2, WriteFacts DEF PipeStep, Only, CanWrite
  <2>3. CASE close_w(Output(j))
    BY <1>0, <2>1, <2>3, CloseWFacts, ZenonT(120) DEF PipeStep, Only
  <2> QED
    BY Zenon, <1>1, <1>4, <2>2, <2>3 DEF MethodWrites
<1>5. ASSUME NEW j \in Jobs, MethodReads(j) PROVE Goal
  <2>1. Input(j) \in Pipes
    BY <1>5, InputFacts, Zenon DEF MethodReads, TypeInv, JobInv, JobOK
  <2>2. read_blocks(Input(j), j) \/ read_chunk(Input(j), j) \/ read_end(Input(j), j) \/ read_raises(Input(j))
    BY Zenon, <1>5 DEF MethodReads
  <2> QED
    BY <1>0, <2>1, <2>2, ReadFacts, ZenonT(120) DEF PipeStep, Only
<1>6. ASSUME NEW u \in Uploads, Upload(u) \/ NextFile(u) PROVE Goal
  <2>1. PICK i \in 1..MAX_UPLOADED_FILES : open_pipe(<<u, i>>) /\ i > upload[u].part
    <3>1. /\ upload[u].part \in 0..MAX_UPLOADED_FILES /\ MAX_UPLOADED_FILES \in Nat \ {0}
          /\ upload[u].pc = "new" => upload[u].part = 0
      BY FileJobsAssumption, Zenon DEF TypeInv, TypeOK, UploadType, CallInv
    <3>2. CASE Upload(u)
      <4>1. 1 \in 1..MAX_UPLOADED_FILES /\ 1 > upload[u].part /\ open_pipe(<<u, 1>>)
        BY <3>1, <3>2 DEF Upload
      <4> QED
        BY <4>1, Zenon
    <3>3. CASE NextFile(u)
      <4> DEFINE i == upload[u].part + 1
      <4>1. i \in 1..MAX_UPLOADED_FILES /\ i > upload[u].part /\ open_pipe(<<u, i>>)
        BY <3>1, <3>3 DEF NextFile
      <4> QED
        BY <4>1, Zenon
    <3> QED
      BY Zenon, <1>6, <3>2, <3>3
  <2>2. <<u, i>> \in Pipes /\ ~Made(<<u, i>>)
    BY <2>1, FileJobsAssumption DEF Pipes, Calls, Made, TypeInv, TypeOK, UploadType
  <2> QED
    BY <1>0, <2>1, <2>2, OpenFacts, Zenon DEF PipeStep, Only
<1>7. ASSUME NEW u \in Uploads, Copy(u) PROVE Goal
  <2> DEFINE p == <<u, upload[u].part>>
  <2>1. p \in Pipes /\ p[1] = u
    BY <1>7 DEF Copy, Pipes, Calls, TypeInv, TypeOK, UploadType, CallInv
  <2>2. CASE pipe[p].put < Chunks[JobOf[u]] /\ CanWrite(p) /\ write(p)
    BY <1>0, <2>1, <2>2, WriteFacts DEF PipeStep, Only, CanWrite
  <2>3. CASE close_w(p) /\ \E c \in {"next", "error"} : upload' = [upload EXCEPT ![u].pc = c]
    <3>1. upload[u].pc = "copying" /\ upload'[u].pc # "copying" /\ p[2] = upload[u].part
      BY <1>7, <2>3, ZenonT(120) DEF Copy, TypeInv, TypeOK, UploadType
    <3> QED
      BY <1>0, <2>1, <2>3, <3>1, CloseWFacts DEF PipeStep, Only
  <2> QED
    BY <1>7, <2>2, <2>3, Zenon DEF Copy
<1>8. ASSUME NEW d \in Downloads, Download(d) PROVE Goal
  <2>1. <<d, 1>> \in Pipes /\ ~Made(<<d, 1>>)
    BY <1>8, FileJobsAssumption DEF Download, Pipes, Calls, Made
  <2>2. CASE open_pipe(<<d, 1>>)
    BY <1>0, <2>1, <2>2, OpenFacts, ZenonT(120) DEF PipeStep, Only
  <2> QED
    BY <1>1, <1>8, <2>2, Zenon DEF Download
<1>9. ASSUME NEW d \in Downloads, DoCopy(d) PROVE Goal
  <2> DEFINE p == Output(JobOf[d])
  <2>1. p \in Pipes
    BY <1>9, DownloadFacts, OutputFacts, Zenon DEF DoCopy
  <2>2. read_blocks(p, d) \/ read_chunk(p, d) \/ read_end(p, d) \/ read_raises(p)
    BY <1>9, Zenon DEF DoCopy
  <2> QED
    BY <1>0, <2>1, <2>2, ReadFacts DEF PipeStep, Only
<1>10. ASSUME NEW d \in Downloads, GetCloses(d) \/ CleanupCloses(d) PROVE Goal
  <2> DEFINE p == Output(JobOf[d])
  <2>1. p \in Pipes /\ p[1] \notin Uploads
    BY ZenonT(120), <1>10, DownloadFacts, OutputFacts, FileJobsAssumption DEF GetCloses, CleanupCloses, close, Output
  <2>2. \/ close_w(p)
        \/ /\ close_r(p) /\ "close_r" \in {download[d].get, download[d].timer}
           /\ "close_w" \in {download'[d].get, download'[d].timer}
    <3>1. download \in [Downloads -> DownloadType]
      BY Zenon DEF TypeInv, TypeOK
    <3>2. CASE GetCloses(d)
      BY <3>1, <3>2, Zenon DEF GetCloses, close, DownloadType
    <3>3. CASE CleanupCloses(d)
      BY <3>1, <3>3, Zenon DEF CleanupCloses, close, DownloadType
    <3> QED
      BY <1>10, <3>2, <3>3, Zenon
  <2>3. CASE close_w(p)
    BY <1>0, <2>1, <2>3, CloseWFacts DEF PipeStep, Only
  <2>4. CASE ~close_w(p)
    BY <1>0, <2>1, <2>2, <2>4, CloseRFacts DEF PipeStep, Only
  <2> QED
    BY <2>3, <2>4, Zenon
<1>11. CASE Next
  <2>1. ASSUME NEW j \in Jobs, Start(j) \/ BodyEnds(j) \/ Abort(j) \/ MethodStops(j) \/ MethodGets(j)
        PROVE  UNCHANGED pipe
    BY Zenon, <2>1 DEF Start, BodyEnds, Abort, MethodStops, MethodGets
  <2>2. ASSUME NEW u \in Uploads, Answer(u) PROVE UNCHANGED pipe
    BY <2>2, Zenon DEF Answer
  <2>3. ASSUME NEW d \in Downloads,
               \/ DownloadFails(d) \/ register_job(d) \/ GetToken(d) \/ TimerFires(d) \/ CleanupJob(d)
               \/ CheckJob(d) \/ PrepareFails(d) \/ Prepared(d)
        PROVE  UNCHANGED pipe
    BY Zenon, <2>3 DEF DownloadFails, register_job, GetToken, TimerFires, CleanupJob, CheckJob, PrepareFails, Prepared
  <2> QED
    BY <1>1, <1>2, <1>3, <1>4, <1>5, <1>6, <1>7, <1>8, <1>9, <1>10, <1>11, <2>1, <2>2, <2>3, Zenon DEF Next, JobStep, MethodStep, UploadStep, TimerStep, GetStep
<1> QED
  BY <1>1, <1>11, Zenon DEF vars

-----------------------------------------------------------------------------
(* What a step does to a job                                               *)

\* JobsQueue.add has made the job with the pipes of the call.
Created(j) ==
    LET c == job'[j].creator
    IN  /\ job[j].run = "none" /\ job'[j].run = "queued"
        /\ c \in Calls /\ JobOf[c] = j /\ pipe'[<<c, 1>>].r
        /\ c \in Uploads => upload[c].pc = "new" /\ upload'[c].part = 1
        /\ job'[j].method = job[j].method /\ job'[j].finished = job[j].finished /\ job'[j].pos = job[j].pos

RunMoves(j) ==
    /\ job'[j].run \notin {"none", "body"} /\ (job'[j].run = "queued" => job[j].run = "queued")
    /\ job[j].run = "body" => j \in Coroutines \/ job[j].method = "over"
    /\ job'[j].run = "dead" => j \in Outputs /\ Broken(Output(j))
    /\ job'[j].method = job[j].method /\ job'[j].finished = job[j].finished /\ job'[j].pos = job[j].pos

Starts(j) ==
    /\ job[j].run = "queued" /\ job'[j].run = "body"
    /\ job'[j].method = IF j \in Outputs THEN "write" ELSE "read"
    /\ job'[j].finished = job[j].finished /\ job'[j].pos = job[j].pos

MethodMoves(j) ==
    /\ job'[j].run = job[j].run
    /\ \/ /\ job[j].method = "read" /\ job'[j].method = "get" /\ read_end(Input(j), j)
          /\ job'[j].finished = job[j].finished /\ job'[j].pos = job[j].pos
       \/ /\ job[j].method = "get" /\ job'[j].method = "read"
          /\ job'[j].finished = job[j].finished
          /\ job'[j].pos = job[j].pos + 1 /\ job[j].pos + 1 <= upload[job[j].creator].part
       \/ /\ job[j].method = "get" /\ job'[j].method = "over"
          /\ job'[j].finished /\ Exited(job[j].creator)
          /\ job'[j].pos = job[j].pos /\ upload[job[j].creator].part <= job[j].pos
       \/ /\ job[j].method \in {"write", "read"} /\ job'[j].method = "over"
          /\ j \in Iterates => ~job'[j].finished
          /\ job'[j].pos = job[j].pos

JobStepOf(j) ==
    \/ job'[j] = job[j]
    \/ Created(j)
    \/ /\ job[j].run # "none" /\ job'[j].creator = job[j].creator
       /\ RunMoves(j) \/ Starts(j) \/ MethodMoves(j)

\* One job gets another record.
LEMMA JobBecomes ==
    ASSUME TypeInv, NEW j \in Jobs, NEW k \in JobType, job' = [job EXCEPT ![j] = k],
           job'[j] = k => JobStepOf(j)
    PROVE  job' \in [Jobs -> JobType] /\ \A i \in Jobs : JobStepOf(i)
<1>1. job' \in [Jobs -> JobType] /\ job'[j] = k /\ \A i \in Jobs : i # j => job'[i] = job[i]
  BY Zenon DEF TypeInv, TypeOK
<1> QED
  BY <1>1, Zenon DEF JobStepOf

\* Job.run moves on, from a body that is over.
LEMMA RunBecomes ==
    ASSUME TypeInv, NEW j \in Jobs, NEW r \in {"closing", "over", "dead"}, job' = [job EXCEPT ![j].run = r],
           job[j].run # "none", job[j].run = "body" => job[j].method = "over",
           r = "dead" => j \in Outputs /\ Broken(Output(j))
    PROVE  job' \in [Jobs -> JobType] /\ \A i \in Jobs : JobStepOf(i)
<1> DEFINE k == [job[j] EXCEPT !.run = r]
<1>1. job[j] \in JobType
  BY Zenon DEF TypeInv, TypeOK
<1>2. /\ k \in JobType /\ k.run = r /\ k.creator = job[j].creator /\ k.method = job[j].method
      /\ k.finished = job[j].finished /\ k.pos = job[j].pos
  BY <1>1, Zenon DEF JobType
<1>3. job' = [job EXCEPT ![j] = k]
  OBVIOUS
<1> HIDE DEF k
<1>4. job'[j] = k => JobStepOf(j)
  BY <1>2, Zenon DEF JobStepOf, RunMoves
<1> QED
  BY Zenon, <1>2, <1>3, <1>4, JobBecomes

\* The method of a job returns or fails.
LEMMA MethodBecomes ==
    ASSUME TypeInv, NEW j \in Jobs, NEW ok \in BOOLEAN, method_ends(j, ok),
           \/ job[j].method \in {"write", "read"} /\ (j \in Iterates => ~ok)
           \/ /\ job[j].method = "get" /\ ok /\ Exited(job[j].creator)
              /\ upload[job[j].creator].part <= job[j].pos
    PROVE  job' \in [Jobs -> JobType] /\ \A i \in Jobs : JobStepOf(i)
<1> DEFINE k == [job[j] EXCEPT !.method = "over", !.finished = ok]
<1>1. job[j] \in JobType /\ job[j].run # "none"
  BY Zenon DEF TypeInv, TypeOK, JobInv, JobOK
<1>2. /\ k \in JobType /\ k.run = job[j].run /\ k.creator = job[j].creator /\ k.method = "over"
      /\ k.finished = ok /\ k.pos = job[j].pos
  BY Zenon, <1>1 DEF JobType
<1>3. job' = [job EXCEPT ![j] = k]
  BY Zenon DEF method_ends
<1> HIDE DEF k
<1>4. job'[j] = k => JobStepOf(j)
  BY <1>1, <1>2, Zenon DEF JobStepOf, MethodMoves
<1> QED
  BY Zenon, <1>2, <1>3, <1>4, JobBecomes

\* A call adds its job to the queue, with an open pipe.
LEMMA NewJob ==
    ASSUME TypeInv, NEW c \in Calls, new_job(c), pipe'[<<c, 1>>].r,
           c \in Uploads => upload[c].pc = "new" /\ upload'[c].part = 1
    PROVE  job' \in [Jobs -> JobType] /\ \A i \in Jobs : JobStepOf(i)
<1> DEFINE j == JobOf[c]
           k == [job[j] EXCEPT !.run = "queued", !.creator = c]
<1>1. j \in Jobs /\ job[j] \in JobType /\ job[j].run = "none"
  BY FileJobsAssumption, Zenon DEF TypeInv, TypeOK, new_job
<1>2. /\ k \in JobType /\ k.run = "queued" /\ k.creator = c /\ k.method = job[j].method
      /\ k.finished = job[j].finished /\ k.pos = job[j].pos
  BY Zenon, <1>1 DEF JobType
<1>3. job' = [job EXCEPT ![j] = k]
  BY Zenon DEF new_job
<1> HIDE DEF k
<1>4. job'[j] = k => JobStepOf(j)
  BY <1>1, <1>2, Zenon DEF JobStepOf, Created
<1> QED
  BY Zenon, <1>1, <1>2, <1>3, <1>4, JobBecomes

\* A job is created once, by a call whose pipes it keeps; run() leaves a method that is
\* not a coroutine only at its end; and the method passes on to the next input only at
\* the end of a file.
LEMMA JobSteps ==
    ASSUME TypeInv, [Next]_vars
    PROVE  job' \in [Jobs -> JobType] /\ \A j \in Jobs : JobStepOf(j)
<1> DEFINE Goal == job' \in [Jobs -> JobType] /\ \A j \in Jobs : JobStepOf(j)
<1>0. /\ job \in [Jobs -> JobType] /\ pipe \in [Pipes -> PipeType]
      /\ \A j \in Jobs : JobOK(j) /\ job[j] \in JobType
  BY Zenon DEF TypeInv, TypeOK, JobInv
<1>1. CASE UNCHANGED job
  BY <1>0, <1>1, Zenon DEF JobStepOf
<1>2. ASSUME NEW j \in Jobs, Start(j) PROVE Goal
  <2>1. CASE job[j].aborted
    BY <1>2, <2>1, RunBecomes, Zenon DEF Start
  <2>2. CASE ~job[j].aborted
    <3> DEFINE m == IF j \in Outputs THEN "write" ELSE "read"
               k == [job[j] EXCEPT !.run = "body", !.method = m]
    <3>1. /\ k \in JobType /\ k.run = "body" /\ k.creator = job[j].creator /\ k.method = m
          /\ k.finished = job[j].finished /\ k.pos = job[j].pos
      BY ZenonT(120), <1>0 DEF JobType
    <3>2. job' = [job EXCEPT ![j] = k] /\ job[j].run = "queued"
      BY <1>2, <2>2, Zenon DEF Start
    <3> HIDE DEF k
    <3>3. job'[j] = k => JobStepOf(j)
      BY <3>1, <3>2, Zenon DEF JobStepOf, Starts
    <3> QED
      BY Zenon, <3>1, <3>2, <3>3, JobBecomes
  <2> QED
    BY <2>1, <2>2, Zenon
<1>3. ASSUME NEW j \in Jobs, Abort(j) PROVE Goal
  <2> DEFINE r == IF job[j].run = "body" THEN "closing" ELSE job[j].run
             k == [job[j] EXCEPT !.aborted = TRUE, !.run = r]
  <2>1. /\ k \in JobType /\ k.run = r /\ k.creator = job[j].creator /\ k.method = job[j].method
        /\ k.finished = job[j].finished /\ k.pos = job[j].pos
    BY ZenonT(120), <1>0 DEF JobType
  <2>2. /\ job' = [job EXCEPT ![j] = k]
        /\ job[j].run = "queued" \/ (job[j].run = "body" /\ j \in Coroutines)
    BY <1>3, Zenon DEF Abort
  <2> HIDE DEF k
  <2>3. job'[j] = k => JobStepOf(j)
    BY <2>1, <2>2, Zenon DEF JobStepOf, RunMoves
  <2> QED
    BY Zenon, <2>1, <2>2, <2>3, JobBecomes
<1>4. ASSUME NEW j \in Jobs, BodyEnds(j) PROVE Goal
  BY Zenon, <1>4, RunBecomes DEF BodyEnds
<1>5. ASSUME NEW j \in Jobs, CloseOutput(j) PROVE Goal
  <2> DEFINE r == IF Broken(Output(j)) THEN "dead" ELSE "over"
  <2>1. /\ r \in {"closing", "over", "dead"} /\ job' = [job EXCEPT ![j].run = r]
        /\ job[j].run = "closing" /\ (r = "dead" => j \in Outputs /\ Broken(Output(j)))
    BY <1>5, Zenon DEF CloseOutput
  <2> HIDE DEF r
  <2> QED
    BY Zenon, <2>1, RunBecomes
<1>6. ASSUME NEW j \in Jobs, CloseInput(j) PROVE Goal
  <2>1. CASE job' = [job EXCEPT ![j].run = "over"]
    BY Zenon, <1>6, <2>1, RunBecomes DEF CloseInput
  <2>2. CASE job[j].closing <= upload[job[j].creator].part
    <3> DEFINE n == job[j].closing + 1
               k == [job[j] EXCEPT !.closing = n]
    <3>1. n \in 1..MAX_UPLOADED_FILES + 1
      <4>1. job[j].creator \in Uploads /\ upload \in [Uploads -> UploadType]
        BY <1>6, InputFacts, Zenon DEF CloseInput, TypeInv, TypeOK
      <4> QED
        BY <1>0, <2>2, <4>1, FileJobsAssumption DEF UploadType, JobType
    <3>2. job' = [job EXCEPT ![j] = k] /\ job[j].run = "closing"
      BY <1>6, <2>2, Zenon DEF CloseInput
    <3> HIDE DEF n
    <3>3. /\ k \in JobType /\ k.run = job[j].run /\ k.creator = job[j].creator
          /\ k.method = job[j].method /\ k.finished = job[j].finished /\ k.pos = job[j].pos
      BY <1>0, <3>1, ZenonT(120) DEF JobType
    <3> HIDE DEF k
    <3>4. job'[j] = k => JobStepOf(j)
      BY <3>2, <3>3, Zenon DEF JobStepOf, RunMoves
    <3> QED
      BY Zenon, <3>2, <3>3, <3>4, JobBecomes
  <2> QED
    BY <1>6, <2>1, <2>2, Zenon DEF CloseInput
<1>7. ASSUME NEW j \in Jobs, MethodStops(j) PROVE Goal
  BY Zenon, <1>7, MethodBecomes DEF MethodStops
<1>8. ASSUME NEW j \in Jobs, MethodWrites(j) PROVE Goal
  <2>1. job[j].method = "write" /\ j \notin Iterates
    BY <1>0, <1>8, FileJobsAssumption, Zenon DEF MethodWrites, JobOK
  <2>2. (~Broken(Output(j))) \in BOOLEAN
    BY Zenon DEF Broken
  <2>3. UNCHANGED job \/ \E ok \in BOOLEAN : method_ends(j, ok)
    BY Zenon, <1>8, <2>2 DEF MethodWrites
  <2> QED
    BY <1>1, <2>1, <2>3, MethodBecomes, Zenon
<1>9. ASSUME NEW j \in Jobs, MethodReads(j) PROVE Goal
  <2>1. job[j].method = "read" /\ job[j].run # "none"
    BY <1>0, <1>9, Zenon DEF MethodReads, JobOK
  <2>2. CASE read_end(Input(j), j) /\ job' = [job EXCEPT ![j].method = "get"]
    <3> DEFINE k == [job[j] EXCEPT !.method = "get"]
    <3>1. /\ k \in JobType /\ k.run = job[j].run /\ k.creator = job[j].creator
          /\ k.method = "get" /\ k.finished = job[j].finished /\ k.pos = job[j].pos
      BY <1>0, ZenonT(120) DEF JobType
    <3>2. job' = [job EXCEPT ![j] = k]
      BY <2>2, Zenon
    <3> HIDE DEF k
    <3>3. job'[j] = k => JobStepOf(j)
      BY <2>1, <2>2, <3>1, Zenon DEF JobStepOf, MethodMoves
    <3> QED
      BY Zenon, <3>1, <3>2, <3>3, JobBecomes
  <2>3. CASE method_ends(j, TRUE) /\ j \notin Iterates
    BY Zenon, <2>1, <2>3, MethodBecomes
  <2>4. CASE method_ends(j, FALSE)
    BY Zenon, <2>1, <2>4, MethodBecomes
  <2> QED
    BY Zenon, <1>1, <1>9, <2>2, <2>3, <2>4 DEF MethodReads
<1>10. ASSUME NEW j \in Jobs, MethodGets(j) PROVE Goal
  <2> DEFINE u == job[j].creator
  <2>1. /\ job[j].method = "get" /\ job[j].run # "none" /\ u \in Uploads
        /\ upload \in [Uploads -> UploadType]
    BY <1>0, <1>10, InputFacts, Zenon DEF MethodGets, JobOK, TypeInv, TypeOK
  <2>2. upload[u].part \in 0..MAX_UPLOADED_FILES /\ job[j].pos \in 1..MAX_UPLOADED_FILES
    BY <1>0, <2>1, Zenon DEF UploadType, JobType
  <2>3. CASE upload[u].part > job[j].pos
    <3> DEFINE n == job[j].pos + 1
               k == [job[j] EXCEPT !.method = "read", !.pos = n]
    <3>1. n \in 1..MAX_UPLOADED_FILES /\ n <= upload[u].part
      BY <2>2, <2>3, FileJobsAssumption
    <3>2. job' = [job EXCEPT ![j] = k]
      BY <1>10, <2>3, Zenon DEF MethodGets
    <3> HIDE DEF n
    <3>3. /\ k \in JobType /\ k.run = job[j].run /\ k.creator = u
          /\ k.method = "read" /\ k.finished = job[j].finished /\ k.pos = n
      BY ZenonT(120), <1>0, <3>1 DEF JobType
    <3> HIDE DEF k
    <3>4. n = job[j].pos + 1
      BY Zenon DEF n
    <3>5. job'[j] = k => JobStepOf(j)
      BY <2>1, <3>1, <3>3, <3>4, Zenon DEF JobStepOf, MethodMoves
    <3> QED
      BY Zenon, <3>2, <3>3, <3>5, JobBecomes
  <2>4. CASE ~(upload[u].part > job[j].pos)
    <3>1. upload[u].part <= job[j].pos
      BY <2>2, <2>4, FileJobsAssumption
    <3> QED
      BY Zenon, <1>10, <2>1, <2>4, <3>1, MethodBecomes DEF MethodGets
  <2> QED
    BY <2>3, <2>4, Zenon
<1>11. ASSUME NEW u \in Uploads, Upload(u) PROVE Goal
  <2>1. CASE new_job(u)
    <3>1. u \in Calls /\ <<u, 1>> \in Pipes
      BY FileJobsAssumption DEF Calls, Pipes
    <3>2. pipe'[<<u, 1>>].r
      BY <1>0, <1>11, <3>1, OpenFacts, Zenon DEF Upload
    <3>3. upload[u].pc = "new" /\ upload'[u].part = 1
      BY <1>11, Zenon DEF Upload, TypeInv, TypeOK
    <3> QED
      BY <2>1, <3>1, <3>2, <3>3, NewJob, Zenon
  <2> QED
    BY <1>1, <1>11, <2>1, Zenon DEF Upload, merged
<1>12. ASSUME NEW d \in Downloads, Download(d) PROVE Goal
  <2>1. CASE new_job(d) /\ open_pipe(<<d, 1>>)
    <3>1. d \in Calls /\ <<d, 1>> \in Pipes /\ d \notin Uploads
      BY FileJobsAssumption DEF Calls, Pipes
    <3>2. pipe'[<<d, 1>>].r
      BY <1>0, <2>1, <3>1, OpenFacts, Zenon
    <3> QED
      BY <2>1, <3>1, <3>2, NewJob, Zenon
  <2> QED
    BY <1>1, <1>12, <2>1, Zenon DEF Download, merged
<1>13. CASE Next
  <2>1. ASSUME NEW u \in Uploads, UploadStep(u) PROVE UNCHANGED job
    BY <2>1, Zenon DEF UploadStep, Copy, NextFile, Answer
  <2>2. ASSUME NEW d \in Downloads,
               DownloadFails(d) \/ register_job(d) \/ GetToken(d) \/ TimerStep(d) \/ GetStep(d)
        PROVE  UNCHANGED job
    BY Zenon, <2>2 DEF DownloadFails, register_job, GetToken, TimerStep, TimerFires, CleanupJob, CleanupCloses,
                GetStep, CheckJob, PrepareFails, Prepared, DoCopy, GetCloses
  <2> QED
    BY <1>1, <1>2, <1>3, <1>4, <1>5, <1>6, <1>7, <1>8, <1>9, <1>10, <1>11, <1>12, <1>13, <2>1, <2>2, Zenon DEF Next, JobStep, MethodStep
<1> QED
  BY <1>1, <1>13, Zenon DEF vars

-----------------------------------------------------------------------------
(* What a step does to a call                                              *)

UploadStepOf(u) ==
    LET i == upload[u].part
        p == <<u, i>>
    IN  \/ upload'[u] = upload[u]
        \/ /\ upload[u].pc \in {"new", "next"} /\ upload'[u].pc = "copying" /\ upload'[u].part = i + 1
           /\ pipe'[<<u, i + 1>>].r /\ pipe'[<<u, i + 1>>].w
        \/ /\ upload[u].pc = "copying" /\ upload'[u].pc = "next" /\ upload'[u].part = i
           /\ ~pipe'[p].w /\ pipe'[p].r = pipe[p].r /\ pipe'[p].put = pipe[p].put
           /\ ~(pipe[p].put < Chunks[JobOf[u]]) \/ WriteRaises(p)
        \/ upload[u].pc = "copying" /\ upload'[u].pc = "error" /\ upload'[u].part = i
        \/ /\ upload[u].pc = "next" /\ upload'[u].pc \in {"ok", "error"} /\ upload'[u].part = i
           /\ upload'[u].pc = "ok" => i = Files[u]

\* One upload gets another record.
LEMMA UploadBecomes ==
    ASSUME TypeInv, NEW u \in Uploads, NEW k \in UploadType, upload' = [upload EXCEPT ![u] = k],
           upload'[u] = k => UploadStepOf(u)
    PROVE  upload' \in [Uploads -> UploadType] /\ \A v \in Uploads : UploadStepOf(v)
<1>1. upload' \in [Uploads -> UploadType] /\ upload'[u] = k /\ \A v \in Uploads : v # u => upload'[v] = upload[v]
  BY Zenon DEF TypeInv, TypeOK
<1> QED
  BY <1>1 DEF UploadStepOf

\* A file is given a pipe that is open, and the handler goes on to the next one only when
\* it has copied the whole file or the job has ended.
LEMMA UploadSteps ==
    ASSUME TypeInv, [Next]_vars
    PROVE  upload' \in [Uploads -> UploadType] /\ \A u \in Uploads : UploadStepOf(u)
<1> DEFINE Goal == upload' \in [Uploads -> UploadType] /\ \A u \in Uploads : UploadStepOf(u)
<1>0. /\ pipe \in [Pipes -> PipeType] /\ upload \in [Uploads -> UploadType]
      /\ \A u \in Uploads : upload[u] \in UploadType /\ (upload[u].pc = "new" <=> upload[u].part = 0)
  BY Zenon DEF TypeInv, TypeOK, CallInv
<1>1. CASE UNCHANGED upload
  BY <1>0, <1>1, Zenon DEF UploadStepOf
<1>2. ASSUME NEW u \in Uploads, Upload(u) \/ NextFile(u) PROVE Goal
  <2> DEFINE i == upload[u].part + 1
             k == [pc |-> "copying", part |-> i]
  <2>1. /\ upload[u].pc \in {"new", "next"} /\ i \in 1..MAX_UPLOADED_FILES
        /\ upload' = [upload EXCEPT ![u] = k] /\ open_pipe(<<u, i>>)
    BY <1>0, <1>2, FileJobsAssumption DEF Upload, NextFile, UploadType
  <2>2. pipe'[<<u, i>>].r /\ pipe'[<<u, i>>].w
    BY <1>0, <2>1, OpenFacts, Zenon DEF Pipes, Calls
  <2>3. k \in UploadType /\ k.pc = "copying" /\ k.part = upload[u].part + 1
    BY <2>1, FileJobsAssumption DEF UploadType
  <2> HIDE DEF k
  <2>4. upload'[u] = k => UploadStepOf(u)
    BY <2>1, <2>2, <2>3, Zenon DEF UploadStepOf
  <2> QED
    BY Zenon, <2>1, <2>3, <2>4, UploadBecomes
<1>3. ASSUME NEW u \in Uploads, Copy(u) \/ Answer(u), NEW c \in {"next", "ok", "error"},
             upload' = [upload EXCEPT ![u].pc = c]
      PROVE  Goal
  <2> DEFINE k == [upload[u] EXCEPT !.pc = c]
             p == <<u, upload[u].part>>
  <2>1. k \in UploadType /\ k.pc = c /\ k.part = upload[u].part /\ upload' = [upload EXCEPT ![u] = k]
    BY <1>0, <1>3, Zenon DEF UploadType
  <2>2. upload'[u].pc = c
    BY <1>0, <1>3, Zenon DEF UploadType
  <2> HIDE DEF k
  <2>3. CASE Copy(u)
    <3>0. upload'[u].pc # upload[u].pc /\ upload[u].pc = "copying"
      BY <1>3, <2>2, <2>3, Zenon DEF Copy
    <3>1. p \in Pipes
      BY <1>0, <3>0 DEF Pipes, Calls, UploadType
    <3>2. /\ c \in {"next", "error"} /\ close_w(p)
          /\ c = "next" => ~(pipe[p].put < Chunks[JobOf[u]]) \/ WriteRaises(p)
      <4>1. upload' # upload
        BY <3>0, Zenon
      <4>2. \/ ~(pipe[p].put < Chunks[JobOf[u]]) \/ WriteRaises(p)
            \/ upload' = [upload EXCEPT ![u].pc = "error"]
        BY <2>3, <4>1, Zenon DEF Copy
      <4>3. upload' = [upload EXCEPT ![u].pc = "error"] => upload'[u].pc = "error"
        BY <1>0 DEF UploadType
      <4>4. upload' = [upload EXCEPT ![u].pc = "next"] => upload'[u].pc = "next"
        BY <1>0 DEF UploadType
      <4> QED
        BY <2>2, <2>3, <4>1, <4>2, <4>3, <4>4, Zenon DEF Copy
    <3>3. ~pipe'[p].w /\ pipe'[p].r = pipe[p].r /\ pipe'[p].put = pipe[p].put
      BY <1>0, <3>1, <3>2, CloseWFacts, Zenon
    <3>4. upload'[u] = k => UploadStepOf(u)
      BY <2>1, <3>0, <3>2, <3>3, Zenon DEF UploadStepOf
    <3> QED
      BY Zenon, <2>1, <3>4, UploadBecomes
  <2>4. CASE Answer(u)
    <3>1. upload[u].pc = "next" /\ upload'[u].pc \in {"ok", "error"}
          /\ (upload'[u].pc = "ok" => upload[u].part = Files[u])
      BY <1>0, <2>4 DEF Answer, UploadType
    <3>2. upload'[u] = k => UploadStepOf(u)
      BY <2>1, <2>2, <3>1, Zenon DEF UploadStepOf
    <3> QED
      BY Zenon, <2>1, <3>2, UploadBecomes
  <2> QED
    BY <1>3, <2>3, <2>4, Zenon
<1>4. CASE Next
  <2>1. ASSUME NEW j \in Jobs, JobStep(j) \/ MethodStep(j) \/ Abort(j) \/ MethodStops(j) PROVE UNCHANGED upload
    BY Zenon, <2>1 DEF JobStep, Start, BodyEnds, CloseOutput, CloseInput, MethodStep, MethodWrites, MethodReads,
                MethodGets, Abort, MethodStops
  <2>2. ASSUME NEW u \in Uploads, Copy(u) \/ Answer(u)
        PROVE  UNCHANGED upload \/ \E c \in {"next", "ok", "error"} : upload' = [upload EXCEPT ![u].pc = c]
    BY <2>2, Zenon DEF Copy, Answer
  <2>3. ASSUME NEW d \in Downloads,
               Download(d) \/ DownloadFails(d) \/ register_job(d) \/ GetToken(d) \/ TimerStep(d) \/ GetStep(d)
        PROVE  UNCHANGED upload
    BY Zenon, <2>3 DEF Download, DownloadFails, register_job, GetToken, TimerStep, TimerFires, CleanupJob,
                CleanupCloses, GetStep, CheckJob, PrepareFails, Prepared, DoCopy, GetCloses
  <2> QED
    BY <1>1, <1>2, <1>3, <1>4, <2>1, <2>2, <2>3, Zenon DEF Next, UploadStep
<1> QED
  BY <1>1, <1>4, Zenon DEF vars

DownloadStepOf(d) ==
    LET j == JobOf[d]
    IN  /\ download[d].pc # "new" => download'[d].pc # "new"
        /\ download'[d].pc # "new" => download[d].pc # "new" \/ job'[j].run # "none"
        /\ download'[d].timer # "none" \/ download'[d].get # "none" \/ download'[d].eof
              => download'[d].pc = "registered"
        /\ download'[d].eof => download[d].eof \/ (download[d].get = "copying" /\ read_end(Output(j), d))
        /\ download'[d].timer = "close_r" => download[d].timer = "close_r" \/ jobs[j] # None
        /\ download'[d].get = "copying" => download[d].get = "copying" \/ jobs'[j] = None
        /\ "close_w" \in {download[d].get, download[d].timer}
              => "close_w" \in {download'[d].get, download'[d].timer} \/ ~pipe'[Output(j)].w

\* The table of timers gets an entry only from register_job.
TableStep ==
    \A j \in Jobs : jobs'[j] # None
        => jobs[j] # None \/ \E d \in Downloads : JobOf[d] = j /\ download[d].pc = "called"

CallsStep ==
    /\ download' \in [Downloads -> DownloadType] /\ jobs' \in [Jobs -> Downloads \cup {None}]
    /\ TableStep /\ \A d \in Downloads : DownloadStepOf(d)

\* A download that keeps its record takes a step.
LEMMA SameDownload ==
    ASSUME TypeInv, NEW d \in Downloads, download'[d] = download[d]
    PROVE  DownloadStepOf(d)
BY Zenon DEF TypeInv, CallInv, DownloadStepOf

\* One download gets another record.
LEMMA DownloadBecomes ==
    ASSUME TypeInv, NEW d \in Downloads, NEW k \in DownloadType, download' = [download EXCEPT ![d] = k],
           UNCHANGED jobs, download'[d] = k => DownloadStepOf(d)
    PROVE  CallsStep
<1>1. /\ download' \in [Downloads -> DownloadType] /\ download'[d] = k
      /\ \A e \in Downloads : e # d => download'[e] = download[e]
  BY Zenon DEF TypeInv, TypeOK
<1>2. \A e \in Downloads : DownloadStepOf(e)
  BY <1>1, SameDownload, Zenon
<1> QED
  BY <1>1, <1>2, Zenon DEF CallsStep, TableStep, TypeInv, TypeOK

\* The timer of register_job moves on.
LEMMA TimerBecomes ==
    ASSUME TypeInv, NEW d \in Downloads, NEW t \in {"fired", "close_w", "done"}, UNCHANGED jobs,
           download[d].timer # "none", download' = [download EXCEPT ![d].timer = t],
           download[d].timer = "close_w" => ~pipe'[Output(JobOf[d])].w
    PROVE  CallsStep
<1> DEFINE k == [download[d] EXCEPT !.timer = t]
<1>1. download[d] \in DownloadType /\ download[d].pc = "registered"
  BY DownloadFacts, Zenon DEF TypeInv, TypeOK
<1>2. /\ k \in DownloadType /\ k.pc = "registered" /\ k.timer = t /\ k.get = download[d].get
      /\ k.eof = download[d].eof
  BY <1>1, Zenon DEF DownloadType
<1>3. download' = [download EXCEPT ![d] = k]
  OBVIOUS
<1> HIDE DEF k
<1>4. download'[d] = k => DownloadStepOf(d)
  BY <1>1, <1>2, Zenon DEF DownloadStepOf
<1> QED
  BY Zenon, <1>2, <1>3, <1>4, DownloadBecomes

\* The request to the URL moves on.
LEMMA GetBecomes ==
    ASSUME TypeInv, NEW d \in Downloads, UNCHANGED jobs, download[d].pc = "registered",
           NEW g \in {"checking", "preparing", "close_r", "close_w", "done"},
           download' = [download EXCEPT ![d].get = g],
           download[d].get = "close_w" => ~pipe'[Output(JobOf[d])].w
    PROVE  CallsStep
<1> DEFINE k == [download[d] EXCEPT !.get = g]
<1>1. download[d] \in DownloadType
  BY Zenon DEF TypeInv, TypeOK
<1>2. /\ k \in DownloadType /\ k.pc = "registered" /\ k.get = g /\ k.timer = download[d].timer
      /\ k.eof = download[d].eof
  BY <1>1, Zenon DEF DownloadType
<1>3. download' = [download EXCEPT ![d] = k]
  OBVIOUS
<1> HIDE DEF k
<1>4. download'[d] = k => DownloadStepOf(d)
  BY <1>2, Zenon DEF DownloadStepOf
<1> QED
  BY Zenon, <1>2, <1>3, <1>4, DownloadBecomes

\* A cleanup begins only for a job in the table, a copying takes its job out of the table,
\* and a close that has begun is carried out.
LEMMA DownloadSteps ==
    ASSUME TypeInv, [Next]_vars
    PROVE  CallsStep
<1>0. /\ pipe \in [Pipes -> PipeType] /\ download \in [Downloads -> DownloadType]
      /\ jobs \in [Jobs -> Downloads \cup {None}]
      /\ \A d \in Downloads : download[d] \in DownloadType /\ JobOf[d] \in Jobs
  BY FileJobsAssumption, Zenon DEF TypeInv, TypeOK, Calls
<1>1. CASE UNCHANGED <<download, jobs>>
  BY <1>0, <1>1, SameDownload, Zenon DEF CallsStep, TableStep
<1>2. ASSUME NEW d \in Downloads, Download(d) PROVE CallsStep
  <2> DEFINE k == [download[d] EXCEPT !.pc = "called"]
  <2>1. /\ k \in DownloadType /\ k.pc = "called" /\ k.timer = download[d].timer /\ k.get = download[d].get
        /\ k.eof = download[d].eof /\ download' = [download EXCEPT ![d] = k]
    BY <1>0, <1>2, SMTT(60) DEF DownloadType, Download
  <2>2. download[d].pc = "new" /\ UNCHANGED jobs
    BY <1>2, Zenon DEF Download
  <2>3. job'[JobOf[d]].run # "none"
    <3>1. JobOf[d] \in Jobs /\ job[JobOf[d]] \in JobType /\ job \in [Jobs -> JobType]
      BY <1>0, Zenon DEF TypeInv, TypeOK
    <3>2. CASE new_job(d)
      <4>1. job'[JobOf[d]] = [job[JobOf[d]] EXCEPT !.run = "queued", !.creator = d]
        BY <3>1, <3>2, Zenon DEF new_job
      <4>2. [job[JobOf[d]] EXCEPT !.run = "queued", !.creator = d].run = "queued"
        BY <3>1, Zenon DEF JobType
      <4> QED
        BY <4>1, <4>2, Zenon
    <3>3. CASE merged(d)
      BY <3>3, Zenon DEF merged
    <3> QED
      BY <1>2, <3>2, <3>3, Zenon DEF Download
  <2> HIDE DEF k
  <2>4. download'[d] = k => DownloadStepOf(d)
    BY <2>1, <2>2, <2>3, Zenon DEF DownloadStepOf, TypeInv, CallInv
  <2> QED
    BY Zenon, <2>1, <2>2, <2>4, DownloadBecomes
<1>3. ASSUME NEW d \in Downloads, DownloadFails(d) PROVE CallsStep
  <2> DEFINE k == [download[d] EXCEPT !.pc = "failed"]
  <2>1. /\ k \in DownloadType /\ k.pc = "failed" /\ k.timer = download[d].timer /\ k.get = download[d].get
        /\ k.eof = download[d].eof /\ download' = [download EXCEPT ![d] = k]
    BY <1>0, <1>3, Zenon DEF DownloadType, DownloadFails
  <2>2. download[d].pc = "called" /\ UNCHANGED jobs
    BY <1>3, Zenon DEF DownloadFails
  <2> HIDE DEF k
  <2>3. download'[d] = k => DownloadStepOf(d)
    BY <2>1, <2>2, Zenon DEF DownloadStepOf, TypeInv, CallInv
  <2> QED
    BY Zenon, <2>1, <2>2, <2>3, DownloadBecomes
<1>4. ASSUME NEW d \in Downloads, register_job(d) PROVE CallsStep
  <2> DEFINE k == [download[d] EXCEPT !.pc = "registered", !.timer = "on"]
  <2>1. /\ k \in DownloadType /\ k.pc = "registered" /\ k.timer = "on" /\ k.get = download[d].get
        /\ k.eof = download[d].eof /\ download' = [download EXCEPT ![d] = k]
    BY Zenon, <1>0, <1>4 DEF DownloadType, register_job
  <2>2. download[d].pc = "called" /\ jobs' = [jobs EXCEPT ![JobOf[d]] = d]
    BY <1>4, Zenon DEF register_job
  <2> HIDE DEF k
  <2>3. /\ download' \in [Downloads -> DownloadType] /\ download'[d] = k
        /\ \A e \in Downloads : e # d => download'[e] = download[e]
    BY <1>0, <2>1, Zenon
  <2>4. \A e \in Downloads : DownloadStepOf(e)
    BY <2>1, <2>2, <2>3, SameDownload DEF DownloadStepOf, TypeInv, CallInv
  <2> QED
    BY <1>0, <2>2, <2>3, <2>4, Zenon DEF CallsStep, TableStep
<1>5. ASSUME NEW d \in Downloads, TimerFires(d) PROVE CallsStep
  BY Zenon, <1>5, TimerBecomes DEF TimerFires
<1>6. ASSUME NEW d \in Downloads, CleanupJob(d) \/ Prepared(d) PROVE CallsStep
  <2> DEFINE j == JobOf[d]
  <2>0. jobs' = [jobs EXCEPT ![j] = None] /\ jobs' \in [Jobs -> Downloads \cup {None}] /\ jobs'[j] = None /\ TableStep
    BY Zenon, <1>0, <1>6 DEF CleanupJob, Prepared, TableStep
  <2>1. ASSUME NEW e \in Downloads, NEW t, NEW g, download'[e] = [download[e] EXCEPT !.timer = t, !.get = g],
               t = Cancelled(j, e) \/ (e = d /\ download[e].timer = "fired"
                                          /\ t = IF jobs[j] = None THEN "done" ELSE "close_r"),
               g = download[e].get \/ (e = d /\ download[e].get = "preparing" /\ g = "copying")
        PROVE  download'[e] \in DownloadType /\ DownloadStepOf(e)
    <3>1. /\ t \in {"none", "on", "cancelled", "fired", "close_r", "close_w", "done"}
          /\ g \in {"none", "checking", "preparing", "copying", "close_r", "close_w", "done"}
      BY <1>0, <2>1, Zenon DEF Cancelled, DownloadType
    <3>2. /\ download'[e] \in DownloadType /\ download'[e].pc = download[e].pc /\ download'[e].timer = t
          /\ download'[e].get = g /\ download'[e].eof = download[e].eof
      BY ZenonT(120), <1>0, <2>1, <3>1 DEF DownloadType
    <3>3. /\ t # "none" => download[e].timer # "none"
          /\ g # "none" => download[e].get # "none"
          /\ download[e].timer = "close_w" => t = "close_w"
          /\ download[e].get = "close_w" => g = "close_w"
          /\ t = "close_r" => download[e].timer = "close_r" \/ jobs[JobOf[e]] # None
          /\ g = "copying" => download[e].get = "copying" \/ jobs'[JobOf[e]] = None
      BY <2>0, <2>1, Zenon DEF Cancelled
    <3> QED
      BY <3>2, <3>3, Zenon DEF DownloadStepOf, TypeInv, CallInv
  <2>2. \A e \in Downloads : download'[e] \in DownloadType /\ DownloadStepOf(e)
    <3> SUFFICES ASSUME NEW e \in Downloads PROVE download'[e] \in DownloadType /\ DownloadStepOf(e)
      OBVIOUS
    <3>1. CASE CleanupJob(d)
      <4> DEFINE t == IF e # d THEN Cancelled(j, e) ELSE IF jobs[j] = None THEN "done" ELSE "close_r"
      <4>1. download'[e] = [download[e] EXCEPT !.timer = t] /\ download[d].timer = "fired"
        BY <3>1, Zenon DEF CleanupJob
      <4>2. t = Cancelled(j, e) \/ (e = d /\ t = IF jobs[j] = None THEN "done" ELSE "close_r")
        OBVIOUS
      <4>3. [download[e] EXCEPT !.timer = t] = [download[e] EXCEPT !.timer = t, !.get = download[e].get]
        <5> HIDE DEF t
        <5> QED
          BY Zenon, <1>0 DEF DownloadType
      <4> HIDE DEF t
      <4>4. download'[e] = [download[e] EXCEPT !.timer = t, !.get = download[e].get]
        BY <4>1, <4>3, Zenon
      <4>5. /\ t = Cancelled(j, e) \/ (e = d /\ download[e].timer = "fired"
                                       /\ t = IF jobs[j] = None THEN "done" ELSE "close_r")
            /\ download[e].get = download[e].get
        BY <4>1, <4>2, Zenon
      <4> HIDE DEF j
      <4> QED
        BY <2>1, <4>4, <4>5, Zenon
    <3>2. CASE Prepared(d)
      <4> DEFINE g == IF e = d THEN "copying" ELSE download[e].get
      <4>1. download'[e] = [download[e] EXCEPT !.timer = Cancelled(j, e), !.get = g] /\ download[d].get = "preparing"
        BY Zenon, <3>2 DEF Prepared
      <4>2. g = download[e].get \/ (e = d /\ g = "copying")
        OBVIOUS
      <4> HIDE DEF g
      <4> QED
        BY Zenon, <2>1, <4>1, <4>2
    <3> QED
      BY <1>6, <3>1, <3>2, Zenon
  <2>3. download' \in [Downloads -> DownloadType]
    <3>1. download' = [e \in Downloads |-> download'[e]]
      BY Zenon, <1>6 DEF CleanupJob, Prepared
    <3> QED
      BY <2>2, <3>1, Zenon
  <2> QED
    BY <2>0, <2>2, <2>3, Zenon DEF CallsStep
<1>7. ASSUME NEW d \in Downloads, GetToken(d) \/ CheckJob(d) \/ PrepareFails(d) PROVE CallsStep
  <2>1. download[d].pc = "registered" /\ UNCHANGED jobs /\ download[d].get # "close_w"
    BY <1>7, DownloadFacts, Zenon DEF GetToken, CheckJob, PrepareFails
  <2>2. \E g \in {"checking", "preparing", "done"} : download' = [download EXCEPT ![d].get = g]
    BY <1>7, Zenon DEF GetToken, CheckJob, PrepareFails
  <2> QED
    BY Zenon, <2>1, <2>2, GetBecomes
<1>8. ASSUME NEW d \in Downloads, DoCopy(d) PROVE CallsStep
  <2>1. download[d].get = "copying" /\ download[d].pc = "registered" /\ UNCHANGED jobs
    BY <1>8, DownloadFacts, Zenon DEF DoCopy
  <2>2. CASE download' = [download EXCEPT ![d].get = "close_r"]
    BY Zenon, <2>1, <2>2, GetBecomes
  <2>3. CASE /\ read_end(Output(JobOf[d]), d)
             /\ download' = [download EXCEPT ![d] = [download[d] EXCEPT !.get = "close_r", !.eof = TRUE]]
    <3> DEFINE k == [download[d] EXCEPT !.get = "close_r", !.eof = TRUE]
    <3>1. /\ k \in DownloadType /\ k.pc = "registered" /\ k.get = "close_r" /\ k.timer = download[d].timer
          /\ k.eof = TRUE /\ download' = [download EXCEPT ![d] = k]
      BY Zenon, <1>0, <2>1, <2>3 DEF DownloadType
    <3> HIDE DEF k
    <3>2. download'[d] = k => DownloadStepOf(d)
      BY <2>1, <2>3, <3>1 DEF DownloadStepOf
    <3> QED
      BY Zenon, <2>1, <3>1, <3>2, DownloadBecomes
  <2> QED
    BY <1>1, <1>8, <2>1, <2>2, <2>3, Zenon DEF DoCopy
<1>9. ASSUME NEW d \in Downloads, GetCloses(d) \/ CleanupCloses(d) PROVE CallsStep
  <2> DEFINE p == Output(JobOf[d])
  <2>1. /\ download[d].pc = "registered" /\ UNCHANGED jobs /\ p \in Pipes
    BY <1>9, DownloadFacts, OutputFacts, Zenon DEF GetCloses, CleanupCloses, close
  <2>2. close_w(p) => ~pipe'[p].w
    BY <1>0, <2>1, CloseWFacts, Zenon
  <2>3. CASE GetCloses(d)
    <3>1. PICK g \in {"close_w", "done"} : /\ close(p, download[d].get, g)
                                           /\ download' = [download EXCEPT ![d].get = g]
      BY Zenon, <2>3 DEF GetCloses
    <3>2. download[d].get = "close_w" => ~pipe'[p].w
      BY <2>2, <3>1, Zenon DEF close
    <3> QED
      BY Zenon, <2>1, <3>1, <3>2, GetBecomes
  <2>4. CASE CleanupCloses(d)
    <3>1. PICK t \in {"close_w", "done"} : /\ close(p, download[d].timer, t)
                                           /\ download' = [download EXCEPT ![d].timer = t]
      BY Zenon, <2>4 DEF CleanupCloses
    <3>2. (download[d].timer = "close_w" => ~pipe'[p].w) /\ download[d].timer # "none"
      BY <2>2, <3>1, Zenon DEF close
    <3> QED
      BY Zenon, <2>1, <3>1, <3>2, TimerBecomes
  <2> QED
    BY <1>9, <2>3, <2>4, Zenon
<1>10. CASE Next
  <2>1. ASSUME NEW j \in Jobs, JobStep(j) \/ MethodStep(j) \/ Abort(j) \/ MethodStops(j)
        PROVE  UNCHANGED <<download, jobs>>
    BY Zenon, <2>1 DEF JobStep, Start, BodyEnds, CloseOutput, CloseInput, MethodStep, MethodWrites, MethodReads,
                MethodGets, Abort, MethodStops
  <2>2. ASSUME NEW u \in Uploads, Upload(u) \/ UploadStep(u) PROVE UNCHANGED <<download, jobs>>
    BY <2>2, Zenon DEF Upload, UploadStep, Copy, NextFile, Answer
  <2> QED
    BY <1>1, <1>2, <1>3, <1>4, <1>5, <1>6, <1>7, <1>8, <1>9, <1>10, <2>1, <2>2, Zenon DEF Next, TimerStep, GetStep
<1> QED
  BY <1>1, <1>10, Zenon DEF vars

=============================================================================
