-------------------------- MODULE IoThreadsProofs --------------------------
(***************************************************************************)
(* Proofs about IoThreads, for any number of clients and I/O threads: no   *)
(* thread sleeps on clients that were handed to it without a notification; *)
(* a client is in one list of one thread; no two threads use one client.   *)
(***************************************************************************)
(* IInv is about the flags and notifications, OInv about the lists and the *)
(* thread each client belongs to; OInv is inductive relative to IInv.      *)
(***************************************************************************)
EXTENDS IoThreads, TLAPS

(* The fields of the records that the main thread and I/O threads update. *)
MainFields == {"pc", "running", "wait", "fired", "t", "round", "found", "cur", "ret", "check",
               "job", "arg", "range"}
IoFields == {"pc", "running", "wait", "fired", "cur", "ret", "back", "after", "paused"}
Lists == {"to_io", "pending", "processing", "inbox", "handling", "to_main", "clients"}

Shape ==
    /\ DOMAIN main = MainFields
    /\ DOMAIN q = Threads /\ DOMAIN bell = Threads /\ DOMAIN io = Threads
    /\ \A t \in Threads : /\ DOMAIN q[t] = Lists /\ DOMAIN io[t] = IoFields
                          /\ DOMAIN bell[t] = {"main", "io"} /\ {bell[t].main, bell[t].io} \subseteq BOOLEAN

ClientShape == DOMAIN cl = Clients /\ \A c \in Clients : "tid" \in DOMAIN cl[c]

-----------------------------------------------------------------------------
(* The invariant. *)

(* processClientsFromIOThread, and what follows the lists in beforeSleep. *)
Processing == {"join", "loop", "exec", "pause", "resume", "send", "ring"}
Sending == {"writes", "sendall", "ringall", "sent"}

(* Where server.running is set: from the poll until beforeSleep has found no
   client in a first round; where the main thread does not wait it has found one. *)
MainShape ==
    /\ {main.running, main.wait, main.found} \subseteq BOOLEAN
    /\ main.round \in {1, 2} /\ main.ret \in {"events", "read", "before"}
    /\ main.pc \in Processing \cup Sending \cup {"poll", "events", "idle"}
    /\ main.pc \in {"events", "poll"} => main.ret = "events"
    /\ main.pc \in {"idle"} \cup Sending => main.ret = "before"
    /\ main.pc \in {"join", "loop", "send", "ring"} => main.ret # "read"
    /\ main.pc \in {"pause", "resume"} /\ main.job = "keep" => main.ret # "read"
    /\ main.ret = "before" => main.t \in Threads
    /\ main.ret # "before" => main.round = 1
    /\ main.pc \in {"events", "idle"} => main.running
    /\ main.pc \in Processing /\ main.round = 1 => main.running
    /\ main.round = 2 => ~main.running
    /\ main.pc \in Sending /\ ~main.found => ~main.running
    /\ main.pc = "poll" /\ main.wait => ~main.running

(* sendPendingClientsToIOThreads leaves nothing behind. *)
NothingToGive ==
    \A u \in Threads :
       \/ main.pc = "poll"
       \/ main.pc \in {"sendall", "ringall", "sent"} /\ u < main.t
       \/ main.pc \in {"ringall", "sent"} /\ u = main.t
       => q[u].to_io = <<>>

(* The threads of main.range are being paused or resumed, no others are, and
   a thread that is to pause will look before it sleeps. *)
Pausing ==
    \A t \in Threads :
       /\ IF main.pc = "pause" /\ t \in main.range THEN io[t].paused \in {"PAUSING", "PAUSED"}
          ELSE IF main.pc = "resume" /\ t \in main.range
          THEN io[t].paused \in {"RESUMING", "UNPAUSED"}
          ELSE io[t].paused = "UNPAUSED"
       /\ io[t].paused \in {"PAUSED", "RESUMING"} => io[t].pc = "paused"
       /\ io[t].paused = "PAUSING" /\ ~bell[t].io =>
            io[t].pc \notin {"poll", "send"} /\ ~(io[t].pc = "ring" /\ io[t].after = "poll")

(* freeClientAsync pauses the thread of the client. *)
Target ==
    main.pc = "pause" /\ main.job = "close" =>
        main.arg \in Clients /\ main.range = {cl[main.arg].tid}

(* Thread t is in enqueuePendingClientsToMainThread; after the last look at its
   lists; in processClientsFromMainThread. *)
Chain(t) == io[t].pc \in {"enqueue", "enqueued"} \/ (io[t].pc = "ring" /\ io[t].after = "enqueue")
Leaving(t) ==
    io[t].pc \in {"pause", "paused", "send", "poll"} \/ (io[t].pc = "ring" /\ io[t].after = "poll")
Linking(t) == io[t].pc \in {"join", "link"} \/ (Chain(t) /\ io[t].back = "link")

(* The same for the running flag of an I/O thread. *)
RunningFlag(t) ==
    /\ {io[t].running, io[t].wait} \subseteq BOOLEAN
    /\ io[t].ret \in {"events", "first", "again"} /\ io[t].after \in {"enqueue", "poll"}
    /\ io[t].back \in {"events", "cron", "link"}
    /\ io[t].pc \in {"events", "cron"} \/ (Chain(t) /\ io[t].back # "link") => io[t].running
    /\ Linking(t) => IF io[t].ret = "again" THEN ~io[t].running /\ io[t].wait ELSE io[t].running
    /\ Leaving(t) /\ io[t].wait => ~io[t].running
    /\ io[t].pc = "poll" \/ (io[t].pc = "ring" /\ io[t].after = "poll") => q[t].to_main = <<>>

IoShape == \A t \in Threads : RunningFlag(t)

(* Clients given to an I/O thread: it runs, has been or is about to be notified,
   or looks once more. *)
InboxSeen ==
    \A t \in Threads : q[t].inbox # <<>> =>
       \/ bell[t].io \/ io[t].running
       \/ main.t = t /\ main.pc \in {"ring", "ringall"}
       \/ io[t].pc = "join" /\ io[t].ret = "again"

(* Clients sent to the main thread: the same. *)
PendingSeen ==
    \A t \in Threads : q[t].pending # <<>> =>
       \/ bell[t].main \/ main.running \/ io[t].pc = "ring"
       \/ /\ main.round = 2 /\ main.pc \in Processing
          /\ main.t < t \/ (main.t = t /\ main.pc = "join")

IInv == /\ Shape /\ ClientShape /\ MainShape /\ NothingToGive /\ Pausing /\ Target
        /\ IoShape /\ InboxSeen /\ PendingSeen

-----------------------------------------------------------------------------
(* Lemmas about the operators of the model. *)

(* The I/O threads are numbered from 1. *)
LEMMA ThreadsAreNumbered ==
    /\ 1 \in Threads
    /\ \A t \in Threads : t \in Int /\ t >= 1
    /\ \A t, u \in Threads : t < u => t + 1 \in Threads /\ t + 1 <= u
BY IoThreadsAssumption

(* r and s belong to the same I/O thread. *)
SameThread(r, s) == "tid" \in DOMAIN s /\ s.tid = r.tid

(* What the threads do to a client on the way never changes its I/O thread. *)
LEMMA ClientUpdates ==
    ASSUME NEW r, "tid" \in DOMAIN r
    PROVE  /\ \A kind : SameThread(r, addReply(r, kind))
           /\ \A whole, installed : SameThread(r, writeToClient(r, whole, installed))
           /\ SameThread(r, Unbound(r)) /\ SameThread(r, IoClosed(r))
           /\ \A whole, installed : SameThread(r, MainWrites(r, whole, installed))
           /\ SameThread(r, putClientInPendingWriteQueue(r))
<1>1. \A kind : SameThread(r, addReply(r, kind))
  BY Zenon DEF addReply, SameThread
<1>2. \A whole, installed : SameThread(r, writeToClient(r, whole, installed))
  BY Zenon DEF writeToClient, SameThread
<1>3. SameThread(r, Unbound(r)) /\ SameThread(r, IoClosed(r))
  BY Zenon DEF Unbound, IoClosed, SameThread
<1>4. \A whole, installed : SameThread(r, MainWrites(r, whole, installed))
  BY <1>2, Zenon DEF MainWrites, SameThread
<1>5. SameThread(r, putClientInPendingWriteQueue(r))
  BY Zenon DEF putClientInPendingWriteQueue, SameThread
<1> QED BY <1>1, <1>2, <1>3, <1>4, <1>5, Zenon

(* A freed client still has its fields. *)
LEMMA FreedIsAClient == "tid" \in DOMAIN Freed
BY Zenon DEF Freed, createClient

(* After a list has been processed or handed over, the main thread goes on. *)
GoesOn(f) ==
    /\ DOMAIN main' = MainFields /\ main'.found = f
    /\ \A i \in {"running", "wait", "round", "ret", "job", "arg", "range"} : main'[i] = main[i]
    /\ \/ main'.pc \in {"loop", "ring"} /\ main'.t = main.t
       \/ main.ret = "events" /\ main'.pc = "events" /\ main'.t = main.t
       \/ main.ret = "before" /\ main'.pc = "join" /\ main'.t = main.t + 1 /\ main'.t \in Threads
       \/ /\ main.ret = "before" /\ main.t + 1 \notin Threads
          /\ main'.pc = "idle" /\ main'.t = 1 /\ main.round = 1
       \/ /\ main.ret = "before" /\ main.t + 1 \notin Threads
          /\ main'.pc = "writes" /\ main'.t = 1 /\ (main.round = 2 \/ f)

(* Where processClientsFromIOThread returns to. *)
LEMMA ReturnEffect ==
    ASSUME IInv, NEW f \in BOOLEAN, Return(f), main.pc \in {"join", "send", "ring"}
    PROVE  GoesOn(f) /\ main'.pc # "ring"
<1> USE DEF IInv, Shape, MainFields, Return, GoesOn
<1>1. /\ DOMAIN main' = MainFields /\ main'.found = f
      /\ \A i \in {"running", "wait", "round", "ret", "job", "arg", "range"} : main'[i] = main[i]
      /\ main'.pc = AfterThread(f).pc /\ main'.t = AfterThread(f).t
  BY Zenon
<1>2. /\ main.ret = "events" \/ main.ret = "before"
      /\ main.round \in {1, 2}
  BY Zenon DEF MainShape
<1>3. CASE main.ret = "events"
  BY <1>1, <1>3, Zenon DEF AfterThread
<1>4. CASE main.ret = "before" /\ main.t + 1 \in Threads
  BY <1>1, <1>4, Zenon DEF AfterThread
<1>5. CASE main.ret = "before" /\ main.t + 1 \notin Threads
  BY <1>1, <1>2, <1>5, Zenon DEF AfterThread
<1> QED BY <1>2, <1>3, <1>4, <1>5, Zenon

(* pauseIOThreadsRange, from the execution of a command or its end. *)
LEMMA PauseEffect ==
    ASSUME IInv, NEW job, NEW c, NEW range, PauseFor(job, c, range), main.pc = "exec"
    PROVE  /\ Shape' \/ q' # q
           /\ \A i \in MainFields \ {"pc", "job", "arg", "range"} : main'[i] = main[i]
           /\ main'.pc = "pause" /\ main'.job = job /\ main'.arg = c /\ main'.range = range
           /\ \A t \in Threads :
                /\ \A i \in IoFields \ {"paused"} : io'[t][i] = io[t][i]
                /\ io'[t].paused = IF t \in range THEN "PAUSING" ELSE "UNPAUSED"
                /\ bell'[t].main = bell[t].main /\ bell'[t].io = (bell[t].io \/ t \in range)
<1> USE DEF IInv, Shape, PauseFor
<1>1. /\ DOMAIN main' = MainFields
      /\ \A i \in MainFields \ {"pc", "job", "arg", "range"} : main'[i] = main[i]
      /\ main'.pc = "pause" /\ main'.job = job /\ main'.arg = c /\ main'.range = range
  BY Zenon DEF MainFields
<1>2. DOMAIN io' = Threads /\ DOMAIN bell' = Threads
  BY Zenon
<1>3. ASSUME NEW t \in Threads
      PROVE  /\ DOMAIN io'[t] = IoFields /\ \A i \in IoFields \ {"paused"} : io'[t][i] = io[t][i]
             /\ io'[t].paused = IF t \in range THEN "PAUSING" ELSE "UNPAUSED"
  BY Zenon DEF IoFields, Pausing
<1>4. ASSUME NEW t \in Threads
      PROVE  /\ DOMAIN bell'[t] = {"main", "io"} /\ bell'[t].main = bell[t].main
             /\ bell'[t].io = (bell[t].io \/ t \in range)
             /\ {bell'[t].main, bell'[t].io} \subseteq BOOLEAN
  BY Zenon
<1> QED BY <1>1, <1>2, <1>3, <1>4, Zenon

-----------------------------------------------------------------------------
(* The steps of the main thread. *)

(* The main thread wakes up. *)
LEMMA AfterSleepStep ==
    ASSUME IInv, afterSleep
    PROVE  IInv'
<1> USE ThreadsAreNumbered DEF IInv, Shape, MainFields, Lists, afterSleep, At
<1>1. Shape' /\ ClientShape' /\ NothingToGive' /\ Target'
  BY Zenon DEF ClientShape, NothingToGive, MainShape, Target
<1>2. MainShape'
  BY DEF MainShape, Processing, Sending
<1>3. Pausing'
  BY Zenon DEF Pausing
<1>4. IoShape'
  BY Zenon DEF IoShape, RunningFlag, Chain, Leaving, Linking
<1>5. InboxSeen' /\ PendingSeen'
  BY Zenon DEF InboxSeen, IoShape, RunningFlag, Chain, Leaving, Linking, PendingSeen, MainShape,
         Processing, Sending
<1> QED BY <1>1, <1>2, <1>3, <1>4, <1>5, Zenon

(* beforeSleep clears server.running and goes on to look again. *)
LEMMA IdleStep ==
    ASSUME IInv, Idle
    PROVE  IInv'
<1> USE ThreadsAreNumbered DEF IInv, Shape, MainFields, Lists, Idle, At
<1>1. Shape' /\ ClientShape' /\ NothingToGive' /\ Target'
  BY Zenon DEF ClientShape, NothingToGive, MainShape, Target
<1>2. MainShape'
  BY Zenon DEF MainShape, Processing, Sending
<1>3. Pausing'
  BY Zenon DEF Pausing
<1>4. IoShape'
  BY Zenon DEF IoShape, RunningFlag, Chain, Leaving, Linking
<1>5. InboxSeen' /\ PendingSeen'
  BY DEF InboxSeen, IoShape, RunningFlag, Chain, Leaving, Linking, PendingSeen, MainShape,
         Processing, Sending
<1> QED BY <1>1, <1>2, <1>3, <1>4, <1>5, Zenon

(* processClientsFromIOThread has gone through its list. *)
LEMMA EndOfLoopStep ==
    ASSUME IInv, EndOfLoop
    PROVE  IInv'
<1> USE ThreadsAreNumbered DEF IInv, Shape, MainFields, Lists, EndOfLoop, At
<1>1. Shape' /\ ClientShape' /\ NothingToGive' /\ Target'
  BY Zenon DEF ClientShape, NothingToGive, MainShape, Target
<1>2. MainShape'
  BY Zenon DEF MainShape, Processing, Sending
<1>3. Pausing'
  BY Zenon DEF Pausing
<1>4. IoShape'
  BY Zenon DEF IoShape, RunningFlag, Chain, Leaving, Linking
<1>5. InboxSeen' /\ PendingSeen'
  BY Zenon DEF InboxSeen, IoShape, RunningFlag, Chain, Leaving, Linking, PendingSeen, MainShape,
         Processing, Sending
<1> QED BY <1>1, <1>2, <1>3, <1>4, <1>5, Zenon

(* The main thread has seen all threads resume. *)
LEMMA ResumedStep ==
    ASSUME IInv, Resumed
    PROVE  IInv'
<1> USE ThreadsAreNumbered DEF IInv, Shape, MainFields, Lists, Resumed, At
<1>1. Shape' /\ ClientShape' /\ NothingToGive' /\ Target'
  BY Zenon DEF ClientShape, NothingToGive, MainShape, Target
<1>2. MainShape'
  BY Zenon DEF MainShape, Processing, Sending
<1>3. Pausing'
  BY Zenon DEF Pausing
<1>4. IoShape'
  BY Zenon DEF IoShape, RunningFlag, Chain, Leaving, Linking
<1>5. InboxSeen' /\ PendingSeen'
  BY Zenon DEF InboxSeen, IoShape, RunningFlag, Chain, Leaving, Linking, PendingSeen, MainShape,
         Processing, Sending
<1> QED BY <1>1, <1>2, <1>3, <1>4, <1>5, Zenon

(* beforeSleep begins. *)
LEMMA BeforeSleepStep ==
    ASSUME IInv, beforeSleep
    PROVE  IInv'
<1> USE ThreadsAreNumbered DEF IInv, Shape, MainFields, Lists, beforeSleep, At
<1>1. Shape' /\ ClientShape' /\ NothingToGive' /\ Target'
  BY Zenon DEF ClientShape, NothingToGive, MainShape, Target
<1>2. MainShape'
  BY Zenon DEF MainShape, Processing, Sending
<1>3. Pausing'
  BY Zenon DEF Pausing
<1>4. IoShape'
  BY Zenon DEF IoShape, RunningFlag, Chain, Leaving, Linking
<1>5. InboxSeen' /\ PendingSeen'
  BY Zenon DEF InboxSeen, IoShape, RunningFlag, Chain, Leaving, Linking, PendingSeen, MainShape,
         Processing, Sending
<1> QED BY <1>1, <1>2, <1>3, <1>4, <1>5, Zenon

(* Clients are given to an I/O thread, which is notified next. *)
LEMMA SendPendingClientsToIOThreadsStep ==
    ASSUME IInv, sendPendingClientsToIOThreads
    PROVE  IInv'
<1> USE ThreadsAreNumbered DEF IInv, Shape, MainFields, Lists, sendPendingClientsToIOThreads, At,
        Goto, Given
<1>1. Shape' /\ ClientShape' /\ NothingToGive' /\ Target'
  BY DEF ClientShape, NothingToGive, MainShape, Target
<1>2. MainShape'
  BY Zenon DEF MainShape, Processing, Sending
<1>3. Pausing'
  BY Zenon DEF Pausing
<1>4. IoShape'
  BY DEF IoShape, RunningFlag, Chain, Leaving, Linking
<1>5. InboxSeen' /\ PendingSeen'
  BY DEF InboxSeen, IoShape, RunningFlag, Chain, Leaving, Linking, PendingSeen, MainShape,
         Processing, Sending
<1> QED BY <1>1, <1>2, <1>3, <1>4, <1>5, Zenon

(* sendPendingClientsToIOThreads notifies. *)
LEMMA RingAlwaysStep ==
    ASSUME IInv, RingAlways
    PROVE  IInv'
<1> USE ThreadsAreNumbered DEF IInv, Shape, MainFields, Lists, RingAlways, At, Goto
<1>1. Shape'
  OBVIOUS
<1>2. ClientShape' /\ NothingToGive' /\ Target'
  BY Zenon DEF ClientShape, NothingToGive, MainShape, Target
<1>3. MainShape'
  BY Zenon DEF MainShape, Processing, Sending
<1>4. Pausing'
  BY Zenon DEF Pausing
<1>5. IoShape'
  BY Zenon DEF IoShape, RunningFlag, Chain, Leaving, Linking
<1>6. InboxSeen' /\ PendingSeen'
  BY DEF InboxSeen, IoShape, RunningFlag, Chain, Leaving, Linking, PendingSeen, MainShape,
         Processing, Sending
<1> QED BY <1>1, <1>2, <1>3, <1>4, <1>5, <1>6, Zenon

(* The main thread takes the next client of a list. *)
LEMMA NextClientStep ==
    ASSUME IInv, NextClient
    PROVE  IInv'
<1> USE ThreadsAreNumbered DEF IInv, Shape, MainFields, Lists, NextClient, At, Freed, createClient
<1>1. Shape' /\ ClientShape' /\ NothingToGive' /\ Target'
  BY Zenon DEF ClientShape, NothingToGive, MainShape, Target
<1>2. MainShape'
  BY Zenon DEF MainShape, Processing, Sending
<1>3. Pausing'
  BY Zenon DEF Pausing
<1>4. IoShape'
  BY DEF IoShape, RunningFlag, Chain, Leaving, Linking
<1>5. InboxSeen' /\ PendingSeen'
  BY DEF InboxSeen, IoShape, RunningFlag, Chain, Leaving, Linking, PendingSeen, MainShape,
         Processing, Sending
<1> QED BY <1>1, <1>2, <1>3, <1>4, <1>5, Zenon

(* Going on to the next I/O thread keeps what the lists and flags do not decide. *)
LEMMA GoingOn ==
    ASSUME IInv, NEW f \in BOOLEAN, main.pc \in {"join", "send", "ring"}, GoesOn(f),
           UNCHANGED <<cl, io>>,
           \A t \in Threads : bell[t].io => bell'[t].io
    PROVE  ClientShape' /\ MainShape' /\ NothingToGive' /\ Pausing' /\ Target'
<1> USE ThreadsAreNumbered DEF IInv, GoesOn
<1>1. ClientShape' /\ Target' /\ NothingToGive'
  BY Zenon DEF ClientShape, Target, NothingToGive
<1>2. MainShape'
  BY Zenon DEF MainShape, Processing, Sending
<1>3. Pausing'
  BY Zenon DEF Pausing
<1> QED BY <1>1, <1>2, <1>3, Zenon

(* The main thread takes what an I/O thread has sent. *)
LEMMA JoinPendingStep ==
    ASSUME IInv, JoinPending
    PROVE  IInv'
<1> DEFINE f == main.found \/ (main.ret = "before" /\ main.round = 1 /\ Joined # <<>>)
<1> USE ThreadsAreNumbered DEF IInv, Shape
<1>1. main.pc = "join" /\ f \in BOOLEAN /\ UNCHANGED <<cl, bell, io>>
  BY Zenon DEF JoinPending, At, MainShape
<1>2. q' = [q EXCEPT ![main.t].processing = Joined, ![main.t].pending = <<>>]
  BY Zenon DEF JoinPending
<1>3. GoesOn(f)
  <2>1. CASE Joined = <<>>
    <3>1. Return(f)
      BY <2>1, Zenon DEF JoinPending
    <3> HIDE DEF f
    <3> QED BY <1>1, <3>1, ReturnEffect, Zenon DEF GoesOn
  <2>2. CASE Joined # <<>>
    <3>1. main' = [main EXCEPT !.pc = "loop", !.found = f]
      BY <2>2, Zenon DEF JoinPending
    <3> HIDE DEF f
    <3> QED BY <3>1, Zenon DEF GoesOn, MainFields
  <2> QED BY <2>1, <2>2, Zenon
<1> HIDE DEF f
<1>4. ClientShape' /\ MainShape' /\ NothingToGive' /\ Pausing' /\ Target'
  BY <1>1, <1>3, GoingOn, Zenon
<1>5. Shape'
  BY <1>1, <1>2, <1>3, Zenon DEF GoesOn, Lists
<1>6. IoShape' /\ InboxSeen'
  BY <1>1, <1>2 DEF IoShape, RunningFlag, Chain, Leaving, Linking, InboxSeen, Lists
<1>7. PendingSeen'
  BY <1>1, <1>2, <1>3 DEF GoesOn, PendingSeen, MainShape, Processing, Lists
<1> QED BY <1>4, <1>5, <1>6, <1>7, Zenon

(* After it has sent clients, the main thread goes on in either way. *)
LEMMA AfterSendGoesOn ==
    ASSUME IInv, AfterSend, main.pc \in {"send", "ring"}
    PROVE  GoesOn(main.found) /\ main'.pc # "ring"
<1> USE DEF IInv
<1>1. CASE main.check
  BY <1>1, Zenon DEF AfterSend, Goto, GoesOn, Shape, MainFields
<1>2. CASE ~main.check
  BY <1>2, ReturnEffect, Zenon DEF AfterSend, GoesOn, MainShape
<1> QED BY <1>1, <1>2, Zenon

(* Clients are given to an I/O thread, unless they are few or must wait for the AOF. *)
LEMMA SendIfNeededStep ==
    ASSUME IInv, SendIfNeeded
    PROVE  IInv'
<1> USE ThreadsAreNumbered DEF IInv, Shape
<1>1. main.pc = "send" /\ UNCHANGED <<cl, bell, io>> /\ main.found \in BOOLEAN
  BY Zenon DEF SendIfNeeded, At, MainShape
<1>2. /\ \/ q' = q
         \/ q' = [q EXCEPT ![main.t] = Given(@)]
      /\ GoesOn(main.found)
      /\ \/ q' = q
         \/ q[main.t].inbox # <<>>
         \/ main'.pc = "ring"
  <2> DEFINE none == \/ q[main.t].to_io = <<>> \/ FsyncAlways
                     \/ main.check /\ Len(q[main.t].to_io) < MaxPending
  <2>1. /\ q' = IF none THEN q ELSE [q EXCEPT ![main.t] = Given(@)]
        /\ IF none \/ q[main.t].inbox # <<>> THEN AfterSend ELSE Goto("ring")
    BY Zenon DEF SendIfNeeded
  <2> HIDE DEF none
  <2>2. AfterSend => GoesOn(main.found)
    BY <1>1, AfterSendGoesOn, Zenon
  <2>3. Goto("ring") => GoesOn(main.found) /\ main'.pc = "ring"
    BY Zenon DEF Goto, GoesOn, MainFields
  <2> QED BY <2>1, <2>2, <2>3, Zenon
<1>3. ClientShape' /\ MainShape' /\ NothingToGive' /\ Pausing' /\ Target'
  BY <1>1, <1>2, GoingOn, Zenon
<1>4. /\ DOMAIN q' = Threads
      /\ \A t \in Threads : /\ DOMAIN q'[t] = Lists /\ q'[t].pending = q[t].pending
                            /\ q'[t].to_main = q[t].to_main
                            /\ q'[t].inbox = q[t].inbox \/ t = main.t
  <2>1. CASE q' = [q EXCEPT ![main.t] = Given(@)]
    BY <2>1, Zenon DEF Given, Lists
  <2> QED BY <1>2, <2>1, Zenon
<1>5. Shape'
  BY <1>1, <1>2, <1>4, Zenon DEF GoesOn
<1>6. IoShape'
  BY <1>1, <1>4 DEF IoShape, RunningFlag, Chain, Leaving, Linking
<1>7. InboxSeen'
  BY <1>1, <1>2, <1>4 DEF InboxSeen, GoesOn
<1>8. PendingSeen'
  BY <1>1, <1>2, <1>4 DEF GoesOn, PendingSeen, MainShape, Processing
<1> QED BY <1>3, <1>5, <1>6, <1>7, <1>8, Zenon

(* The I/O thread is notified unless it is running. *)
LEMMA RingIfNotRunningStep ==
    ASSUME IInv, RingIfNotRunning
    PROVE  IInv'
<1> USE ThreadsAreNumbered DEF IInv, Shape
<1>1. main.pc = "ring" /\ UNCHANGED <<cl, q, io>> /\ main.found \in BOOLEAN
  BY Zenon DEF RingIfNotRunning, At, MainShape
<1>2. GoesOn(main.found) /\ main'.pc # "ring"
  BY <1>1, AfterSendGoesOn, Zenon DEF RingIfNotRunning
<1>3. /\ DOMAIN bell' = Threads
      /\ \A t \in Threads : /\ DOMAIN bell'[t] = {"main", "io"} /\ bell'[t].main = bell[t].main
                            /\ bell'[t].io = (bell[t].io \/ (t = main.t /\ ~io[t].running))
  BY Zenon DEF RingIfNotRunning
<1>4. ClientShape' /\ MainShape' /\ NothingToGive' /\ Pausing' /\ Target'
  BY <1>1, <1>2, <1>3, GoingOn, Zenon
<1>5. Shape'
  BY <1>1, <1>2, <1>3, Zenon DEF GoesOn
<1>6. IoShape'
  BY <1>1, Zenon DEF IoShape, RunningFlag, Chain, Leaving, Linking
<1>7. InboxSeen'
  BY <1>1, <1>2, <1>3, Zenon DEF InboxSeen, GoesOn
<1>8. PendingSeen'
  BY <1>1, <1>2, <1>3 DEF GoesOn, PendingSeen, MainShape, Processing
<1> QED BY <1>4, <1>5, <1>6, <1>7, <1>8

(* The main thread is about to poll: this is where it may sleep. *)
LEMMA SentAllStep ==
    ASSUME IInv, SentAll
    PROVE  IInv'
<1> USE ThreadsAreNumbered DEF IInv, Shape
<1>1. main.pc = "sent" /\ UNCHANGED <<q, bell, io>>
  BY Zenon DEF SentAll, At
<1>2. /\ DOMAIN main' = MainFields /\ main'.running = main.running
      /\ main'.job = main.job /\ main'.arg = main.arg /\ main'.range = main.range
      /\ \/ /\ main.t + 1 \in Threads /\ main'.pc = "sendall" /\ main'.t = main.t + 1
            /\ \A i \in {"wait", "round", "ret", "found"} : main'[i] = main[i]
         \/ /\ main.t + 1 \notin Threads /\ main'.pc = "poll" /\ main'.wait = ~main.found
            /\ main'.t = 1 /\ main'.round = 1 /\ main'.found = FALSE /\ main'.ret = "events"
  BY DEF SentAll, MainFields
<1>3. ClientShape'
  BY FreedIsAClient DEF SentAll, ClientShape
<1>4. Shape' /\ MainShape'
  BY <1>1, <1>2, Zenon DEF MainShape, Processing, Sending
<1>5. NothingToGive'
  BY <1>1, <1>2 DEF NothingToGive, MainShape, Processing, Sending
<1>6. Pausing' /\ Target'
  BY <1>1, <1>2, Zenon DEF Pausing, Target
<1>7. IoShape' /\ InboxSeen'
  BY <1>1, <1>2, Zenon DEF IoShape, RunningFlag, Chain, Leaving, Linking, InboxSeen
<1>8. PendingSeen'
  BY <1>1, <1>2, Zenon DEF PendingSeen, Processing
<1> QED BY <1>3, <1>4, <1>5, <1>6, <1>7, <1>8, Zenon

(* One client is changed. *)
LEMMA ChangesOneClient ==
    ASSUME ClientShape, NEW c, NEW r, c \in Clients => "tid" \in DOMAIN r,
           cl' = [cl EXCEPT ![c] = r]
    PROVE  ClientShape'
BY Zenon DEF ClientShape

(* The main thread works on clients, and hands over nothing but to its own list. *)
LEMMA QuietStep ==
    ASSUME IInv, main.pc \in {"events", "exec", "writes"}, UNCHANGED <<bell, io>>, ClientShape',
           DOMAIN main' = MainFields,
           \A i \in MainFields \ {"fired", "cur"} : main'[i] = main[i],
           DOMAIN q' = Threads,
           \A t \in Threads : /\ DOMAIN q'[t] = Lists
                              /\ \A i \in {"pending", "inbox", "to_main"} : q'[t][i] = q[t][i]
    PROVE  IInv'
<1> USE DEF IInv, MainFields
<1>1. Shape' /\ NothingToGive' /\ Target' /\ Pausing'
  BY Zenon DEF Shape, NothingToGive, Target, Pausing
<1>2. MainShape'
  BY Zenon DEF MainShape
<1>3. IoShape'
  BY DEF IoShape, RunningFlag, Chain, Leaving, Linking
<1>4. InboxSeen' /\ PendingSeen'
  BY Zenon DEF InboxSeen, PendingSeen
<1> QED BY <1>1, <1>2, <1>3, <1>4, Zenon

(* A new client is queued for its I/O thread, and no other list changes. *)
LEMMA AssignedClient ==
    ASSUME IInv, NEW c, assignClientToIOThread(c)
    PROVE  /\ ClientShape' /\ DOMAIN q' = Threads
           /\ \A u \in Threads : /\ DOMAIN q'[u] = Lists
                                 /\ \A i \in {"pending", "inbox", "to_main"} : q'[u][i] = q[u][i]
<1> USE DEF IInv
<1>1. ClientShape'
  BY ChangesOneClient, Zenon DEF assignClientToIOThread, Unbound, ClientShape
<1>2. PICK t \in Threads : q' = [q EXCEPT ![t].to_io = <<c>> \o @]
  BY Zenon DEF assignClientToIOThread
<1> QED BY <1>1, <1>2, Zenon DEF Shape, Lists

(* The main thread handles an event. *)
LEMMA MainEventStep ==
    ASSUME IInv, MainEvent
    PROVE  IInv'
<1> USE DEF IInv
<1>1. main.pc = "events" /\ UNCHANGED io
  BY Zenon DEF MainEvent, At
<1>2. ASSUME NEW t, handleClientsFromIOThread(t) PROVE IInv'
  <2> USE <1>1, <1>2 DEF handleClientsFromIOThread, Shape
  <2>1. Shape' /\ ClientShape' /\ MainShape'
    BY DEF MainFields, ClientShape, MainShape, Processing, Sending
  <2>2. NothingToGive' /\ Target' /\ Pausing'
    BY Zenon DEF MainFields, NothingToGive, Target, Pausing
  <2>3. IoShape'
    BY Zenon DEF IoShape, RunningFlag, Chain, Leaving, Linking
  <2>4. InboxSeen' /\ PendingSeen'
    BY Zenon DEF MainFields, InboxSeen, PendingSeen, MainShape
  <2> QED BY <2>1, <2>2, <2>3, <2>4, Zenon
<1>3. ASSUME NEW c, Accept(c) PROVE IInv'
  <2>1. /\ DOMAIN main' = MainFields /\ UNCHANGED bell
        /\ \A i \in MainFields \ {"fired", "cur"} : main'[i] = main[i]
    BY <1>3, Zenon DEF Accept, Shape, MainFields
  <2> QED BY <1>1, <1>3, <2>1, AssignedClient, QuietStep, Zenon DEF Accept
<1>4. ASSUME NEW c, MainRead(c) PROVE IInv'
  <2> DEFINE valid == cl[c].el = Main /\ cl[c].rw
             eof == sock[c] = <<EOF>>
  <2>1. /\ UNCHANGED <<q, bell>>
        /\ main' = [main EXCEPT !.fired = @ \ {<<"read", c>>},
                                !.pc = IF valid /\ ~eof THEN "exec" ELSE @,
                                !.ret = IF valid /\ ~eof THEN "read" ELSE @,
                                !.cur = IF valid /\ ~eof THEN c ELSE @]
    BY <1>4, Zenon DEF MainRead
  <2>2. ClientShape'
    <3>1. CASE ~valid
      BY <1>4, <3>1, Zenon DEF MainRead, ClientShape
    <3>2. CASE valid /\ eof
      <4>1. cl' = [cl EXCEPT ![c] = Freed]
        BY <1>4, <3>2, Zenon DEF MainRead
      <4> QED BY <4>1, ChangesOneClient, FreedIsAClient, Zenon
    <3>3. CASE valid /\ ~eof
      BY <1>4, <3>3, Zenon DEF MainRead, Received, ClientShape
    <3> QED BY <3>1, <3>2, <3>3, Zenon
  <2> HIDE DEF valid, eof
  <2>3. CASE ~(valid /\ ~eof)
    <3>1. /\ DOMAIN main' = MainFields
          /\ \A i \in MainFields \ {"fired", "cur"} : main'[i] = main[i]
      BY <2>1, <2>3, Zenon DEF Shape, MainFields
    <3> QED BY <1>1, <2>1, <2>2, <3>1, QuietStep, Zenon DEF Shape
  <2>4. CASE valid /\ ~eof
    <3>1. /\ DOMAIN main' = MainFields /\ main'.pc = "exec" /\ main'.ret = "read"
          /\ \A i \in MainFields \ {"fired", "cur", "pc", "ret"} : main'[i] = main[i]
      BY <2>1, <2>4, Zenon DEF Shape, MainFields
    <3>2. Shape' /\ NothingToGive' /\ Target' /\ Pausing'
      BY <1>1, <2>1, <3>1 DEF Shape, NothingToGive, Target, Pausing, MainFields
    <3>3. MainShape'
      BY <1>1, <3>1 DEF MainShape, MainFields, Processing, Sending
    <3>4. IoShape' /\ InboxSeen' /\ PendingSeen'
      BY <1>1, <2>1, <3>1 DEF IoShape, RunningFlag, Chain, Leaving, Linking, InboxSeen,
                              PendingSeen, MainFields, Processing
    <3> QED BY <2>2, <3>2, <3>3, <3>4, Zenon
  <2> QED BY <2>3, <2>4, Zenon
<1>5. ASSUME NEW c, MainWrite(c) PROVE IInv'
  <2>1. /\ DOMAIN main' = MainFields /\ UNCHANGED <<q, bell>>
        /\ \A i \in MainFields \ {"fired", "cur"} : main'[i] = main[i]
    BY <1>5, Zenon DEF MainWrite, Shape, MainFields
  <2>2. PICK whole : cl' \in {cl, [cl EXCEPT ![c] = MainWrites(cl[c], whole, TRUE)]}
    BY <1>5, Zenon DEF MainWrite
  <2>3. c \in Clients => "tid" \in DOMAIN MainWrites(cl[c], whole, TRUE)
    BY ClientUpdates, Zenon DEF SameThread, ClientShape
  <2>4. ClientShape'
    BY <2>2, <2>3, Zenon DEF ClientShape
  <2> QED BY <1>1, <2>1, <2>4, QuietStep, Zenon DEF Shape
<1> QED BY <1>2, <1>3, <1>4, <1>5, Zenon DEF MainEvent

(* The main thread writes the replies of its own clients. *)
LEMMA PendingWritesStep ==
    ASSUME IInv, handleClientsWithPendingWrites
    PROVE  IInv'
<1> USE DEF IInv
<1>1. main.pc = "writes" /\ UNCHANGED <<bell, io>>
  BY Zenon DEF handleClientsWithPendingWrites, At
<1>2. CASE main' = [main EXCEPT !.pc = "sendall", !.t = 1] /\ UNCHANGED <<cl, q>>
  <2> USE <1>1, <1>2, ThreadsAreNumbered DEF Shape, MainFields
  <2>1. Shape' /\ ClientShape' /\ NothingToGive' /\ Target' /\ Pausing'
    BY DEF ClientShape, NothingToGive, Target, Pausing
  <2>2. MainShape'
    BY Zenon DEF MainShape, Processing, Sending
  <2>3. IoShape' /\ InboxSeen' /\ PendingSeen'
    BY Zenon DEF IoShape, RunningFlag, Chain, Leaving, Linking, InboxSeen, PendingSeen, Processing
  <2> QED BY <2>1, <2>2, <2>3, Zenon
<1>3. ASSUME NEW c \in Clients, PendingWrite(c), UNCHANGED main PROVE IInv'
  <2> DEFINE r == [cl[c] EXCEPT !.pendw = FALSE]
  <2>1. "tid" \in DOMAIN r
    BY Zenon DEF ClientShape
  <2>2. CASE assignClientToIOThread(c)
    BY <1>1, <1>3, <2>2, AssignedClient, QuietStep, Zenon DEF Shape
  <2>3. CASE cl' = [cl EXCEPT ![c] = r] /\ UNCHANGED q
    BY <1>1, <1>3, <2>1, <2>3, ChangesOneClient, QuietStep, Zenon DEF Shape
  <2>4. ASSUME NEW whole, cl' = [cl EXCEPT ![c] = MainWrites(r, whole, FALSE)], UNCHANGED q
        PROVE  IInv'
    <3> HIDE DEF r
    <3>1. "tid" \in DOMAIN MainWrites(r, whole, FALSE)
      BY <2>1, ClientUpdates, Zenon DEF SameThread
    <3> QED BY <1>1, <1>3, <2>4, <3>1, ChangesOneClient, QuietStep, Zenon DEF Shape
  <2> QED BY <1>3, <2>2, <2>3, <2>4, Zenon DEF PendingWrite
<1> QED BY <1>2, <1>3, Zenon DEF handleClientsWithPendingWrites

(* The main thread pauses the I/O threads of range. *)
LEMMA PausesStep ==
    ASSUME IInv, NEW job, NEW c, NEW range, PauseFor(job, c, range), main.pc = "exec",
           ClientShape', UNCHANGED q, job = "keep" => main.ret # "read",
           job = "close" => c \in Clients /\ range = {cl'[c].tid}
    PROVE  IInv'
<1> USE PauseEffect DEF IInv
<1>1. Shape' /\ NothingToGive' /\ Target'
  BY Zenon DEF NothingToGive, Target
<1>2. MainShape'
  BY DEF MainShape, MainFields, Processing, Sending
<1>3. Pausing'
  BY Zenon DEF Pausing
<1>4. IoShape'
  BY DEF IoShape, RunningFlag, Chain, Leaving, Linking, IoFields
<1>5. InboxSeen' /\ PendingSeen'
  BY DEF InboxSeen, PendingSeen, MainFields, IoFields, Processing, Shape
<1> QED BY <1>1, <1>2, <1>3, <1>4, <1>5, Zenon

(* A command, which may begin to pause I/O threads. *)
LEMMA ExecCommandStep ==
    ASSUME IInv, ExecCommand
    PROVE  IInv'
<1> DEFINE c == main.cur
           op == Head(cl[c].got).op
           d == Head(cl[c].got).of
<1> USE DEF IInv
<1>1. main.pc = "exec" /\ UNCHANGED q
  BY Zenon DEF ExecCommand, At
<1>2. c \in Clients => \A kind : "tid" \in DOMAIN Replied(c, kind)
  <2>1. c \in Clients => "tid" \in DOMAIN [cl[c] EXCEPT !.got = Tail(@)]
    BY Zenon DEF ClientShape
  <2> QED BY <2>1, ClientUpdates, Zenon DEF Replied, SameThread
<1>3. ASSUME ClientShape', UNCHANGED <<bell, main, io>>
      PROVE  IInv'
  BY <1>1, <1>3, QuietStep, Zenon DEF Shape
<1>4. CASE ExecPlain(c, op)
  <2>1. ClientShape'
    BY <1>2, <1>4, Zenon DEF ExecPlain, ClientShape
  <2> QED BY <1>3, <1>4, <2>1, Zenon DEF ExecPlain
<1>5. CASE ExecPublish(c, op)
  <2> DEFINE r(e) == IF e = c THEN Replied(c, "clean") ELSE cl[e]
  <2>1. \A e \in Clients : "tid" \in DOMAIN r(e)
    BY <1>2, Zenon DEF ClientShape
  <2>2. cl' = [e \in Clients |-> IF r(e).pubsub THEN addReply(r(e), "clean") ELSE r(e)]
    BY <1>5, Zenon DEF ExecPublish
  <2> HIDE DEF r
  <2>3. ClientShape'
    BY <2>1, <2>2, ClientUpdates, Zenon DEF ClientShape, SameThread
  <2> QED BY <1>3, <1>5, <2>3, Zenon DEF ExecPublish
<1>6. CASE ExecList(c, op)
  <2>1. ClientShape'
    BY <1>2, <1>6, Zenon DEF ExecList, ClientShape
  <2> QED BY <1>1, <1>6, <2>1, PausesStep, Zenon DEF ExecList
<1>7. CASE ExecOther(c, op, d)
  <2>1. d \in Clients \ {c} /\ op \in {"kill", "close"}
    BY <1>7, Zenon DEF ExecOther
  <2>2. CASE cl[d].running # Main
    <3>1. cl' = [cl EXCEPT ![c] = Replied(c, "clean")] /\ PauseFor(op, d, {cl[d].tid})
      BY <1>7, <2>2, Zenon DEF ExecOther
    <3>2. ClientShape' /\ cl'[d].tid = cl[d].tid
      BY <1>2, <2>1, <3>1, Zenon DEF ClientShape
    <3> HIDE DEF op, d
    <3> QED BY <1>1, <2>1, <3>1, <3>2, PausesStep, Zenon
  <2>3. CASE cl[d].running = Main
    <3>1. ClientShape'
      BY <1>2, <1>7, <2>3, FreedIsAClient, Zenon DEF ExecOther, ClientShape
    <3> QED BY <1>3, <1>7, <2>3, <3>1, Zenon DEF ExecOther
  <2> QED BY <2>2, <2>3, Zenon
<1>8. CASE ExecSelf(c, op, d)
  <2>1. ClientShape'
    BY <1>2, <1>8, Zenon DEF ExecSelf, ClientShape
  <2> QED BY <1>3, <1>8, <2>1, Zenon DEF ExecSelf
<1>9. CASE ExecNoSuchClient(c, op, d)
  <2>1. ClientShape'
    BY <1>2, <1>9, Zenon DEF ExecNoSuchClient, ClientShape
  <2> QED BY <1>3, <1>9, <2>1, Zenon DEF ExecNoSuchClient
<1> QED BY <1>4, <1>5, <1>6, <1>7, <1>8, <1>9, Zenon DEF ExecCommand

(* The main thread keeps a client, gives it back or drops it. *)
LEMMA FinishStep ==
    ASSUME IInv, Finish
    PROVE  IInv'
<1> DEFINE c == main.cur
           t == cl[c].tid
           r == putClientInPendingWriteQueue(cl[c])
<1> USE DEF IInv
<1>1. main.pc = "exec"
  BY Zenon DEF Finish, At
<1>2. c \in Clients => "tid" \in DOMAIN r
  BY ClientUpdates, Zenon DEF SameThread, ClientShape
<1>3. CASE /\ main.ret = "read"
           /\ cl' = [cl EXCEPT ![c] = IF @.close THEN Freed ELSE @]
           /\ main' = [main EXCEPT !.pc = "events", !.ret = "events", !.cur = NoClient]
           /\ UNCHANGED <<q, bell, io>>
  <2>1. Shape' /\ ClientShape'
    BY <1>3, FreedIsAClient, Zenon DEF Shape, ClientShape, MainFields
  <2>2. MainShape' /\ NothingToGive' /\ Target' /\ Pausing'
    BY <1>1, <1>3, Zenon DEF Shape, MainFields, MainShape, Processing, Sending, NothingToGive, Target,
                      Pausing
  <2>3. IoShape' /\ InboxSeen' /\ PendingSeen'
    BY <1>1, <1>3, Zenon DEF Shape, MainFields, MainShape, IoShape, RunningFlag, Chain, Leaving, Linking,
                      InboxSeen, PendingSeen, Processing
  <2> QED BY <2>1, <2>2, <2>3, Zenon
<1>4. CASE /\ main.ret # "read" /\ cl' = [cl EXCEPT ![c] = r]
           /\ PauseFor("keep", c, {t}) /\ UNCHANGED q
  <2> HIDE DEF r
  <2>1. ClientShape'
    BY <1>2, <1>4, ChangesOneClient, Zenon
  <2> QED BY <1>1, <1>4, <2>1, PausesStep, Zenon
<1>5. CASE /\ main.ret # "read"
           /\ cl' = [cl EXCEPT ![c] = [r EXCEPT !.pendw = FALSE, !.running = t]]
           /\ q' = [q EXCEPT ![t].to_io = <<c>> \o @]
           /\ main' = [main EXCEPT !.pc = "send", !.check = TRUE, !.cur = NoClient]
           /\ UNCHANGED <<bell, io>>
  <2> HIDE DEF r, t
  <2>1. Shape' /\ ClientShape'
    BY <1>2, <1>5, Zenon DEF Shape, ClientShape, MainFields, Lists
  <2>2. MainShape' /\ NothingToGive' /\ Target' /\ Pausing'
    BY <1>1, <1>5, Zenon DEF Shape, MainFields, MainShape, Processing, Sending, NothingToGive, Target,
                      Pausing
  <2>3. IoShape'
    BY <1>5, Zenon DEF Shape, Lists, IoShape, RunningFlag, Chain, Leaving, Linking
  <2>4. InboxSeen' /\ PendingSeen'
    BY <1>1, <1>5 DEF Shape, Lists, MainFields, MainShape, InboxSeen, PendingSeen, Processing
  <2> QED BY <2>1, <2>2, <2>3, <2>4, Zenon
<1> QED BY <1>3, <1>4, <1>5, Zenon DEF Finish

(* fetchClientFromIOThread only takes from a list that is not empty. *)
LEMMA FetchedLists ==
    ASSUME NEW l, NEW c, DOMAIN l = Lists
    PROVE  /\ DOMAIN Fetched(l, c) = Lists
           /\ \A i \in Lists : l[i] = <<>> => Fetched(l, c)[i] = <<>>
<1>1. \A i \in Lists : Contains(l[i], c) => l[i] # <<>>
  BY DEF Contains
<1>2. ListOf(l, c) = "none" \/ (ListOf(l, c) \in Lists /\ l[ListOf(l, c)] # <<>>)
  BY <1>1, Zenon DEF ListOf, Lists
<1> QED BY <1>2, Zenon DEF Fetched

(* The job is done while the threads of main.range are paused. *)
LEMMA ResumesStep ==
    ASSUME IInv, main.pc = "pause", \A t \in main.range : io[t].paused = "PAUSED",
           io' = [t \in Threads |-> IF t \in main.range THEN [io[t] EXCEPT !.paused = "RESUMING"]
                                    ELSE io[t]],
           Goto("resume"), ClientShape', DOMAIN q' = Threads, DOMAIN bell' = Threads,
           \A t \in Threads :
              /\ DOMAIN q'[t] = Lists /\ DOMAIN bell'[t] = {"main", "io"}
              /\ bell'[t].main \in BOOLEAN /\ bell'[t].io = bell[t].io
              /\ bell[t].main => bell'[t].main
              /\ q[t].inbox = <<>> => q'[t].inbox = <<>>
              /\ q[t].to_main = <<>> => q'[t].to_main = <<>> \/ t \in main.range
              /\ q[t].pending = <<>> => q'[t].pending = <<>> \/ bell'[t].main \/ main.running
    PROVE  IInv'
<1> USE DEF IInv, Shape, Goto
<1>1. /\ DOMAIN main' = MainFields /\ main'.pc = "resume"
      /\ \A i \in MainFields \ {"pc"} : main'[i] = main[i]
  BY Zenon DEF MainFields
<1>2. ASSUME NEW t \in Threads
      PROVE  /\ DOMAIN io'[t] = IoFields
             /\ \A i \in IoFields \ {"paused"} : io'[t][i] = io[t][i]
             /\ io'[t].paused = IF t \in main.range THEN "RESUMING" ELSE io[t].paused
  BY Zenon DEF IoFields
<1>3. Shape' /\ NothingToGive' /\ Target'
  BY <1>1, <1>2 DEF NothingToGive, Target
<1>4. MainShape'
  BY <1>1, Zenon DEF MainShape, MainFields, Processing, Sending
<1>5. Pausing'
  BY <1>1, <1>2 DEF Pausing, MainFields, IoFields
<1>6. IoShape'
  <2>1. \A t \in main.range \cap Threads : io[t].pc = "paused"
    BY Zenon DEF Pausing
  <2> QED BY <1>2, <2>1 DEF IoShape, RunningFlag, Chain, Leaving, Linking, IoFields
<1>7. InboxSeen'
  BY <1>1, <1>2 DEF InboxSeen, IoFields
<1>8. PendingSeen'
  BY <1>1, <1>2, Zenon DEF PendingSeen, MainFields, IoFields, Processing
<1> QED BY <1>3, <1>4, <1>5, <1>6, <1>7, <1>8, Zenon

(* What the I/O threads are paused for is done. *)
LEMMA WhilePausedStep ==
    ASSUME IInv, WhilePaused
    PROVE  IInv'
<1> DEFINE c == main.arg
<1> USE DEF IInv, Shape
<1>1. /\ main.pc = "pause" /\ \A t \in main.range : io[t].paused = "PAUSED"
      /\ io' = [t \in Threads |-> IF t \in main.range THEN [io[t] EXCEPT !.paused = "RESUMING"]
                                  ELSE io[t]]
      /\ Goto("resume") /\ Job(c)
  BY Zenon DEF WhilePaused, At
<1>2. CASE main.job = "kill" /\ Job(c)
  <2>1. /\ q' = [q EXCEPT ![cl[c].tid] = Fetched(@, c)]
        /\ cl' = [cl EXCEPT ![c] = Freed] /\ UNCHANGED bell
    BY <1>2, Zenon DEF Job
  <2>2. ClientShape'
    BY <2>1, FreedIsAClient, ChangesOneClient, Zenon
  <2>3. ASSUME NEW t \in Threads
        PROVE  DOMAIN q'[t] = Lists /\ \A i \in Lists : q[t][i] = <<>> => q'[t][i] = <<>>
    BY <2>1, FetchedLists
  <2>4. DOMAIN q' = Threads
    BY <2>1, Zenon
  <2> QED BY <1>1, <2>1, <2>2, <2>3, <2>4, ResumesStep, Zenon DEF Lists
<1>3. CASE main.job = "keep" /\ Job(c)
  <2>1. cl' = [cl EXCEPT ![c] = keepClientInMainThread(cl[c])] /\ UNCHANGED <<q, bell>>
    BY <1>3, Zenon DEF Job
  <2>2. ClientShape'
    BY <2>1, Zenon DEF ClientShape, keepClientInMainThread
  <2> QED BY <1>1, <2>1, <2>2, ResumesStep, Zenon
<1>4. CASE main.job = "close" /\ Job(c)
  <2> DEFINE t == cl[c].tid
             transfer == ~cl[c].ioclose /\ Contains(q[t].clients, c)
  <2>1. /\ cl' = IF cl[c].ioclose THEN cl
                 ELSE [cl EXCEPT ![c] = IF transfer THEN [IoClosed(@) EXCEPT !.rw = FALSE]
                                        ELSE IoClosed(@)]
        /\ q' = IF ~transfer THEN q
                ELSE [q EXCEPT ![t] = Moved(IF Full(q[t]) THEN Sent(q[t]) ELSE q[t], c)]
        /\ bell' = [bell EXCEPT ![t].main = @ \/ (/\ transfer /\ Full(q[t])
                                                  /\ q[t].pending = <<>> /\ ~main.running)]
    BY <1>4, Zenon DEF Job, CloseInIO
  <2>2. t \in main.range
    BY <1>1, <1>4, Zenon DEF Target
  <2> HIDE DEF t, transfer
  <2>3. ClientShape'
    BY <2>1, Zenon DEF ClientShape, Unbound, IoClosed
  <2>4. CASE ~transfer
    BY <1>1, <2>1, <2>3, <2>4, ResumesStep, Zenon
  <2>5. CASE transfer /\ ~Full(q[t])
    <3>1. /\ q' = [q EXCEPT ![t] = Moved(q[t], c)]
          /\ bell' = [bell EXCEPT ![t].main = @]
      BY <2>1, <2>5, Zenon
    <3> QED BY <1>1, <2>2, <2>3, <3>1, ResumesStep, Zenon DEF Moved, Lists
  <2>6. CASE transfer /\ Full(q[t])
    <3>1. /\ q' = [q EXCEPT ![t] = Moved(Sent(q[t]), c)]
          /\ bell' = [bell EXCEPT ![t].main = @ \/ (q[t].pending = <<>> /\ ~main.running)]
      BY <2>1, <2>6, Zenon
    <3>2. /\ DOMAIN q' = Threads
          /\ \A u \in Threads : /\ DOMAIN q'[u] = Lists /\ q'[u].inbox = q[u].inbox
                                /\ u # t => q'[u] = q[u]
      BY <3>1, Zenon DEF Moved, Sent, Lists
    <3>3. /\ DOMAIN bell' = Threads
          /\ \A u \in Threads :
               /\ DOMAIN bell'[u] = {"main", "io"} /\ bell'[u].io = bell[u].io
               /\ bell'[u].main \in BOOLEAN /\ (bell[u].main => bell'[u].main)
               /\ u = t /\ q[u].pending = <<>> => bell'[u].main \/ main.running
      BY <3>1, Zenon DEF MainShape
    <3> QED BY <1>1, <2>2, <2>3, <3>2, <3>3, ResumesStep, Zenon
  <2> QED BY <2>4, <2>5, <2>6, Zenon
<1>5. CASE main.job = "list" /\ Job(c)
  BY <1>1, <1>5, ResumesStep, Zenon DEF Job, ClientShape
<1> QED BY <1>1, <1>2, <1>3, <1>4, <1>5, Zenon DEF Job

-----------------------------------------------------------------------------
(* The steps of an I/O thread and of the clients. *)

(* An I/O thread wakes up. *)
LEMMA IOThreadAfterSleepStep ==
    ASSUME IInv, NEW t \in Threads, IOThreadAfterSleep(t)
    PROVE  IInv'
<1> USE ThreadsAreNumbered DEF IInv, Shape, IoFields, Lists, IOThreadAfterSleep, IoAt
<1>1. Shape' /\ ClientShape' /\ MainShape' /\ NothingToGive' /\ Target'
  BY Zenon DEF ClientShape, MainShape, Processing, Sending, NothingToGive, Target
<1>2. Pausing'
  BY DEF Pausing
<1>3. IoShape'
  <2>1. ASSUME NEW u \in Threads, u # t PROVE RunningFlag(u)'
    BY <2>1, Zenon DEF IoShape, RunningFlag, Chain, Leaving, Linking
  <2>2. /\ io'[t].pc = "events" /\ io'[t].running
        /\ \A i \in {"wait", "ret", "after", "back"} : io'[t][i] = io[t][i]
    BY Zenon
  <2>3. RunningFlag(t)'
    BY <2>2, Zenon DEF IoShape, RunningFlag, Chain, Leaving, Linking
  <2> QED BY <2>1, <2>3, Zenon DEF IoShape
<1>4. InboxSeen' /\ PendingSeen'
  BY DEF InboxSeen, IoShape, RunningFlag, Chain, Leaving, Linking, PendingSeen, MainShape,
         Processing, Sending
<1> QED BY <1>1, <1>2, <1>3, <1>4, Zenon

(* Clients that wait are sent before another one is queued. *)
LEMMA SendBeforeStep ==
    ASSUME IInv, NEW t \in Threads, SendBefore(t)
    PROVE  IInv'
<1> USE ThreadsAreNumbered DEF IInv, Shape, IoFields, Lists, SendBefore, IoAt, Sent
<1>1. Shape' /\ ClientShape' /\ MainShape' /\ NothingToGive' /\ Target'
  BY Zenon DEF ClientShape, MainShape, Processing, Sending, NothingToGive, Target
<1>2. Pausing'
  BY DEF Pausing
<1>3. IoShape'
  BY DEF IoShape, RunningFlag, Chain, Leaving, Linking
<1>4. InboxSeen' /\ PendingSeen'
  BY DEF InboxSeen, IoShape, RunningFlag, Chain, Leaving, Linking, PendingSeen, MainShape,
         Processing, Sending
<1> QED BY <1>1, <1>2, <1>3, <1>4, Zenon

(* A client is queued for the main thread. *)
LEMMA EnqueuePendingClientsToMainThreadStep ==
    ASSUME IInv, NEW t \in Threads, enqueuePendingClientsToMainThread(t)
    PROVE  IInv'
<1> USE ThreadsAreNumbered DEF IInv, Shape, IoFields, Lists, enqueuePendingClientsToMainThread,
        IoAt, IoGoto, Moved
<1>1. Shape' /\ ClientShape' /\ MainShape' /\ NothingToGive' /\ Target'
  BY Zenon DEF ClientShape, MainShape, Processing, Sending, NothingToGive, Target
<1>2. Pausing'
  BY DEF Pausing
<1>3. IoShape'
  BY DEF IoShape, RunningFlag, Chain, Leaving, Linking
<1>4. InboxSeen' /\ PendingSeen'
  BY DEF InboxSeen, IoShape, RunningFlag, Chain, Leaving, Linking, PendingSeen, MainShape,
         Processing, Sending
<1> QED BY <1>1, <1>2, <1>3, <1>4, Zenon

(* A handler of an I/O thread returns. *)
LEMMA HandlerEndsStep ==
    ASSUME IInv, NEW t \in Threads, HandlerEnds(t)
    PROVE  IInv'
<1> USE ThreadsAreNumbered DEF IInv, Shape, IoFields, Lists, HandlerEnds, IoAt
<1>1. Shape' /\ ClientShape' /\ MainShape' /\ NothingToGive' /\ Target'
  BY Zenon DEF ClientShape, MainShape, Processing, Sending, NothingToGive, Target
<1>2. Pausing'
  BY DEF Pausing, IoShape, RunningFlag
<1>3. IoShape'
  BY DEF IoShape, RunningFlag, Chain, Leaving, Linking
<1>4. InboxSeen' /\ PendingSeen'
  BY DEF InboxSeen, IoShape, RunningFlag, Chain, Leaving, Linking, PendingSeen, MainShape,
         Processing, Sending
<1> QED BY <1>1, <1>2, <1>3, <1>4, Zenon

(* The main thread is notified unless it is running. *)
LEMMA IoRingStep ==
    ASSUME IInv, NEW t \in Threads, IoRing(t)
    PROVE  IInv'
<1> USE ThreadsAreNumbered DEF IInv, Shape, IoFields, Lists, IoRing, IoAt, IoGoto
<1>1. Shape' /\ ClientShape' /\ MainShape' /\ NothingToGive' /\ Target'
  BY Zenon DEF ClientShape, MainShape, Processing, Sending, NothingToGive, Target
<1>2. Pausing'
  BY DEF Pausing, IoShape, RunningFlag
<1>3. IoShape'
  BY DEF IoShape, RunningFlag, Chain, Leaving, Linking
<1>4. InboxSeen'
  BY DEF InboxSeen, IoShape, RunningFlag, Chain, Leaving, Linking
<1>5. PendingSeen'
  BY Zenon DEF PendingSeen, MainShape, Processing, Sending
<1> QED BY <1>1, <1>2, <1>3, <1>4, <1>5, Zenon

(* An I/O thread takes what the main thread has given it. *)
LEMMA IoJoinStep ==
    ASSUME IInv, NEW t \in Threads, IoJoin(t)
    PROVE  IInv'
<1> USE ThreadsAreNumbered DEF IInv, Shape, IoFields, Lists, IoJoin, IoAt
<1>1. Shape' /\ ClientShape' /\ MainShape' /\ NothingToGive' /\ Target'
  BY Zenon DEF ClientShape, MainShape, Processing, Sending, NothingToGive, Target
<1>2. Pausing'
  BY DEF Pausing
<1>3. IoShape'
  BY DEF IoShape, RunningFlag, Chain, Leaving, Linking
<1>4. InboxSeen' /\ PendingSeen'
  BY DEF InboxSeen, IoShape, RunningFlag, Chain, Leaving, Linking, PendingSeen, MainShape,
         Processing, Sending
<1> QED BY <1>1, <1>2, <1>3, <1>4, Zenon

(* The timer of an I/O thread. *)
LEMMA IOThreadCronStep ==
    ASSUME IInv, NEW t \in Threads, IOThreadCron(t)
    PROVE  IInv'
<1> USE ThreadsAreNumbered DEF IInv, Shape, IoFields, Lists, IOThreadCron, IoAt
<1>1. Shape' /\ ClientShape' /\ MainShape' /\ NothingToGive' /\ Target'
  BY Zenon DEF ClientShape, MainShape, Processing, Sending, NothingToGive, Target
<1>2. Pausing'
  BY DEF Pausing
<1>3. IoShape'
  <2>1. ASSUME NEW u \in Threads, u # t PROVE RunningFlag(u)'
    BY <2>1, Zenon DEF IoShape, RunningFlag, Chain, Leaving, Linking
  <2>2. /\ io'[t].pc = "cron" /\ io'[t].running
        /\ \A i \in {"wait", "ret", "after", "back"} : io'[t][i] = io[t][i]
    OBVIOUS
  <2>3. RunningFlag(t)'
    BY <2>2, Zenon DEF IoShape, RunningFlag, Chain, Leaving, Linking
  <2> QED BY <2>1, <2>3, Zenon DEF IoShape
<1>4. InboxSeen' /\ PendingSeen'
  BY DEF InboxSeen, IoShape, RunningFlag, Chain, Leaving, Linking, PendingSeen, MainShape,
         Processing, Sending
<1> QED BY <1>1, <1>2, <1>3, <1>4, Zenon

(* An I/O thread goes through its clients. *)
LEMMA IOThreadClientsCronStep ==
    ASSUME IInv, NEW t \in Threads, IOThreadClientsCron(t)
    PROVE  IInv'
<1> USE ThreadsAreNumbered DEF IInv, Shape, IoFields, Lists, IOThreadClientsCron, IoAt, Enqueue
<1>1. Shape' /\ ClientShape' /\ MainShape' /\ NothingToGive' /\ Target'
  BY Zenon DEF ClientShape, MainShape, Processing, Sending, NothingToGive, Target
<1>2. Pausing'
  BY DEF Pausing
<1>3. IoShape'
  BY DEF IoShape, RunningFlag, Chain, Leaving, Linking
<1>4. InboxSeen' /\ PendingSeen'
  BY DEF InboxSeen, IoShape, RunningFlag, Chain, Leaving, Linking, PendingSeen, MainShape,
         Processing, Sending
<1> QED BY <1>1, <1>2, <1>3, <1>4, Zenon

(* IOThreadBeforeSleep begins. *)
LEMMA IOThreadBeforeSleepStep ==
    ASSUME IInv, NEW t \in Threads, IOThreadBeforeSleep(t)
    PROVE  IInv'
<1> USE ThreadsAreNumbered DEF IInv, Shape, IoFields, Lists, IOThreadBeforeSleep, IoAt
<1>1. Shape' /\ ClientShape' /\ MainShape' /\ NothingToGive' /\ Target'
  BY Zenon DEF ClientShape, MainShape, Processing, Sending, NothingToGive, Target
<1>2. Pausing'
  BY DEF Pausing
<1>3. IoShape'
  BY DEF IoShape, RunningFlag, Chain, Leaving, Linking
<1>4. InboxSeen' /\ PendingSeen'
  BY DEF InboxSeen, IoShape, RunningFlag, Chain, Leaving, Linking, PendingSeen, MainShape,
         Processing, Sending
<1> QED BY <1>1, <1>2, <1>3, <1>4, Zenon

(* An I/O thread pauses if it is told to, and resumes. *)
LEMMA HandlePauseAndResumeStep ==
    ASSUME IInv, NEW t \in Threads, handlePauseAndResume(t)
    PROVE  IInv'
<1> USE ThreadsAreNumbered DEF IInv, Shape, IoFields, Lists, handlePauseAndResume, IoAt, IoGoto
<1>1. Shape' /\ ClientShape' /\ MainShape' /\ NothingToGive' /\ Target'
  BY DEF ClientShape, MainShape, Processing, Sending, NothingToGive, Target
<1>2. Pausing'
  BY DEF Pausing
<1>3. IoShape'
  BY DEF IoShape, RunningFlag, Chain, Leaving, Linking
<1>4. InboxSeen' /\ PendingSeen'
  BY DEF InboxSeen, IoShape, RunningFlag, Chain, Leaving, Linking, PendingSeen, MainShape,
         Processing, Sending
<1> QED BY <1>1, <1>2, <1>3, <1>4, Zenon

(* An I/O thread sends what is left, and polls: this is where it may sleep. *)
LEMMA SendAllStep ==
    ASSUME IInv, NEW t \in Threads, SendAll(t)
    PROVE  IInv'
<1> USE ThreadsAreNumbered DEF IInv, Shape, IoFields, Lists, SendAll, IoAt, Sent
<1>1. Shape' /\ ClientShape' /\ MainShape' /\ NothingToGive' /\ Target'
  BY Zenon DEF ClientShape, MainShape, Processing, Sending, NothingToGive, Target
<1>2. Pausing'
  BY DEF Pausing
<1>3. IoShape'
  BY DEF IoShape, RunningFlag, Chain, Leaving, Linking
<1>4. InboxSeen' /\ PendingSeen'
  BY DEF InboxSeen, IoShape, RunningFlag, Chain, Leaving, Linking, PendingSeen, MainShape,
         Processing, Sending
<1> QED BY <1>1, <1>2, <1>3, <1>4, Zenon

(* An I/O thread has taken all clients, clears its flag and looks again. *)
LEMMA LinkedStep ==
    ASSUME IInv, NEW t \in Threads, Linked(t)
    PROVE  IInv'
<1> USE ThreadsAreNumbered DEF IInv, Shape, IoFields
<1>1. io[t].pc = "link" /\ UNCHANGED <<cl, q, bell, main>>
  BY Zenon DEF Linked, IoAt
<1>2. /\ io' = [io EXCEPT ![t] = io'[t]] /\ DOMAIN io'[t] = IoFields
      /\ \A i \in {"wait", "after", "back", "paused"} : io'[t][i] = io[t][i]
      /\ \/ /\ io[t].ret = "events" /\ io'[t].pc = "events"
            /\ io'[t].ret = "events" /\ io'[t].running = io[t].running
         \/ /\ io[t].ret = "first" /\ io[t].wait /\ io'[t].pc = "join"
            /\ io'[t].ret = "again" /\ io'[t].running = FALSE
         \/ /\ io[t].ret = "again" \/ (io[t].ret = "first" /\ ~io[t].wait)
            /\ io'[t].pc = "pause" /\ io'[t].ret = "events" /\ io'[t].running = io[t].running
  <2>1. CASE io[t].ret = "events"
    <3>1. io' = [io EXCEPT ![t] = [io[t] EXCEPT !.pc = "events"]]
      BY <2>1, Zenon DEF Linked
    <3> QED BY <2>1, <3>1, Zenon
  <2>2. CASE io[t].ret = "first" /\ io[t].wait
    <3>1. io' = [io EXCEPT ![t] = [io[t] EXCEPT !.pc = "join", !.ret = "again", !.running = FALSE]]
      BY <2>2, Zenon DEF Linked
    <3> QED BY <2>2, <3>1, Zenon
  <2>3. CASE io[t].ret # "events" /\ ~(io[t].ret = "first" /\ io[t].wait)
    <3>1. io' = [io EXCEPT ![t] = [io[t] EXCEPT !.pc = "pause", !.ret = "events"]]
      BY <2>3, Zenon DEF Linked
    <3>2. io[t].ret = "again" \/ (io[t].ret = "first" /\ ~io[t].wait)
      BY <2>3, Zenon DEF IoShape, RunningFlag
    <3> QED BY <2>3, <3>1, <3>2, Zenon
  <2> QED BY <2>1, <2>2, <2>3, Zenon
<1>3. Shape' /\ ClientShape' /\ MainShape' /\ NothingToGive' /\ Target'
  BY <1>1, <1>2 DEF ClientShape, MainShape, NothingToGive, Target
<1>4. Pausing'
  BY <1>1, <1>2 DEF Pausing
<1>5. IoShape'
  <2>1. ASSUME NEW u \in Threads, u # t PROVE RunningFlag(u)'
    BY <1>1, <1>2, <2>1 DEF IoShape, RunningFlag, Chain, Leaving, Linking
  <2>2. RunningFlag(t) /\ q'[t] = q[t]
    BY <1>1, Zenon DEF IoShape
  <2>3. RunningFlag(t)'
    <3>1. CASE io'[t].pc = "events"
      BY <1>1, <1>2, <2>2, <3>1, Zenon DEF RunningFlag, Chain, Leaving, Linking
    <3>2. CASE io'[t].pc = "join"
      BY <1>1, <1>2, <2>2, <3>2, Zenon DEF RunningFlag, Chain, Leaving, Linking
    <3>3. CASE io'[t].pc = "pause"
      BY <1>1, <1>2, <2>2, <3>3 DEF RunningFlag, Chain, Leaving, Linking
    <3> QED BY <1>2, <3>1, <3>2, <3>3, Zenon
  <2> QED BY <2>1, <2>3, Zenon DEF IoShape
<1>6. InboxSeen'
  BY <1>1, <1>2 DEF InboxSeen, IoShape, RunningFlag, Linking
<1>7. PendingSeen'
  BY <1>1, <1>2, Zenon DEF PendingSeen
<1> QED BY <1>3, <1>4, <1>5, <1>6, <1>7, Zenon

(* I/O thread t works on clients in a handler, which may send one to the main
   thread. *)
LEMMA HandlerStep ==
    ASSUME IInv, NEW t \in Threads, io[t].pc \in {"events", "link"}, UNCHANGED <<bell, main>>,
           DOMAIN cl' = Clients, \A c \in Clients : SameThread(cl[c], cl'[c]),
           DOMAIN q' = Threads,
           \A u \in Threads : /\ DOMAIN q'[u] = Lists
                              /\ \A i \in {"to_io", "pending", "inbox", "to_main"} : q'[u][i] = q[u][i],
           DOMAIN io' = Threads, \A u \in Threads \ {t} : io'[u] = io[u], DOMAIN io'[t] = IoFields,
           \A i \in {"running", "wait", "ret", "after", "paused"} : io'[t][i] = io[t][i],
           \/ io'[t].pc = io[t].pc /\ io'[t].back = io[t].back
           \/ io'[t].pc = "enqueue" /\ io'[t].back = io[t].pc
    PROVE  IInv'
<1> USE DEF IInv, Shape
<1>1. Shape' /\ ClientShape' /\ NothingToGive'
  BY Zenon DEF ClientShape, SameThread, NothingToGive
<1>2. MainShape' /\ Target'
  BY Zenon DEF MainShape, Target, SameThread
<1>3. Pausing'
  BY DEF Pausing
<1>4. IoShape'
  <2>1. ASSUME NEW u \in Threads, u # t PROVE RunningFlag(u)'
    BY <2>1 DEF IoShape, RunningFlag, Chain, Leaving, Linking
  <2>2. RunningFlag(t)'
    BY DEF IoShape, RunningFlag, Chain, Leaving, Linking
  <2> QED BY <2>1, <2>2, Zenon DEF IoShape
<1>5. InboxSeen'
  BY DEF InboxSeen, IoShape, RunningFlag
<1>6. PendingSeen'
  BY Zenon DEF PendingSeen
<1> QED BY <1>1, <1>2, <1>3, <1>4, <1>5, <1>6, Zenon

(* The event has been handled, with or without a client for the main thread. *)
LEMMA EventStep ==
    ASSUME IInv, NEW t \in Threads, NEW c, NEW f, NEW r, r = io[t] \/ r = Enqueue(t, c, "events"),
           io[t].pc = "events", UNCHANGED <<q, bell, main>>,
           DOMAIN cl' = Clients, \A d \in Clients : SameThread(cl[d], cl'[d]),
           DOMAIN io' = Threads, \A u \in Threads \ {t} : io'[u] = io[u],
           io'[t] = [r EXCEPT !.fired = f]
    PROVE  IInv'
<1>1. /\ DOMAIN r = IoFields
      /\ \A i \in {"running", "wait", "ret", "after", "paused"} : r[i] = io[t][i]
      /\ \/ r.pc = io[t].pc /\ r.back = io[t].back
         \/ r.pc = "enqueue" /\ r.back = io[t].pc
  <2>1. CASE r = io[t]
    BY <2>1, Zenon DEF IInv, Shape
  <2>2. CASE r = Enqueue(t, c, "events")
    BY <2>2 DEF IInv, Shape, IoFields, Enqueue
  <2> QED BY <2>1, <2>2, Zenon
<1>2. DOMAIN io'[t] = IoFields /\ \A i \in IoFields \ {"fired"} : io'[t][i] = r[i]
  BY <1>1, Zenon
<1>3. /\ \A i \in {"running", "wait", "ret", "after", "paused"} : io'[t][i] = io[t][i]
      /\ \/ io'[t].pc = io[t].pc /\ io'[t].back = io[t].back
         \/ io'[t].pc = "enqueue" /\ io'[t].back = io[t].pc
  BY <1>1, <1>2, Zenon DEF IoFields
<1> QED BY <1>2, <1>3, HandlerStep, Zenon DEF IInv, Shape

(* An I/O thread handles an event. *)
LEMMA IoEventStep ==
    ASSUME IInv, NEW t \in Threads, IoEvent(t)
    PROVE  IInv'
<1> USE DEF IInv
<1>1. io[t].pc = "events" /\ UNCHANGED main
  BY Zenon DEF IoEvent, IoAt
<1>2. CASE handleClientsFromMainThread(t)
  <2> USE <1>1, <1>2 DEF handleClientsFromMainThread, Shape, IoFields
  <2>1. Shape' /\ ClientShape' /\ MainShape' /\ NothingToGive' /\ Target'
    BY Zenon DEF ClientShape, MainShape, NothingToGive, Target
  <2>2. Pausing'
    BY DEF Pausing
  <2>3. IoShape'
    BY DEF IoShape, RunningFlag, Chain, Leaving, Linking
  <2>4. InboxSeen' /\ PendingSeen'
    BY DEF InboxSeen, PendingSeen, IoShape, RunningFlag
  <2> QED BY <2>1, <2>2, <2>3, <2>4, Zenon
<1>3. ASSUME NEW c \in Clients, IoRead(t, c) PROVE IInv'
  <2> DEFINE reads == cl[c].el = t /\ cl[c].rw
             eof == sock[c] = <<EOF>>
  <2>1. /\ UNCHANGED <<q, bell>>
        /\ io' = [io EXCEPT ![t] = [IF reads /\ (eof \/ ~cl[c].after) THEN Enqueue(t, c, "events")
                                    ELSE io[t] EXCEPT !.fired = @ \ {<<"read", c>>}]]
    BY <1>3, Zenon DEF IoRead
  <2>2. DOMAIN cl' = Clients /\ \A d \in Clients : SameThread(cl[d], cl'[d])
    <3>1. SameThread(cl[c], IoClosed(cl[c]))
      BY ClientUpdates, Zenon DEF ClientShape
    <3>2. CASE ~reads
      BY <1>3, <3>2, Zenon DEF IoRead, ClientShape, SameThread
    <3>3. CASE reads /\ eof
      BY <1>3, <3>1, <3>3, Zenon DEF IoRead, ClientShape, SameThread
    <3>4. CASE reads /\ ~eof
      BY <1>3, <3>4 DEF IoRead, Received, ClientShape, SameThread
    <3> QED BY <3>2, <3>3, <3>4, Zenon
  <2> DEFINE sends == reads /\ (eof \/ ~cl[c].after)
             r == IF sends THEN Enqueue(t, c, "events") ELSE io[t]
             f == r.fired \ {<<"read", c>>}
  <2>3. r = io[t] \/ r = Enqueue(t, c, "events")
    BY Zenon
  <2>4. /\ DOMAIN io' = Threads /\ \A u \in Threads \ {t} : io'[u] = io[u]
        /\ io'[t] = [r EXCEPT !.fired = f]
    <3>1. CASE sends
      BY <2>1, <3>1, Zenon DEF Shape
    <3>2. CASE ~sends
      BY <2>1, <3>2, Zenon DEF Shape
    <3> QED BY <3>1, <3>2, Zenon
  <2> HIDE DEF f, r
  <2> QED BY <1>1, <2>1, <2>2, <2>3, <2>4, EventStep
<1>4. ASSUME NEW c \in Clients, IoWrite(t, c) PROVE IInv'
  <2>1. PICK whole \in BOOLEAN :
            /\ cl' = IF ~(cl[c].el = t /\ cl[c].wh) THEN cl
                     ELSE [cl EXCEPT ![c] = IF Closing(writeToClient(cl[c], whole, TRUE))
                                            THEN IoClosed(writeToClient(cl[c], whole, TRUE))
                                            ELSE writeToClient(cl[c], whole, TRUE)]
            /\ io' = [io EXCEPT ![t] =
                        [IF /\ cl[c].el = t /\ cl[c].wh
                            /\ Closing(writeToClient(cl[c], whole, TRUE))
                         THEN Enqueue(t, c, "events") ELSE io[t]
                            EXCEPT !.fired = @ \ {<<"write", c>>}]]
            /\ UNCHANGED <<q, bell>>
    BY <1>4, Zenon DEF IoWrite
  <2> DEFINE w == writeToClient(cl[c], whole, TRUE)
             sends == cl[c].el = t /\ cl[c].wh /\ Closing(w)
             r == IF sends THEN Enqueue(t, c, "events") ELSE io[t]
             f == r.fired \ {<<"write", c>>}
  <2>2. SameThread(cl[c], w)
    BY ClientUpdates, Zenon DEF ClientShape
  <2>3. SameThread(cl[c], IoClosed(w))
    <3> HIDE DEF w
    <3> QED BY <2>2, ClientUpdates, Zenon DEF SameThread
  <2>4. cl' \in {cl, [cl EXCEPT ![c] = w], [cl EXCEPT ![c] = IoClosed(w)]}
    BY <2>1, Zenon
  <2>5. DOMAIN cl' = Clients /\ \A d \in Clients : SameThread(cl[d], cl'[d])
    <3> HIDE DEF w
    <3> QED BY <2>2, <2>3, <2>4, Zenon DEF ClientShape, SameThread
  <2>6. r = io[t] \/ r = Enqueue(t, c, "events")
    BY Zenon
  <2>7. /\ DOMAIN io' = Threads /\ \A u \in Threads \ {t} : io'[u] = io[u]
        /\ io'[t] = [r EXCEPT !.fired = f]
    <3>1. CASE sends
      BY <2>1, <3>1, Zenon DEF Shape
    <3>2. CASE ~sends
      BY <2>1, <3>2, Zenon DEF Shape
    <3> QED BY <3>1, <3>2, Zenon
  <2> HIDE DEF f, r
  <2> QED BY <1>1, <2>1, <2>5, <2>6, <2>7, EventStep
<1> QED BY <1>2, <1>3, <1>4, Zenon DEF IoEvent

(* An I/O thread takes a client. *)
LEMMA LinkStep ==
    ASSUME IInv, NEW t \in Threads, Link(t)
    PROVE  IInv'
<1> DEFINE c == Head(q[t].handling)
           r == [cl[c] EXCEPT !.rw = TRUE, !.el = t]
<1> USE DEF IInv
<1>1. /\ io[t].pc = "link" /\ UNCHANGED <<bell, main>>
      /\ q' = [q EXCEPT ![t].handling = Tail(@), ![t].clients = Append(@, c)]
  BY Zenon DEF Link, IoAt
<1>2. /\ DOMAIN q' = Threads
      /\ \A u \in Threads : /\ DOMAIN q'[u] = Lists
                            /\ \A i \in {"to_io", "pending", "inbox", "to_main"} : q'[u][i] = q[u][i]
  BY <1>1, Zenon DEF Shape, Lists
<1>3. io' = io \/ io' = [io EXCEPT ![t] = Enqueue(t, c, "link")]
  BY Zenon DEF Link
<1>4. /\ DOMAIN io' = Threads /\ (\A u \in Threads \ {t} : io'[u] = io[u]) /\ DOMAIN io'[t] = IoFields
      /\ \A i \in {"running", "wait", "ret", "after", "paused"} : io'[t][i] = io[t][i]
      /\ \/ io'[t].pc = io[t].pc /\ io'[t].back = io[t].back
         \/ io'[t].pc = "enqueue" /\ io'[t].back = io[t].pc
  <2>1. CASE io' = io
    BY <2>1, Zenon DEF Shape
  <2>2. CASE io' = [io EXCEPT ![t] = Enqueue(t, c, "link")]
    <3>1. io'[t] = Enqueue(t, c, "link")
      BY <2>2, Zenon DEF Shape
    <3> QED BY <1>1, <2>2, <3>1, Zenon DEF Shape, IoFields, Enqueue
  <2> QED BY <1>3, <2>1, <2>2, Zenon
<1>5. \E s : cl' = [cl EXCEPT ![c] = s] /\ (c \in Clients => SameThread(cl[c], s))
  <2>1. c \in Clients => SameThread(cl[c], r)
    BY Zenon DEF ClientShape, SameThread
  <2>2. CASE cl' = [cl EXCEPT ![c] = Unbound(cl[c])]
    BY <2>2, ClientUpdates, Zenon DEF ClientShape
  <2>3. ASSUME NEW w, w = r \/ \E whole : w = writeToClient(r, whole, FALSE)
        PROVE  c \in Clients => SameThread(cl[c], w) /\ SameThread(cl[c], IoClosed(w))
    <3> HIDE DEF r
    <3>1. c \in Clients => SameThread(cl[c], w)
      <4>1. CASE w = r
        BY <2>1, <4>1, Zenon
      <4>2. CASE \E whole : w = writeToClient(r, whole, FALSE)
        <5>1. PICK whole : w = writeToClient(r, whole, FALSE)
          BY <4>2, Zenon
        <5>2. "tid" \in DOMAIN r => SameThread(r, writeToClient(r, whole, FALSE))
          BY ClientUpdates, Zenon
        <5> QED BY <2>1, <5>1, <5>2, Zenon DEF SameThread
      <4> QED BY <2>3, <4>1, <4>2, Zenon
    <3> QED BY <3>1, ClientUpdates, Zenon DEF SameThread
  <2>4. CASE \E whole \in BOOLEAN :
               \E w \in {r, writeToClient(r, whole, FALSE)} :
                   cl' \in {[cl EXCEPT ![c] = w], [cl EXCEPT ![c] = IoClosed(w)]}
    BY <2>3, <2>4, Zenon
  <2> QED BY <2>2, <2>4, Zenon DEF Link
<1>6. DOMAIN cl' = Clients /\ \A d \in Clients : SameThread(cl[d], cl'[d])
  BY <1>5, Zenon DEF ClientShape, SameThread
<1> QED BY <1>1, <1>2, <1>4, <1>6, HandlerStep, Zenon

(* A client sends a request. *)
LEMMA RequestStep ==
    ASSUME IInv, NEW c \in Clients, Request(c)
    PROVE  IInv'
BY DEF Request, IInv, Shape, ClientShape, MainShape, NothingToGive, Pausing, Target, IoShape,
       RunningFlag, Chain, Leaving, Linking, InboxSeen, PendingSeen

-----------------------------------------------------------------------------
(* The theorem. *)

(* The first state satisfies the invariant. *)
LEMMA InitIInv == Init => IInv
<1> SUFFICES ASSUME Init PROVE IInv
  BY Zenon
<1> USE DEF Init
<1>1. Shape /\ ClientShape
  BY Zenon DEF Shape, ClientShape, MainFields, IoFields, Lists, NoClients, createClient
<1>2. MainShape /\ NothingToGive /\ Target /\ Pausing
  BY Zenon DEF MainShape, NothingToGive, Target, Pausing, NoClients, Processing, Sending
<1>3. IoShape /\ InboxSeen /\ PendingSeen
  BY Zenon DEF IoShape, RunningFlag, Chain, Leaving, Linking, InboxSeen, PendingSeen, NoClients
<1> QED BY <1>1, <1>2, <1>3, Zenon DEF IInv

(* Every step keeps the invariant. *)
LEMMA NextIInv == IInv /\ [Next]_vars => IInv'
<1> SUFFICES ASSUME IInv, [Next]_vars PROVE IInv'
  BY Zenon
<1>1. CASE MainStep
  BY <1>1, AfterSleepStep, MainEventStep, JoinPendingStep, IdleStep, NextClientStep, EndOfLoopStep,
     ExecCommandStep, WhilePausedStep, ResumedStep, FinishStep, SendIfNeededStep,
     RingIfNotRunningStep, BeforeSleepStep, PendingWritesStep,
     SendPendingClientsToIOThreadsStep, RingAlwaysStep, SentAllStep, Zenon
  DEF MainStep, MainPolls
<1>2. CASE MainTimer
  BY <1>2, AfterSleepStep, Zenon DEF MainTimer
<1>3. ASSUME NEW t \in Threads, IoStep(t) PROVE IInv'
  BY <1>3, IOThreadAfterSleepStep, IoEventStep, SendBeforeStep,
     EnqueuePendingClientsToMainThreadStep, HandlerEndsStep, IoRingStep, IoJoinStep, LinkStep,
     LinkedStep, IOThreadClientsCronStep, IOThreadBeforeSleepStep, HandlePauseAndResumeStep,
     SendAllStep, Zenon
  DEF IoStep, IoPolls
<1>4. ASSUME NEW t \in Threads, IOThreadCron(t) PROVE IInv'
  BY <1>4, IOThreadCronStep, Zenon
<1>5. ASSUME NEW c \in Clients, Request(c) PROVE IInv'
  BY <1>5, RequestStep, Zenon
<1>6. CASE UNCHANGED vars
  BY <1>6 DEF vars, IInv, Shape, ClientShape, MainShape, NothingToGive, Pausing, Target, IoShape,
              RunningFlag, Chain, Leaving, Linking, InboxSeen, PendingSeen
<1> QED BY <1>1, <1>2, <1>3, <1>4, <1>5, <1>6, Zenon DEF Next

(* The invariant holds in every reachable state. *)
LEMMA IoThreadsInvariant == Spec => []IInv
<1> QED BY InitIInv, NextIInv, PTL DEF Spec

(* For any number of I/O threads and clients, whatever the interleaving of the
   hand-overs, the two flags and the pauses: a thread that may sleep and has no
   notification pending has nothing to do, or the other thread is about to
   notify it (beforeSleep, IOThreadBeforeSleep and the two
   sendPendingClients...IfNeeded). *)
THEOREM NoLostHandOver == Spec => []SleepersHaveNothingToDo
<1>1. IInv => SleepersHaveNothingToDo
  <2> SUFFICES ASSUME IInv, NEW t \in Threads
               PROVE  /\ At("poll") /\ main.wait /\ ~bell[t].main =>
                            q[t].to_io = <<>> /\ (q[t].pending = <<>> \/ IoAt(t, "ring"))
                      /\ IoAt(t, "poll") /\ io[t].wait /\ ~bell[t].io =>
                            /\ q[t].to_main = <<>> /\ io[t].paused = "UNPAUSED"
                            /\ q[t].inbox = <<>> \/ (main.t = t /\ main.pc \in {"ring", "ringall"})
    BY Zenon DEF SleepersHaveNothingToDo
  <2> USE DEF IInv, At, IoAt
  <2>1. At("poll") /\ main.wait /\ ~bell[t].main =>
            q[t].to_io = <<>> /\ (q[t].pending = <<>> \/ IoAt(t, "ring"))
    BY Zenon DEF MainShape, NothingToGive, PendingSeen, Processing
  <2>2. ASSUME io[t].pc = "poll", io[t].wait, ~bell[t].io
        PROVE  /\ q[t].to_main = <<>> /\ ~io[t].running /\ io[t].paused = "UNPAUSED"
    BY <2>2, Zenon DEF IoShape, RunningFlag, Leaving, Pausing
  <2>3. IoAt(t, "poll") /\ io[t].wait /\ ~bell[t].io =>
            /\ q[t].to_main = <<>> /\ io[t].paused = "UNPAUSED"
            /\ q[t].inbox = <<>> \/ (main.t = t /\ main.pc \in {"ring", "ringall"})
    BY <2>2, Zenon DEF InboxSeen
  <2> QED BY <2>1, <2>3, Zenon
<1> QED BY <1>1, IoThreadsInvariant, PTL

-----------------------------------------------------------------------------
(* Which thread owns a client. *)

(* c is at most once in s. *)
AtMostOnce(s, c) == \A i, j \in DOMAIN s : s[i] = c /\ s[j] = c => i = j

(* The lists of an I/O thread: a client is in one place at most. *)
Holds(l, c) == \E n \in Lists : Contains(l[n], c)
Tidy(l) ==
    /\ DOMAIN l = Lists /\ \A n \in Lists : l[n] \in Seq(Clients)
    /\ \A c \in Clients :
         /\ \A n \in Lists : AtMostOnce(l[n], c)
         /\ \A n, m \in Lists : Contains(l[n], c) /\ Contains(l[m], c) => n = m

ClientFields == {"state", "tid", "running", "rw", "el", "wh", "ioclose", "close", "pendw",
                 "pubsub", "after", "got", "reply"}

(* A client is in the lists of its I/O thread, unless the main thread executes
   its commands. *)
Listed(c) ==
    \A t \in Threads : Holds(q[t], c) <=> Open(c) /\ cl[c].tid = t /\ main.cur # c

(* A client of an I/O thread: the thread that runs it; it can be read and
   written only in the list of its thread's clients. *)
Borrowed(c) ==
    /\ ~cl[c].close /\ cl[c].el \in {cl[c].tid, NoLoop}
    /\ IF main.cur = c THEN cl[c].running = Main /\ ~cl[c].rw
       ELSE /\ cl[c].running = cl[c].tid /\ ~cl[c].pendw
            /\ cl[c].rw => Contains(q[cl[c].tid].clients, c)

(* A client of the main thread. *)
OfMain(c) == cl[c].tid = Main /\ cl[c].running = Main /\ cl[c].el \in {Main, NoLoop}

(* A client that is not accepted yet, or freed. *)
Outside(c) == OfMain(c) /\ cl[c].el = NoLoop /\ ~cl[c].pubsub /\ ~cl[c].pendw /\ ~cl[c].close

Owned(c) ==
    /\ DOMAIN cl[c] = ClientFields
    /\ IF Open(c) THEN OfMain(c) \/ (cl[c].tid \in Threads /\ Borrowed(c)) ELSE Outside(c)

(* Where the main thread has a client in hand, and what it pauses threads for. *)
Executing == main.pc \in {"exec", "pause", "resume"}
InHand ==
    /\ ~Executing => main.cur = NoClient
    /\ Executing => /\ main.cur \in Clients /\ Open(main.cur)
                    /\ cl[main.cur].tid \in Threads <=>
                          main.ret # "read" /\ ~(main.pc = "resume" /\ main.job = "keep")
    /\ main.pc = "pause" =>
         \/ main.job = "list" /\ main.range = Threads
         \/ main.job = "keep" /\ main.arg = main.cur /\ main.range = {cl[main.cur].tid}
         \/ /\ main.job \in {"kill", "close"} /\ main.arg \in Clients \ {main.cur}
            /\ Open(main.arg) /\ cl[main.arg].tid \in Threads /\ main.range = {cl[main.arg].tid}
    /\ main.pc = "resume" => main.job \in {"list", "keep", "kill", "close"}

(* What aeApiPoll returned to the main thread. *)
Fired ==
    /\ main.t \in Threads
    /\ main.fired \subseteq ({"bell"} \X Threads) \cup ({"accept", "read", "write"} \X Clients)
    /\ \A c \in Clients : <<"accept", c>> \in main.fired => cl[c].state = "new"

(* What an I/O thread has in hand: the client it sends to the main thread, the
   events of the poll, the clients that it links. *)
Hands(t) ==
    /\ IF ~Chain(t) THEN io[t].cur = NoClient
       ELSE /\ io[t].cur \in Clients
            /\ IF io[t].pc = "enqueued" THEN Contains(q[t].to_main, io[t].cur)
               ELSE Contains(q[t].clients, io[t].cur)
    /\ io[t].fired # {} =>
         \/ io[t].pc = "events" \/ (Chain(t) /\ io[t].back = "events")
         \/ Linking(t) /\ io[t].ret = "events"
    /\ q[t].handling # <<>> => io[t].pc = "link" \/ (Chain(t) /\ io[t].back = "link")

OInv ==
    /\ DOMAIN cl = Clients
    /\ \A t \in Threads : Tidy(q[t]) /\ Hands(t)
    /\ \A c \in Clients : Listed(c) /\ Owned(c)
    /\ InHand /\ Fired


-----------------------------------------------------------------------------
(* Lists of clients. *)

(* Two lists that are joined. *)
LEMMA JoinedList ==
    ASSUME NEW s \in Seq(Clients), NEW u \in Seq(Clients)
    PROVE  /\ s \o u \in Seq(Clients)
           /\ \A c : Contains(s \o u, c) <=> Contains(s, c) \/ Contains(u, c)
           /\ \A c : AtMostOnce(s, c) /\ AtMostOnce(u, c) /\ ~(Contains(s, c) /\ Contains(u, c))
                       => AtMostOnce(s \o u, c)
<1> DEFINE w == s \o u
<1>1. /\ w \in Seq(Clients) /\ Len(s) \in Nat /\ Len(u) \in Nat
      /\ DOMAIN s = 1 .. Len(s) /\ DOMAIN u = 1 .. Len(u) /\ DOMAIN w = 1 .. (Len(s) + Len(u))
  OBVIOUS
<1>2. /\ \A i \in DOMAIN s : i \in DOMAIN w /\ w[i] = s[i]
      /\ \A i \in DOMAIN u : i + Len(s) \in DOMAIN w /\ w[i + Len(s)] = u[i]
      /\ \A i \in DOMAIN w : \/ i \in DOMAIN s /\ w[i] = s[i]
                             \/ i - Len(s) \in DOMAIN u /\ w[i] = u[i - Len(s)]
  BY <1>1
<1> HIDE DEF w
<1>3. ASSUME NEW c PROVE Contains(w, c) <=> Contains(s, c) \/ Contains(u, c)
  BY <1>2, Zenon DEF Contains
<1>4. ASSUME NEW c, AtMostOnce(s, c), AtMostOnce(u, c), ~(Contains(s, c) /\ Contains(u, c))
      PROVE  AtMostOnce(w, c)
  <2> SUFFICES ASSUME NEW i \in DOMAIN w, NEW j \in DOMAIN w, w[i] = c, w[j] = c PROVE i = j
    BY DEF AtMostOnce
  <2>1. CASE i \in DOMAIN s /\ w[i] = s[i]
    BY <1>2, <1>4, <2>1, Zenon DEF AtMostOnce, Contains
  <2>2. CASE i - Len(s) \in DOMAIN u /\ w[i] = u[i - Len(s)]
    <3>1. j - Len(s) \in DOMAIN u /\ w[j] = u[j - Len(s)]
      BY <1>2, <1>4, <2>2, Zenon DEF AtMostOnce, Contains
    <3>2. i - Len(s) = j - Len(s)
      BY <1>4, <2>2, <3>1, Zenon DEF AtMostOnce
    <3> QED BY <1>1, <3>2
  <2> QED BY <1>2, <2>1, <2>2, Zenon
<1> QED BY <1>1, <1>3, <1>4, Zenon DEF w

(* u is s without c; u is s with c. *)
Drops(s, u, c) ==
    /\ u \in Seq(Clients) /\ ~Contains(u, c)
    /\ \A d : d # c => (Contains(u, d) <=> Contains(s, d))
    /\ \A d : AtMostOnce(s, d) => AtMostOnce(u, d)
Adds(s, u, c) ==
    /\ u \in Seq(Clients) /\ Contains(u, c)
    /\ \A d : d # c => (Contains(u, d) <=> Contains(s, d))
    /\ \A d : AtMostOnce(s, d) /\ ~(d = c /\ Contains(s, c)) => AtMostOnce(u, d)

(* A list of one client. *)
LEMMA OneClient ==
    ASSUME NEW c \in Clients
    PROVE  <<c>> \in Seq(Clients) /\ \A d : (Contains(<<c>>, d) <=> d = c) /\ AtMostOnce(<<c>>, d)
<1>1. <<c>> \in Seq(Clients) /\ DOMAIN <<c>> = {1} /\ <<c>>[1] = c
  OBVIOUS
<1> QED BY <1>1, Zenon DEF Contains, AtMostOnce

(* A client is put at the head or at the end of a list. *)
LEMMA ListAdds ==
    ASSUME NEW s \in Seq(Clients), NEW c \in Clients
    PROVE  Adds(s, <<c>> \o s, c) /\ Adds(s, Append(s, c), c)
<1>1. Append(s, c) = s \o <<c>>
  OBVIOUS
<1>2. Adds(s, <<c>> \o s, c)
  BY OneClient, JoinedList, Zenon DEF Adds
<1>3. Adds(s, s \o <<c>>, c)
  BY OneClient, JoinedList, Zenon DEF Adds
<1> QED BY <1>1, <1>2, <1>3, Zenon

(* The first client is taken from a list. *)
LEMMA ListTakes ==
    ASSUME NEW s \in Seq(Clients), s # <<>>, AtMostOnce(s, Head(s))
    PROVE  Head(s) \in Clients /\ Contains(s, Head(s)) /\ Drops(s, Tail(s), Head(s))
<1> DEFINE w == Tail(s)
<1>1. /\ Len(s) \in Nat /\ Len(s) > 0 /\ DOMAIN s = 1 .. Len(s) /\ 1 \in DOMAIN s /\ Head(s) = s[1]
      /\ w \in Seq(Clients) /\ DOMAIN w = 1 .. (Len(s) - 1) /\ s[1] \in Clients
  OBVIOUS
<1>2. /\ \A i \in DOMAIN w : i + 1 \in DOMAIN s /\ w[i] = s[i + 1] /\ i + 1 # 1
      /\ \A i \in DOMAIN s : i # 1 => i - 1 \in DOMAIN w /\ w[i - 1] = s[i]
      /\ \A i, j \in DOMAIN w : i + 1 = j + 1 => i = j
  BY <1>1
<1> HIDE DEF w
<1>3. ~Contains(w, Head(s))
  BY <1>1, <1>2, Zenon DEF Contains, AtMostOnce
<1>4. \A d : d # Head(s) => (Contains(w, d) <=> Contains(s, d))
  BY <1>1, <1>2 DEF Contains
<1>5. \A d : AtMostOnce(s, d) => AtMostOnce(w, d)
  BY <1>2 DEF AtMostOnce
<1>6. Contains(s, Head(s))
  BY <1>1, Zenon DEF Contains
<1> QED BY <1>1, <1>3, <1>4, <1>5, <1>6, Zenon DEF Drops, w

(* A client is taken from wherever it is in a list. *)
LEMMA ListRemoves ==
    ASSUME NEW s \in Seq(Clients), NEW c, Contains(s, c), AtMostOnce(s, c)
    PROVE  Drops(s, Remove(s, c), c)
<1> DEFINE at == CHOOSE i \in DOMAIN s : s[i] = c
           w == [i \in 1 .. Len(s) - 1 |-> s[IF i < at THEN i ELSE i + 1]]
<1>1. Remove(s, c) = w
  BY Zenon DEF Remove
<1>2. at \in DOMAIN s /\ s[at] = c
  BY Zenon DEF Contains
<1> HIDE DEF at
<1>3. /\ Len(s) \in Nat /\ DOMAIN s = 1 .. Len(s) /\ at \in Nat /\ at <= Len(s) /\ at > 0
      /\ w \in Seq(Clients) /\ DOMAIN w = 1 .. (Len(s) - 1)
  BY <1>2
<1>4. /\ \A i \in DOMAIN w : /\ i < at => i \in DOMAIN s /\ w[i] = s[i] /\ i # at
                             /\ ~(i < at) => i + 1 \in DOMAIN s /\ w[i] = s[i + 1] /\ i + 1 # at
      /\ \A i \in DOMAIN s : i # at => \/ i \in DOMAIN w /\ w[i] = s[i]
                                       \/ i - 1 \in DOMAIN w /\ w[i - 1] = s[i]
  BY <1>3
<1>5. \A i, j \in DOMAIN w : /\ i + 1 = j + 1 => i = j
                             /\ i < at /\ ~(j < at) => i # j + 1
  BY <1>3
<1> HIDE DEF w
<1>6. ~Contains(w, c)
  BY <1>2, <1>4, Zenon DEF Contains, AtMostOnce
<1>7. \A d : d # c => (Contains(w, d) <=> Contains(s, d))
  BY <1>2, <1>4, Zenon DEF Contains
<1>8. \A d : AtMostOnce(s, d) => AtMostOnce(w, d)
  BY <1>4, <1>5 DEF AtMostOnce
<1> QED BY <1>1, <1>3, <1>6, <1>7, <1>8, Zenon DEF Drops

(* The lists but those of S stay. *)
But(l, k, S) == DOMAIN k = Lists /\ \A n \in Lists \ S : k[n] = l[n]

(* A whole list is moved to another one. *)
LEMMA MovesAll ==
    ASSUME NEW l, Tidy(l), NEW k, NEW a \in Lists, NEW b \in Lists, a # b, But(l, k, {a, b}),
           k[a] = <<>>, k[b] = l[b] \o l[a]
    PROVE  /\ Tidy(k) /\ \A c \in Clients : Holds(k, c) <=> Holds(l, c)
           /\ \A c : ~Contains(k[a], c) /\ (Contains(k[b], c) <=> Contains(l[a], c) \/ Contains(l[b], c))
<1>1. l[a] \in Seq(Clients) /\ l[b] \in Seq(Clients)
  BY Zenon DEF Tidy
<1>2. <<>> \in Seq(Clients) /\ DOMAIN <<>> = {}
  OBVIOUS
<1>3. \A c : ~Contains(k[a], c) /\ AtMostOnce(k[a], c)
  BY <1>2 DEF Contains, AtMostOnce
<1>4. \A c : Contains(k[b], c) <=> Contains(l[a], c) \/ Contains(l[b], c)
  BY <1>1, JoinedList
<1>5. \A c \in Clients : AtMostOnce(k[b], c)
  <2>1. \A c \in Clients : /\ AtMostOnce(l[b], c) /\ AtMostOnce(l[a], c)
                          /\ ~(Contains(l[b], c) /\ Contains(l[a], c))
    BY Zenon DEF Tidy
  <2> QED BY <1>1, <2>1, JoinedList
<1>6. \A n \in Lists : k[n] \in Seq(Clients)
  <2>1. k[a] \in Seq(Clients) /\ k[b] \in Seq(Clients)
    BY <1>1, <1>2, JoinedList
  <2> QED BY <2>1, Zenon DEF Tidy, But
<1>7. \A n \in Lists : n = a \/ n = b \/ k[n] = l[n]
  BY Zenon DEF But
<1>8. ASSUME NEW c \in Clients PROVE Holds(k, c) <=> Holds(l, c)
  BY <1>3, <1>4, <1>7, Zenon DEF Holds
<1>9. ASSUME NEW c \in Clients, NEW n \in Lists, NEW m \in Lists, Contains(k[n], c), Contains(k[m], c)
      PROVE  n = m
  BY <1>3, <1>4, <1>7, <1>9, Zenon DEF Tidy
<1>10. ASSUME NEW c \in Clients, NEW n \in Lists PROVE AtMostOnce(k[n], c)
  BY <1>3, <1>5, <1>7, Zenon DEF Tidy
<1> QED BY <1>3, <1>4, <1>6, <1>8, <1>9, <1>10, Zenon DEF Tidy, But

(* A client is put into a list. *)
LEMMA Puts ==
    ASSUME NEW l, Tidy(l), NEW c \in Clients, ~Holds(l, c), NEW k, NEW b \in Lists, But(l, k, {b}),
           Adds(l[b], k[b], c)
    PROVE  Tidy(k) /\ \A d \in Clients : Holds(k, d) <=> Holds(l, d) \/ d = c
<1>1. \A n \in Lists : n = b \/ k[n] = l[n]
  BY Zenon DEF But
<1>2. \A n \in Lists : ~Contains(l[n], c)
  BY Zenon DEF Holds
<1>3. \A n \in Lists : k[n] \in Seq(Clients)
  BY <1>1, Zenon DEF Tidy, Adds
<1>4. ASSUME NEW d \in Clients, NEW n \in Lists PROVE AtMostOnce(k[n], d)
  BY <1>1, <1>2, Zenon DEF Tidy, Adds
<1>5. ASSUME NEW d \in Clients, NEW n \in Lists, NEW m \in Lists, Contains(k[n], d), Contains(k[m], d)
      PROVE  n = m
  BY <1>1, <1>2, <1>5, Zenon DEF Tidy, Adds
<1>6. ASSUME NEW d \in Clients PROVE Holds(k, d) <=> Holds(l, d) \/ d = c
  BY <1>1, Zenon DEF Holds, Adds
<1> QED BY <1>3, <1>4, <1>5, <1>6, Zenon DEF Tidy, But

(* A client is taken from a list. *)
LEMMA Takes ==
    ASSUME NEW l, Tidy(l), NEW c \in Clients, NEW k, NEW a \in Lists, Contains(l[a], c),
           But(l, k, {a}), Drops(l[a], k[a], c)
    PROVE  /\ Tidy(k) /\ ~Holds(k, c)
           /\ \A d \in Clients : d # c => (Holds(k, d) <=> Holds(l, d))
<1>1. \A n \in Lists : n = a \/ k[n] = l[n]
  BY Zenon DEF But
<1>2. \A n \in Lists : k[n] \in Seq(Clients)
  BY <1>1, Zenon DEF Tidy, Drops
<1>3. ASSUME NEW d \in Clients, NEW n \in Lists PROVE AtMostOnce(k[n], d)
  BY <1>1, Zenon DEF Tidy, Drops
<1>4. ASSUME NEW d \in Clients, NEW n \in Lists, NEW m \in Lists, Contains(k[n], d), Contains(k[m], d)
      PROVE  n = m
  BY <1>1, <1>4, Zenon DEF Tidy, Drops
<1>5. ~Holds(k, c)
  BY <1>1, Zenon DEF Holds, Tidy, Drops
<1>6. ASSUME NEW d \in Clients, d # c PROVE Holds(k, d) <=> Holds(l, d)
  BY <1>1, <1>6, Zenon DEF Holds, Drops
<1> QED BY <1>2, <1>3, <1>4, <1>5, <1>6, Zenon DEF Tidy, But

(* A client is moved from a list to another one. *)
LEMMA Moves ==
    ASSUME NEW l, Tidy(l), NEW c \in Clients, NEW k, NEW a \in Lists, NEW b \in Lists, a # b,
           Contains(l[a], c), But(l, k, {a, b}), Drops(l[a], k[a], c), Adds(l[b], k[b], c)
    PROVE  Tidy(k) /\ \A d \in Clients : Holds(k, d) <=> Holds(l, d)
<1> DEFINE m == [l EXCEPT ![a] = k[a]]
<1>1. But(l, m, {a}) /\ m[a] = k[a] /\ m[b] = l[b]
  BY Zenon DEF But, Tidy
<1>2. But(m, k, {b})
  BY Zenon DEF But, Tidy
<1> HIDE DEF m
<1>3. Tidy(m) /\ ~Holds(m, c) /\ \A d \in Clients : d # c => (Holds(m, d) <=> Holds(l, d))
  BY <1>1, Takes, Zenon
<1>4. Tidy(k) /\ \A d \in Clients : Holds(k, d) <=> Holds(m, d) \/ d = c
  BY <1>1, <1>2, <1>3, Puts, Zenon
<1>5. Holds(l, c)
  BY Zenon DEF Holds
<1> QED BY <1>3, <1>4, <1>5, Zenon


-----------------------------------------------------------------------------
(* What stays. *)

(* A client changes in nothing that says whose it is. *)
KeepsOwner(r, s) ==
    /\ DOMAIN s = ClientFields
    /\ \A f \in {"state", "tid", "running", "rw", "el", "close"} : s[f] = r[f]
    /\ s.pendw => r.pendw \/ (r.state = "open" /\ r.running = Main)
    /\ s.pubsub => r.pubsub \/ r.state = "open"
AllKept == DOMAIN cl' = Clients /\ \A c \in Clients : KeepsOwner(cl[c], cl'[c])

(* The numbers of threads. *)
LEMMA ThreadNumbers == Main \notin Threads /\ NoLoop \notin Threads /\ Main # NoLoop
<1>1. \A t \in Threads : t >= 1 /\ t \in Int
  BY ThreadsAreNumbered, Zenon
<1> QED BY <1>1 DEF Main, NoLoop

(* A client that stays where it is. *)
LEMMA StaysOwned ==
    ASSUME NEW c \in Clients, Owned(c), KeepsOwner(cl[c], cl'[c]), main'.cur = c <=> main.cur = c,
           cl[c].tid \in Threads /\ cl[c].rw /\ Contains(q[cl[c].tid].clients, c)
              => Contains(q'[cl[c].tid].clients, c)
    PROVE  Owned(c)'
<1>1. /\ Open(c)' <=> Open(c)
      /\ DOMAIN cl'[c] = ClientFields
      /\ cl'[c].tid = cl[c].tid /\ cl'[c].running = cl[c].running /\ cl'[c].rw = cl[c].rw
      /\ cl'[c].el = cl[c].el /\ cl'[c].close = cl[c].close
  BY Zenon DEF Open, KeepsOwner
<1>2. CASE Open(c) /\ OfMain(c)
  BY <1>1, <1>2, Zenon DEF Owned, OfMain
<1>3. CASE Open(c) /\ cl[c].tid \in Threads /\ Borrowed(c)
  <2>1. Borrowed(c)'
    BY <1>1, <1>3, ThreadNumbers, Zenon DEF Borrowed, KeepsOwner
  <2> QED BY <1>1, <1>3, <2>1, Zenon DEF Owned
<1>4. CASE ~Open(c)
  BY <1>1, <1>4, Zenon DEF Owned, Outside, OfMain, Open, KeepsOwner
<1> QED BY <1>2, <1>3, <1>4, Zenon DEF Owned

(* A client that stays in the same lists. *)
LEMMA StaysListed ==
    ASSUME NEW c \in Clients, Listed(c), cl'[c].state = cl[c].state, cl'[c].tid = cl[c].tid,
           main'.cur = c <=> main.cur = c, \A t \in Threads : Holds(q'[t], c) <=> Holds(q[t], c)
    PROVE  Listed(c)'
BY Zenon DEF Listed, Open, Holds, Contains

(* A client of the main thread that stays with it. *)
LEMMA StaysOfMain ==
    ASSUME NEW c \in Clients, Listed(c), Owned(c), Open(c), OfMain(c), DOMAIN cl'[c] = ClientFields,
           \A f \in {"state", "tid", "running", "el"} : cl'[c][f] = cl[c][f],
           \A t \in Threads : Holds(q'[t], c) <=> Holds(q[t], c)
    PROVE  Listed(c)' /\ Owned(c)' /\ Open(c)'
<1>1. /\ Open(c)' /\ cl'[c].tid = Main /\ cl'[c].running = Main /\ cl'[c].el = cl[c].el
  BY Zenon DEF Open, OfMain
<1>2. Owned(c)'
  BY <1>1, Zenon DEF Owned, OfMain
<1>3. Listed(c)'
  BY <1>1, ThreadNumbers, Zenon DEF Listed, OfMain, Holds, Contains
<1> QED BY <1>1, <1>2, <1>3, Zenon

(* A client that is freed is in no list. *)
LEMMA FreedIsOutside ==
    ASSUME NEW c \in Clients, cl'[c] = Freed, \A t \in Threads : ~Holds(q'[t], c)
    PROVE  Listed(c)' /\ Owned(c)'
<1>1. /\ DOMAIN Freed = ClientFields /\ Freed.state = "gone" /\ Freed.tid = Main /\ Freed.running = Main
      /\ Freed.el = NoLoop /\ ~Freed.pubsub /\ ~Freed.pendw /\ ~Freed.close
  BY Zenon DEF Freed, createClient, ClientFields
<1> QED BY <1>1, Zenon DEF Listed, Owned, Outside, OfMain, Open, Holds, Contains

(* No client and no list changes hands. *)
LEMMA NothingMoves ==
    ASSUME OInv, AllKept, q' = q, main'.cur = main.cur
    PROVE  /\ DOMAIN cl' = Clients /\ \A t \in Threads : Tidy(q[t])'
           /\ \A c \in Clients : Listed(c)' /\ Owned(c)'
<1>1. ASSUME NEW c \in Clients PROVE Listed(c)' /\ Owned(c)'
  <2>1. KeepsOwner(cl[c], cl'[c]) /\ cl'[c].state = cl[c].state /\ cl'[c].tid = cl[c].tid
    BY Zenon DEF AllKept, KeepsOwner
  <2>2. Listed(c)'
    BY <2>1, StaysListed, Zenon DEF OInv
  <2> QED BY <2>1, <2>2, StaysOwned, Zenon DEF OInv
<1>2. ASSUME NEW t \in Threads PROVE Tidy(q[t])'
  <2>1. Tidy(q[t]) /\ q'[t] = q[t]
    BY Zenon DEF OInv
  <2> QED BY <2>1
<1> QED BY <1>1, <1>2, Zenon DEF AllKept

(* Clients that do not change stay where they are. *)
LEMMA Unchanged ==
    ASSUME OInv, cl' = cl
    PROVE  AllKept
<1>1. ASSUME NEW c \in Clients PROVE DOMAIN cl[c] = ClientFields
  BY Zenon DEF OInv, Owned
<1> QED BY <1>1, Zenon DEF AllKept, KeepsOwner, OInv

(* The main thread does nothing. *)
LEMMA MainStays ==
    ASSUME OInv, main' = main,
           \A c \in Clients : cl'[c].state = cl[c].state /\ cl'[c].tid = cl[c].tid
    PROVE  InHand' /\ Fired'
<1>1. InHand'
  BY Zenon DEF OInv, InHand, Executing, Open
<1>2. Fired'
  BY Zenon DEF OInv, Fired
<1> QED BY <1>1, <1>2, Zenon

(* An I/O thread keeps what it has in hand. *)
LEMMA HandsStay ==
    ASSUME NEW t \in Threads, Hands(t),
           \A i \in {"pc", "cur", "fired", "ret", "back", "after"} : io'[t][i] = io[t][i],
           q'[t].handling = q[t].handling,
           \A c : /\ Contains(q[t].to_main, c) => Contains(q'[t].to_main, c)
                  /\ Contains(q[t].clients, c) => Contains(q'[t].clients, c)
    PROVE  Hands(t)'
<1>1. (Chain(t)' <=> Chain(t)) /\ (Linking(t)' <=> Linking(t))
  BY Zenon DEF Chain, Linking
<1> QED BY <1>1, Zenon DEF Hands, Contains

(* The main thread works without the I/O threads. *)
LEMMA AllHandsStay ==
    ASSUME OInv, io' = io, q' = q
    PROVE  \A t \in Threads : Hands(t)'
BY HandsStay, Zenon DEF OInv


(* The main thread goes on, with the same client in hand. *)
LEMMA QuietOwners ==
    ASSUME OInv, AllKept, q' = q, io' = io, main'.cur = main.cur, InHand', Fired'
    PROVE  OInv'
BY NothingMoves, AllHandsStay, Zenon DEF OInv

(* What the main thread is about to handle stays true of clients that stay. *)
LEMMA FiredStays ==
    ASSUME OInv, main'.t \in Threads, main'.fired \subseteq main.fired,
           \A c \in Clients : <<"accept", c>> \in main'.fired => cl'[c].state = cl[c].state
    PROVE  Fired'
BY Zenon DEF OInv, Fired

(* No client in hand. *)
LEMMA EmptyHanded ==
    ASSUME main'.pc \notin {"exec", "pause", "resume"}, main'.cur = NoClient
    PROVE  InHand'
BY Zenon DEF InHand, Executing

-----------------------------------------------------------------------------
(* The steps of the main thread: the event loop. *)

(* The poll returns. *)
LEMMA AfterSleepOwners ==
    ASSUME IInv, OInv, afterSleep
    PROVE  OInv'
<1>1. /\ main.pc = "poll" /\ UNCHANGED <<cl, q, io>> /\ main'.pc = "events" /\ main'.t = main.t
      /\ main'.cur = main.cur /\ main'.fired = MainReady
  BY Zenon DEF afterSleep, At, IInv, Shape, MainFields
<1>2. main.cur = NoClient /\ main.t \in Threads
  BY <1>1, Zenon DEF OInv, InHand, Executing, Fired
<1>3. InHand'
  BY <1>1, <1>2, EmptyHanded, Zenon
<1>4. /\ MainReady \subseteq ({"bell"} \X Threads) \cup ({"accept", "read", "write"} \X Clients)
      /\ \A c \in Clients : <<"accept", c>> \in MainReady => cl[c].state = "new"
  BY DEF MainReady
<1>5. Fired'
  BY <1>1, <1>2, <1>4, Zenon DEF Fired
<1> QED BY <1>1, <1>3, <1>5, Unchanged, QuietOwners, Zenon

(* beforeSleep clears server.running and looks again. *)
LEMMA IdleOwners ==
    ASSUME IInv, OInv, Idle
    PROVE  OInv'
<1>1. /\ main.pc = "idle" /\ UNCHANGED <<cl, q, io>> /\ main'.pc = "join" /\ main'.t = 1
      /\ main'.cur = main.cur /\ main'.fired = main.fired
  BY Zenon DEF Idle, At, IInv, Shape, MainFields
<1>2. main.cur = NoClient
  BY <1>1, Zenon DEF OInv, InHand, Executing
<1>3. Fired'
  BY <1>1, FiredStays, ThreadsAreNumbered, Zenon
<1> QED BY <1>1, <1>2, <1>3, EmptyHanded, Unchanged, QuietOwners, Zenon

(* All clients of the thread are processed. *)
LEMMA EndOfLoopOwners ==
    ASSUME IInv, OInv, EndOfLoop
    PROVE  OInv'
<1>1. /\ main.pc = "loop" /\ UNCHANGED <<cl, q, io>> /\ main'.pc = "send" /\ main'.t = main.t
      /\ main'.cur = main.cur /\ main'.fired = main.fired
  BY Zenon DEF EndOfLoop, At, IInv, Shape, MainFields
<1>2. main.cur = NoClient /\ main.t \in Threads
  BY <1>1, Zenon DEF OInv, InHand, Executing, Fired
<1>3. Fired'
  BY <1>1, <1>2, FiredStays, Zenon
<1> QED BY <1>1, <1>2, <1>3, EmptyHanded, Unchanged, QuietOwners, Zenon

(* The notification after sendPendingClientsToIOThreads. *)
LEMMA RingAlwaysOwners ==
    ASSUME IInv, OInv, RingAlways
    PROVE  OInv'
<1>1. /\ main.pc = "ringall" /\ UNCHANGED <<cl, q, io>> /\ main'.pc = "sent" /\ main'.t = main.t
      /\ main'.cur = main.cur /\ main'.fired = main.fired
  BY Zenon DEF RingAlways, At, Goto, IInv, Shape, MainFields
<1>2. main.cur = NoClient /\ main.t \in Threads
  BY <1>1, Zenon DEF OInv, InHand, Executing, Fired
<1>3. Fired'
  BY <1>1, <1>2, FiredStays, Zenon
<1> QED BY <1>1, <1>2, <1>3, EmptyHanded, Unchanged, QuietOwners, Zenon

(* An I/O thread has notified the main thread. *)
LEMMA BellOwners ==
    ASSUME IInv, OInv, main.pc = "events", NEW t \in Threads, handleClientsFromIOThread(t), UNCHANGED io
    PROVE  OInv'
<1>1. /\ UNCHANGED <<cl, q>> /\ main'.pc = "join" /\ main'.t = t
      /\ main'.cur = main.cur /\ main'.fired = main.fired \ {<<"bell", t>>}
  BY Zenon DEF handleClientsFromIOThread, IInv, Shape, MainFields
<1>2. main.cur = NoClient
  BY <1>1, Zenon DEF OInv, InHand, Executing
<1>3. Fired'
  BY <1>1, FiredStays, Zenon
<1> QED BY <1>1, <1>2, <1>3, EmptyHanded, Unchanged, QuietOwners, Zenon

(* Where processClientsFromIOThread returns to. *)
LEMMA ReturnOwners ==
    ASSUME IInv, OInv, NEW f \in BOOLEAN, Return(f), main.pc \in {"join", "send", "ring"}
    PROVE  /\ main'.cur = NoClient /\ main'.pc \notin {"exec", "pause", "resume"}
           /\ main'.t \in Threads /\ main'.fired = main.fired
<1>1. main'.cur = NoClient /\ main'.fired = main.fired
  BY Zenon DEF Return, IInv, Shape, MainFields
<1>2. GoesOn(f) /\ main'.pc # "ring"
  BY ReturnEffect, Zenon
<1>3. main.t \in Threads
  BY Zenon DEF OInv, Fired
<1> QED BY <1>1, <1>2, <1>3, ThreadsAreNumbered, Zenon DEF GoesOn

(* After sendPendingClientsToIOThreadIfNeeded. *)
LEMMA AfterSendOwners ==
    ASSUME IInv, OInv, main.pc \in {"send", "ring"}, AfterSend \/ Goto("ring")
    PROVE  /\ main.cur = NoClient /\ main'.cur = NoClient
           /\ main'.pc \notin {"exec", "pause", "resume"}
           /\ main'.t \in Threads /\ main'.fired = main.fired
<1>1. main.cur = NoClient /\ main.t \in Threads /\ main.found \in BOOLEAN
  BY Zenon DEF OInv, InHand, Executing, Fired, IInv, MainShape
<1>2. CASE Goto("ring") \/ Goto("loop")
  BY <1>1, <1>2, Zenon DEF Goto, IInv, Shape, MainFields
<1>3. CASE Return(main.found)
  BY <1>1, <1>3, ReturnOwners, Zenon
<1> QED BY <1>2, <1>3, Zenon DEF AfterSend

(* The notification of an I/O thread that does not run. *)
LEMMA RingIfNotRunningOwners ==
    ASSUME IInv, OInv, RingIfNotRunning
    PROVE  OInv'
<1>1. main.pc = "ring" /\ UNCHANGED <<cl, q, io>> /\ AfterSend
  BY Zenon DEF RingIfNotRunning, At
<1>2. /\ main.cur = NoClient /\ main'.cur = NoClient
      /\ main'.pc \notin {"exec", "pause", "resume"}
      /\ main'.t \in Threads /\ main'.fired = main.fired
  BY <1>1, AfterSendOwners, Zenon
<1>3. Fired'
  BY <1>1, <1>2, FiredStays, Zenon
<1> QED BY <1>1, <1>2, <1>3, EmptyHanded, Unchanged, QuietOwners, Zenon

(* The AOF is flushed, and the lists are next. *)
LEMMA BeforeSleepOwners ==
    ASSUME IInv, OInv, beforeSleep
    PROVE  OInv'
<1>1. /\ main.pc = "events" /\ UNCHANGED <<q, io>> /\ main'.pc = "join" /\ main'.t = 1
      /\ main'.cur = main.cur /\ main'.fired = main.fired
  BY Zenon DEF beforeSleep, At, IInv, Shape, MainFields
<1>2. cl' = [c \in Clients |-> [cl[c] EXCEPT !.reply = IF @ = "dirty" THEN "clean" ELSE @]]
  BY Zenon DEF beforeSleep
<1>3. ASSUME NEW c \in Clients PROVE KeepsOwner(cl[c], cl'[c])
  BY <1>2, Zenon DEF KeepsOwner, OInv, Owned, ClientFields
<1>4. AllKept
  BY <1>2, <1>3, Zenon DEF AllKept
<1>5. main.cur = NoClient
  BY <1>1, Zenon DEF OInv, InHand, Executing
<1>6. Fired'
  BY <1>1, <1>4, FiredStays, ThreadsAreNumbered, Zenon DEF AllKept, KeepsOwner
<1> QED BY <1>1, <1>4, <1>5, <1>6, EmptyHanded, QuietOwners, Zenon


-----------------------------------------------------------------------------
(* The steps of the main thread: its lists. *)

(* A client is moved from one list of thread t to another one. *)
LEMMA ListsMove ==
    ASSUME OInv, AllKept, NEW t \in Threads, \A u \in Threads : u # t => q'[u] = q[u], Tidy(q'[t]),
           \A c \in Clients : Holds(q'[t], c) <=> Holds(q[t], c), main'.cur = main.cur,
           \A c \in Clients : Contains(q[t].clients, c) /\ cl[c].rw => Contains(q'[t].clients, c)
    PROVE  /\ DOMAIN cl' = Clients /\ \A u \in Threads : Tidy(q[u])'
           /\ \A c \in Clients : Listed(c)' /\ Owned(c)'
<1>1. ASSUME NEW c \in Clients PROVE Listed(c)' /\ Owned(c)'
  <2>1. KeepsOwner(cl[c], cl'[c]) /\ cl'[c].state = cl[c].state /\ cl'[c].tid = cl[c].tid
    BY Zenon DEF AllKept, KeepsOwner
  <2>2. \A u \in Threads : Holds(q'[u], c) <=> Holds(q[u], c)
    BY Zenon
  <2>3. Listed(c)'
    BY <2>1, <2>2, StaysListed, Zenon DEF OInv
  <2>4. Owned(c)'
    BY <2>1, StaysOwned, Zenon DEF OInv
  <2> QED BY <2>3, <2>4, Zenon
<1>2. ASSUME NEW u \in Threads PROVE Tidy(q[u])'
  <2>1. Tidy(q[u]) /\ (u = t \/ q'[u] = q[u])
    BY Zenon DEF OInv
  <2> QED BY <2>1
<1> QED BY <1>1, <1>2, Zenon DEF AllKept

(* The lists of thread t, but those of S, and the other threads' lists stay. *)
LEMMA MovedLists ==
    ASSUME OInv, NEW t \in Threads, NEW a \in Lists, NEW b \in Lists \ {a}, "clients" \notin {a, b},
           AllKept, main'.cur = main.cur, DOMAIN q' = Threads, \A u \in Threads : u # t => q'[u] = q[u],
           But(q[t], q'[t], {a, b}), q'[t][a] = <<>>, q'[t][b] = q[t][b] \o q[t][a]
    PROVE  /\ DOMAIN cl' = Clients /\ \A u \in Threads : Tidy(q[u])'
           /\ \A c \in Clients : Listed(c)' /\ Owned(c)'
<1>1. Tidy(q[t])
  BY Zenon DEF OInv
<1>2. Tidy(q'[t]) /\ \A c \in Clients : Holds(q'[t], c) <=> Holds(q[t], c)
  BY <1>1, MovesAll, Zenon
<1>3. q'[t].clients = q[t].clients
  BY Zenon DEF But, Lists
<1> QED BY <1>2, <1>3, ListsMove, Zenon

(* The main thread leaves the lists alone that the I/O threads have in hand. *)
LEMMA HandsOff ==
    ASSUME OInv, io' = io,
           \A t \in Threads : \A n \in {"handling", "to_main", "clients"} : q'[t][n] = q[t][n]
    PROVE  \A t \in Threads : Hands(t)'
BY HandsStay, Zenon DEF OInv

(* The main thread takes the clients an I/O thread has sent. *)
LEMMA JoinPendingOwners ==
    ASSUME IInv, OInv, JoinPending
    PROVE  OInv'
<1>1. /\ main.pc = "join" /\ UNCHANGED <<cl, io>>
      /\ q' = [q EXCEPT ![main.t].processing = Joined, ![main.t].pending = <<>>]
  BY Zenon DEF JoinPending, At
<1>2. main.t \in Threads /\ main.cur = NoClient
  BY <1>1, Zenon DEF OInv, Fired, InHand, Executing
<1>3. /\ DOMAIN q' = Threads /\ \A u \in Threads : u # main.t => q'[u] = q[u]
      /\ But(q[main.t], q'[main.t], {"pending", "processing"}) /\ q'[main.t].pending = <<>>
      /\ q'[main.t].processing = q[main.t].processing \o q[main.t].pending
  BY <1>1, <1>2, Zenon DEF IInv, Shape, Lists, But, Joined
<1>4. /\ main'.cur = NoClient /\ main'.pc \notin {"exec", "pause", "resume"}
      /\ main'.t \in Threads /\ main'.fired = main.fired
  <2> DEFINE found == main.found \/ (main.ret = "before" /\ main.round = 1 /\ Joined # <<>>)
  <2>1. found \in BOOLEAN
    BY Zenon DEF IInv, MainShape
  <2>2. CASE Return(found)
    BY <1>1, <2>1, <2>2, ReturnOwners, Zenon
  <2>3. CASE main' = [main EXCEPT !.pc = "loop", !.found = found]
    BY <1>2, <2>3, Zenon DEF IInv, Shape, MainFields
  <2> QED BY <2>2, <2>3, Zenon DEF JoinPending
<1>5. InHand' /\ Fired'
  BY <1>1, <1>4, EmptyHanded, FiredStays, Zenon
<1>6. \A t \in Threads : \A n \in {"handling", "to_main", "clients"} : q'[t][n] = q[t][n]
  BY <1>3, Zenon DEF But, Lists
<1>7. \A t \in Threads : Hands(t)'
  BY <1>1, <1>6, HandsOff, Zenon
<1>8. /\ DOMAIN cl' = Clients /\ \A u \in Threads : Tidy(q[u])'
      /\ \A c \in Clients : Listed(c)' /\ Owned(c)'
  <2>1. AllKept /\ "pending" \in Lists /\ "processing" \in Lists \ {"pending"}
    BY <1>1, Unchanged, Zenon DEF Lists
  <2> QED BY <1>2, <1>3, <1>4, <2>1, MovedLists, Zenon
<1> QED BY <1>5, <1>7, <1>8, Zenon DEF OInv

(* Clients are given to thread t. *)
Gives(t) == q' = [q EXCEPT ![t] = Given(@)]

(* They are in the inbox of the thread then. *)
LEMMA GivenOwners ==
    ASSUME IInv, OInv, NEW t \in Threads, Gives(t), UNCHANGED <<cl, io>>,
           main'.cur = main.cur, InHand', Fired'
    PROVE  OInv'
<1>1. /\ DOMAIN q' = Threads /\ \A u \in Threads : u # t => q'[u] = q[u]
      /\ But(q[t], q'[t], {"to_io", "inbox"}) /\ q'[t].to_io = <<>>
      /\ q'[t].inbox = q[t].inbox \o q[t].to_io
  BY Zenon DEF IInv, Shape, Lists, But, Given, Gives
<1>2. \A u \in Threads : \A n \in {"handling", "to_main", "clients"} : q'[u][n] = q[u][n]
  BY <1>1, Zenon DEF But, Lists
<1>3. \A u \in Threads : Hands(u)'
  BY <1>2, HandsOff, Zenon
<1>4. /\ DOMAIN cl' = Clients /\ \A u \in Threads : Tidy(q[u])'
      /\ \A c \in Clients : Listed(c)' /\ Owned(c)'
  <2>1. AllKept /\ "to_io" \in Lists /\ "inbox" \in Lists \ {"to_io"}
    BY Unchanged, Zenon DEF Lists
  <2> QED BY <1>1, <2>1, MovedLists, Zenon
<1> QED BY <1>3, <1>4, Zenon DEF OInv

(* sendPendingClientsToIOThreadIfNeeded. *)
LEMMA SendIfNeededOwners ==
    ASSUME IInv, OInv, SendIfNeeded
    PROVE  OInv'
<1>1. /\ main.pc = "send" /\ UNCHANGED <<cl, io>>
      /\ AfterSend \/ Goto("ring")
      /\ q' = q \/ q' = [q EXCEPT ![main.t] = Given(@)]
  BY Zenon DEF SendIfNeeded, At
<1>2. /\ main.cur = NoClient /\ main'.cur = NoClient
      /\ main'.pc \notin {"exec", "pause", "resume"}
      /\ main'.t \in Threads /\ main'.fired = main.fired
  BY <1>1, AfterSendOwners, Zenon
<1>3. InHand' /\ Fired'
  BY <1>1, <1>2, EmptyHanded, FiredStays, Zenon
<1>4. main.t \in Threads
  BY Zenon DEF OInv, Fired
<1> QED BY <1>1, <1>2, <1>3, <1>4, GivenOwners, Unchanged, QuietOwners, Zenon DEF Gives

(* sendPendingClientsToIOThreads. *)
LEMMA SendPendingOwners ==
    ASSUME IInv, OInv, sendPendingClientsToIOThreads
    PROVE  OInv'
<1>1. /\ main.pc = "sendall" /\ UNCHANGED <<cl, io>> /\ q' = [q EXCEPT ![main.t] = Given(@)]
      /\ main'.pc \in {"sent", "ringall"} /\ main'.t = main.t /\ main'.cur = main.cur
      /\ main'.fired = main.fired
  BY Zenon DEF sendPendingClientsToIOThreads, At, Goto, IInv, Shape, MainFields
<1>2. main.cur = NoClient /\ main.t \in Threads
  BY <1>1, Zenon DEF OInv, InHand, Executing, Fired
<1>3. InHand' /\ Fired'
  BY <1>1, <1>2, EmptyHanded, FiredStays, Zenon
<1> QED BY <1>1, <1>2, <1>3, GivenOwners, Zenon DEF Gives


-----------------------------------------------------------------------------
(* The steps of the main thread: one client. *)

(* One client changes hands, between the lists and main.cur; the others stay. *)
LEMMA AllButOneStay ==
    ASSUME OInv, NEW c \in Clients, \A d \in Clients : d # c => KeepsOwner(cl[d], cl'[d]),
           \A d \in Clients : d # c => (main'.cur = d <=> main.cur = d),
           \A d \in Clients : d # c => \A u \in Threads : Holds(q'[u], d) <=> Holds(q[u], d),
           \A d \in Clients : d # c => \A u \in Threads :
              Contains(q[u].clients, d) /\ cl[d].rw => Contains(q'[u].clients, d),
           Listed(c)', Owned(c)'
    PROVE  \A d \in Clients : Listed(d)' /\ Owned(d)'
<1>1. ASSUME NEW d \in Clients, d # c PROVE Listed(d)' /\ Owned(d)'
  <2>1. KeepsOwner(cl[d], cl'[d]) /\ cl'[d].state = cl[d].state /\ cl'[d].tid = cl[d].tid
    BY <1>1, Zenon DEF KeepsOwner
  <2>2. Listed(d)'
    BY <1>1, <2>1, StaysListed, Zenon DEF OInv
  <2>3. Owned(d)'
    BY <1>1, <2>1, StaysOwned, Zenon DEF OInv
  <2> QED BY <2>2, <2>3, Zenon
<1> QED BY <1>1, Zenon

(* The same where the other clients do not change at all. *)
LEMMA OneMoves ==
    ASSUME OInv, NEW c \in Clients, \A d \in Clients : d # c => cl'[d] = cl[d],
           \A d \in Clients : d # c => (main'.cur = d <=> main.cur = d),
           \A d \in Clients : d # c => \A u \in Threads : Holds(q'[u], d) <=> Holds(q[u], d),
           \A d \in Clients : d # c => \A u \in Threads :
              Contains(q[u].clients, d) /\ cl[d].rw => Contains(q'[u].clients, d),
           Listed(c)', Owned(c)'
    PROVE  \A d \in Clients : Listed(d)' /\ Owned(d)'
<1>1. \A d \in Clients : d # c => KeepsOwner(cl[d], cl'[d])
  BY Zenon DEF KeepsOwner, OInv, Owned
<1> QED BY <1>1, AllButOneStay, Zenon

(* One client changes, and no list. *)
LEMMA OneChanges ==
    ASSUME OInv, NEW c \in Clients, DOMAIN cl' = Clients, \A d \in Clients : d # c => cl'[d] = cl[d],
           \A d \in Clients : d # c => (main'.cur = d <=> main.cur = d), q' = q,
           Listed(c)', Owned(c)'
    PROVE  /\ \A t \in Threads : Tidy(q[t])'
           /\ \A d \in Clients : Listed(d)' /\ Owned(d)'
<1>1. ASSUME NEW t \in Threads PROVE Tidy(q[t])'
  <2>1. Tidy(q[t]) /\ q'[t] = q[t]
    BY Zenon DEF OInv
  <2> QED BY <2>1
<1> QED BY <1>1, OneMoves, Zenon

(* A client of the main thread is in no list. *)
LEMMA OfMainIsUnlisted ==
    ASSUME OInv, NEW c \in Clients, OfMain(c)
    PROVE  \A t \in Threads : ~Holds(q[t], c)
<1>1. Listed(c) /\ cl[c].tid = Main
  BY Zenon DEF OInv, OfMain
<1> QED BY <1>1, ThreadNumbers, Zenon DEF Listed

(* The main thread gives its client c to an I/O thread. *)
LEMMA AssignOwners ==
    ASSUME IInv, OInv, NEW c \in Clients, OfMain(c), ~cl[c].close, main.cur # c,
           assignClientToIOThread(c), UNCHANGED io, main'.cur = main.cur
    PROVE  /\ DOMAIN cl' = Clients /\ \A d \in Clients : d # c => cl'[d] = cl[d]
           /\ \A u \in Threads : Tidy(q[u])' /\ Hands(u)'
           /\ \A d \in Clients : Listed(d)' /\ Owned(d)'
<1>1. PICK t \in Threads :
         /\ cl' = [cl EXCEPT ![c] = [Unbound(@) EXCEPT !.state = "open", !.tid = t, !.running = t,
                                                       !.rw = FALSE, !.pendw = FALSE]]
         /\ q' = [q EXCEPT ![t].to_io = <<c>> \o @]
  BY Zenon DEF assignClientToIOThread
<1> DEFINE r == [Unbound(cl[c]) EXCEPT !.state = "open", !.tid = t, !.running = t, !.rw = FALSE,
                                       !.pendw = FALSE]
<1>2. DOMAIN cl' = Clients /\ cl'[c] = r /\ \A d \in Clients : d # c => cl'[d] = cl[d]
  BY <1>1, Zenon DEF OInv
<1>3. /\ DOMAIN r = ClientFields /\ r.state = "open" /\ r.tid = t /\ r.running = t /\ ~r.rw
      /\ ~r.pendw /\ r.el = NoLoop /\ ~r.close
  BY Zenon DEF OInv, Owned, Unbound, ClientFields
<1> HIDE DEF r
<1>4. /\ \A u \in Threads : u # t => q'[u] = q[u]
      /\ But(q[t], q'[t], {"to_io"}) /\ q'[t].to_io = <<c>> \o q[t].to_io
  BY <1>1, Zenon DEF IInv, Shape, Lists, But
<1>5. \A u \in Threads : ~Holds(q[u], c)
  BY OfMainIsUnlisted, Zenon
<1>6. Tidy(q[t]) /\ "to_io" \in Lists
  BY Zenon DEF OInv, Lists
<1>7. Adds(q[t].to_io, q'[t].to_io, c)
  BY <1>4, <1>6, ListAdds, Zenon DEF Tidy
<1>8. Tidy(q'[t]) /\ \A d \in Clients : Holds(q'[t], d) <=> Holds(q[t], d) \/ d = c
  BY <1>4, <1>5, <1>6, <1>7, Puts, Zenon
<1>9. \A u \in Threads : Tidy(q[u])'
  <2>1. ASSUME NEW u \in Threads PROVE Tidy(q'[u])
    BY <1>4, <1>8, Zenon DEF OInv
  <2> QED BY <2>1
<1>10. \A u \in Threads : \A n \in {"handling", "to_main", "clients"} : q'[u][n] = q[u][n]
  BY <1>4, Zenon DEF But, Lists
<1>11. \A u \in Threads : Hands(u)'
  BY <1>10, HandsOff, Zenon
<1>12. Open(c)' /\ cl'[c].tid = t /\ main'.cur # c
  BY <1>2, <1>3, Zenon DEF Open
<1>13. Listed(c)'
  <2>1. \A u \in Threads : Holds(q'[u], c) <=> u = t
    BY <1>4, <1>5, <1>8, Zenon
  <2> QED BY <1>12, <2>1, Zenon DEF Listed, Holds, Contains
<1>14. Owned(c)'
  BY <1>2, <1>3, <1>12, Zenon DEF Owned, Borrowed
<1>15. \A d \in Clients : d # c => \A u \in Threads :
          /\ Holds(q'[u], d) <=> Holds(q[u], d)
          /\ Contains(q[u].clients, d) => Contains(q'[u].clients, d)
  BY <1>4, <1>8, <1>10, Zenon
<1>16. \A d \in Clients : Listed(d)' /\ Owned(d)'
  BY <1>2, <1>13, <1>14, <1>15, OneMoves, Zenon
<1> QED BY <1>2, <1>9, <1>11, <1>16, Zenon

(* A connection is accepted and given to an I/O thread. *)
LEMMA AcceptOwners ==
    ASSUME IInv, OInv, main.pc = "events", NEW c \in Clients, <<"accept", c>> \in main.fired,
           Accept(c), UNCHANGED io
    PROVE  OInv'
<1>1. /\ assignClientToIOThread(c) /\ main'.pc = "events" /\ main'.t = main.t
      /\ main'.cur = main.cur /\ main'.fired = main.fired \ {<<"accept", c>>}
  BY Zenon DEF Accept, IInv, Shape, MainFields
<1>2. main.cur = NoClient /\ main.t \in Threads /\ cl[c].state = "new"
  BY Zenon DEF OInv, InHand, Executing, Fired
<1>3. OfMain(c) /\ ~cl[c].close /\ main.cur # c
  BY <1>2, IoThreadsAssumption, Zenon DEF OInv, Owned, Open, Outside
<1>4. /\ DOMAIN cl' = Clients /\ \A d \in Clients : d # c => cl'[d] = cl[d]
      /\ \A u \in Threads : Tidy(q[u])' /\ Hands(u)'
      /\ \A d \in Clients : Listed(d)' /\ Owned(d)'
  BY <1>1, <1>3, AssignOwners, Zenon
<1>5. \A d \in Clients : <<"accept", d>> \in main'.fired => cl'[d].state = cl[d].state
  BY <1>1, <1>4, Zenon
<1>6. InHand' /\ Fired'
  BY <1>1, <1>2, <1>5, EmptyHanded, FiredStays, Zenon
<1> QED BY <1>4, <1>6, Zenon DEF OInv

(* A connection in the event loop of the main thread is the main thread's. *)
LEMMA InMainLoop ==
    ASSUME OInv, NEW c \in Clients, cl[c].el = Main
    PROVE  Open(c) /\ OfMain(c)
BY ThreadNumbers, Zenon DEF OInv, Owned, Outside, OfMain, Borrowed

(* The main thread reads from a client of its own. *)
LEMMA MainReadOwners ==
    ASSUME IInv, OInv, main.pc = "events", NEW c \in Clients, MainRead(c), UNCHANGED io
    PROVE  OInv'
<1> DEFINE valid == cl[c].el = Main /\ cl[c].rw
           eof == sock[c] = <<EOF>>
<1>1. /\ q' = q /\ main'.t = main.t /\ main'.fired = main.fired \ {<<"read", c>>}
      /\ main'.pc = IF valid /\ ~eof THEN "exec" ELSE main.pc
      /\ main'.ret = IF valid /\ ~eof THEN "read" ELSE main.ret
      /\ main'.cur = IF valid /\ ~eof THEN c ELSE main.cur
  BY Zenon DEF MainRead, IInv, Shape, MainFields
<1>2. main.cur = NoClient /\ main.t \in Threads /\ NoClient \notin Clients
  BY IoThreadsAssumption, Zenon DEF OInv, InHand, Executing, Fired
<1>3. IF valid THEN cl' = [cl EXCEPT ![c] = IF eof THEN Freed
                                            ELSE Received(@, sock[c])]
      ELSE cl' = cl
  BY Zenon DEF MainRead
<1>4. \A t \in Threads : Hands(t)'
  BY <1>1, AllHandsStay, Zenon
<1> HIDE DEF eof
<1>5. CASE ~valid
  <2>1. Fired'
    BY <1>1, <1>2, <1>3, <1>5, FiredStays, Zenon
  <2> QED BY <1>1, <1>2, <1>3, <1>5, <2>1, EmptyHanded, Unchanged, QuietOwners, Zenon
<1>6. CASE valid
  <2>1. Open(c) /\ OfMain(c) /\ DOMAIN cl[c] = ClientFields /\ Listed(c) /\ Owned(c)
    BY <1>6, InMainLoop, Zenon DEF OInv, Owned
  <2>2. DOMAIN cl' = Clients /\ \A d \in Clients : d # c => cl'[d] = cl[d]
    BY <1>3, <1>6, Zenon DEF OInv
  <2>3. \A d \in Clients : d # c => (main'.cur = d <=> main.cur = d)
    BY <1>1, <1>2, Zenon
  <2>4. \A d \in Clients : <<"accept", d>> \in main'.fired => cl'[d].state = cl[d].state
    BY <1>1, <2>1, <2>2, Zenon DEF OInv, Fired, Open
  <2>5. Fired'
    BY <1>1, <1>2, <2>4, FiredStays, Zenon
  <2>6. CASE eof
    <3>1. cl'[c] = Freed
      BY <1>3, <1>6, <2>6, Zenon DEF OInv
    <3>2. \A t \in Threads : ~Holds(q'[t], c)
      BY <1>1, <2>1, OfMainIsUnlisted, Zenon
    <3>3. Listed(c)' /\ Owned(c)'
      BY <3>1, <3>2, FreedIsOutside, Zenon
    <3>4. InHand'
      BY <1>1, <1>2, <2>6, EmptyHanded, Zenon
    <3> QED BY <1>1, <1>4, <2>2, <2>3, <2>5, <3>3, <3>4, OneChanges, Zenon DEF OInv
  <2>7. CASE ~eof
    <3>1. /\ DOMAIN cl'[c] = ClientFields
          /\ \A f \in {"state", "tid", "running", "el"} : cl'[c][f] = cl[c][f]
      <4>1. cl'[c] = Received(cl[c], sock[c])
        BY <1>3, <1>6, <2>7, Zenon DEF OInv
      <4> QED BY <2>1, <4>1, Zenon DEF Received, ClientFields
    <3>2. Listed(c)' /\ Owned(c)' /\ Open(c)'
      BY <1>1, <2>1, <3>1, StaysOfMain, Zenon
    <3>3. cl'[c].tid \notin Threads /\ main'.pc = "exec" /\ main'.ret = "read" /\ main'.cur = c
      BY <1>1, <1>6, <2>1, <2>7, <3>1, ThreadNumbers, Zenon DEF OfMain
    <3>4. InHand'
      BY <3>2, <3>3, Zenon DEF InHand, Executing
    <3> QED BY <1>1, <1>4, <2>2, <2>3, <2>5, <3>2, <3>4, OneChanges, Zenon DEF OInv
  <2> QED BY <2>6, <2>7, Zenon
<1> QED BY <1>5, <1>6, Zenon


(* What MainWrites does to a client. *)
KeepsPlace(r, s) ==
    DOMAIN s = ClientFields /\ \A f \in {"state", "tid", "running", "el"} : s[f] = r[f]

(* A write does not change it. *)
LEMMA MainWritesKeeps ==
    ASSUME NEW r, DOMAIN r = ClientFields
    PROVE  \A whole, installed : KeepsPlace(r, MainWrites(r, whole, installed))
<1> TAKE whole, installed
<1> DEFINE w == writeToClient(r, whole, installed)
<1>1. KeepsPlace(r, w)
  BY Zenon DEF writeToClient, ClientFields, KeepsPlace
<1>2. MainWrites(r, whole, installed) = [w EXCEPT !.close = @ \/ Closing(w)]
  BY Zenon DEF MainWrites
<1> HIDE DEF w
<1> QED BY <1>1, <1>2, Zenon DEF ClientFields, KeepsPlace

(* A client of the main thread changes, in nothing that says whose it is. *)
LEMMA OfMainChanges ==
    ASSUME OInv, NEW c \in Clients, Open(c), OfMain(c), DOMAIN cl' = Clients,
           \A d \in Clients : d # c => cl'[d] = cl[d], DOMAIN cl'[c] = ClientFields,
           \A f \in {"state", "tid", "running", "el"} : cl'[c][f] = cl[c][f],
           UNCHANGED <<q, io>>, main'.cur = main.cur, InHand', Fired'
    PROVE  OInv'
<1>1. Listed(c)' /\ Owned(c)'
  BY StaysOfMain, Zenon DEF OInv
<1>2. \A t \in Threads : Hands(t)'
  BY AllHandsStay, Zenon
<1> QED BY <1>1, <1>2, OneChanges, Zenon DEF OInv

(* The main thread writes to a client of its own. *)
LEMMA MainWriteOwners ==
    ASSUME IInv, OInv, main.pc = "events", NEW c \in Clients, MainWrite(c), UNCHANGED io
    PROVE  OInv'
<1>1. /\ q' = q /\ main'.t = main.t /\ main'.fired = main.fired \ {<<"write", c>>}
      /\ main'.pc = main.pc /\ main'.cur = main.cur
  BY Zenon DEF MainWrite, IInv, Shape, MainFields
<1>2. main.cur = NoClient /\ main.t \in Threads
  BY Zenon DEF OInv, InHand, Executing, Fired
<1>3. PICK whole : cl' = IF cl[c].el = Main /\ cl[c].wh
                         THEN [cl EXCEPT ![c] = MainWrites(@, whole, TRUE)] ELSE cl
  BY Zenon DEF MainWrite
<1>4. CASE cl' = cl
  BY <1>1, <1>2, <1>4, FiredStays, EmptyHanded, Unchanged, QuietOwners, Zenon
<1>5. CASE cl[c].el = Main /\ cl' = [cl EXCEPT ![c] = MainWrites(cl[c], whole, TRUE)]
  <2>1. Open(c) /\ OfMain(c) /\ DOMAIN cl[c] = ClientFields
    BY <1>5, InMainLoop, Zenon DEF OInv, Owned
  <2>2. /\ DOMAIN cl' = Clients /\ \A d \in Clients : d # c => cl'[d] = cl[d]
        /\ cl'[c] = MainWrites(cl[c], whole, TRUE)
    BY <1>5, Zenon DEF OInv
  <2>3. DOMAIN cl'[c] = ClientFields /\ \A f \in {"state", "tid", "running", "el"} : cl'[c][f] = cl[c][f]
    <3>1. KeepsPlace(cl[c], MainWrites(cl[c], whole, TRUE))
      BY <2>1, MainWritesKeeps, Zenon
    <3> QED BY <2>2, <3>1, Zenon DEF KeepsPlace
  <2>4. Fired'
    BY <1>1, <1>2, <2>2, <2>3, FiredStays, Zenon
  <2> QED BY <1>1, <1>2, <2>1, <2>2, <2>3, <2>4, EmptyHanded, OfMainChanges, Zenon
<1> QED BY <1>3, <1>4, <1>5, Zenon

(* One event of the main thread. *)
LEMMA MainEventOwners ==
    ASSUME IInv, OInv, MainEvent
    PROVE  OInv'
<1>1. PICK e \in main.fired : \/ e[1] = "bell" /\ handleClientsFromIOThread(e[2])
                              \/ e[1] = "accept" /\ Accept(e[2])
                              \/ e[1] = "read" /\ MainRead(e[2])
                              \/ e[1] = "write" /\ MainWrite(e[2])
  BY Zenon DEF MainEvent
<1>2. main.pc = "events" /\ UNCHANGED io
  BY Zenon DEF MainEvent, At
<1>3. /\ e[1] = "bell" => e[2] \in Threads
      /\ e[1] \in {"accept", "read", "write"} => e[2] \in Clients
      /\ e = <<e[1], e[2]>>
  <2>1. e \in ({"bell"} \X Threads) \cup ({"accept", "read", "write"} \X Clients)
    BY Zenon DEF OInv, Fired
  <2> QED BY <2>1
<1>4. CASE e[1] = "bell" /\ handleClientsFromIOThread(e[2])
  BY <1>2, <1>3, <1>4, BellOwners, Zenon
<1>5. CASE e[1] = "accept" /\ Accept(e[2])
  <2>1. e[2] \in Clients /\ <<"accept", e[2]>> \in main.fired
    BY <1>3, <1>5, Zenon
  <2> QED BY <1>2, <1>5, <2>1, AcceptOwners, Zenon
<1>6. CASE e[1] = "read" /\ MainRead(e[2])
  BY <1>2, <1>3, <1>6, MainReadOwners, Zenon
<1>7. CASE e[1] = "write" /\ MainWrite(e[2])
  BY <1>2, <1>3, <1>7, MainWriteOwners, Zenon
<1> QED BY <1>1, <1>4, <1>5, <1>6, <1>7, Zenon

(* The main thread takes the next client of an I/O thread, or frees it. *)
LEMMA NextClientOwners ==
    ASSUME IInv, OInv, NextClient
    PROVE  OInv'
<1>1. /\ main.pc = "loop" /\ q[main.t].processing # <<>> /\ UNCHANGED io
      /\ main.t \in Threads /\ main.cur = NoClient /\ main.ret # "read" /\ NoClient \notin Clients
  BY IoThreadsAssumption, Zenon DEF NextClient, At, OInv, Fired, InHand, Executing, IInv, MainShape
<1>2. PICK t \in Threads : t = main.t
  BY <1>1, Zenon
<1>3. /\ Tidy(q[t]) /\ "processing" \in Lists /\ q[t].processing \in Seq(Clients)
      /\ q[t].processing # <<>> /\ \A d \in Clients : AtMostOnce(q[t].processing, d)
  BY <1>1, <1>2, Zenon DEF OInv, Tidy, Lists
<1>4. PICK c \in Clients : c = Head(q[t].processing)
  BY <1>3
<1>5. Contains(q[t].processing, c) /\ Drops(q[t].processing, Tail(q[t].processing), c)
  BY <1>3, <1>4, ListTakes, Zenon
<1>a. /\ q' = [q EXCEPT ![t].processing = Tail(@)]
      /\ cl' = [cl EXCEPT ![c] = IF @.ioclose THEN Freed ELSE [@ EXCEPT !.running = Main]]
      /\ main' = IF cl[c].ioclose THEN main ELSE [main EXCEPT !.pc = "exec", !.cur = c]
  BY <1>2, <1>4, Zenon DEF NextClient
<1>6. /\ \A u \in Threads : u # t => q'[u] = q[u]
      /\ But(q[t], q'[t], {"processing"}) /\ q'[t].processing = Tail(q[t].processing)
  BY <1>a, Zenon DEF IInv, Shape, Lists, But
<1>7. /\ Tidy(q'[t]) /\ ~Holds(q'[t], c)
      /\ \A d \in Clients : d # c => (Holds(q'[t], d) <=> Holds(q[t], d))
  BY <1>3, <1>5, <1>6, Takes, Zenon
<1>8. Holds(q[t], c)
  BY <1>3, <1>5, Zenon DEF Holds
<1>9. Open(c) /\ cl[c].tid = t /\ Listed(c) /\ Owned(c)
  BY <1>8, Zenon DEF OInv, Listed
<1>10. \A u \in Threads : ~Holds(q'[u], c)
  BY <1>6, <1>7, <1>9, Zenon DEF Listed
<1>11. /\ DOMAIN cl' = Clients /\ \A d \in Clients : d # c => cl'[d] = cl[d]
       /\ cl'[c] = IF cl[c].ioclose THEN Freed ELSE [cl[c] EXCEPT !.running = Main]
  BY <1>a, Zenon DEF OInv
<1>12. /\ main'.t = main.t /\ main'.fired = main.fired /\ main'.ret = main.ret
       /\ main'.cur = IF cl[c].ioclose THEN NoClient ELSE c
       /\ main'.pc = IF cl[c].ioclose THEN "loop" ELSE "exec"
  BY <1>1, <1>a, Zenon DEF IInv, Shape, MainFields
<1>13. \A u \in Threads : \A n \in {"handling", "to_main", "clients"} : q'[u][n] = q[u][n]
  BY <1>6, Zenon DEF But, Lists
<1>14. \A u \in Threads : Tidy(q[u])' /\ Hands(u)'
  <2>1. ASSUME NEW u \in Threads PROVE Tidy(q'[u])
    BY <1>6, <1>7, Zenon DEF OInv
  <2> QED BY <1>1, <1>13, <2>1, HandsOff
<1>15. Fired'
  <2>1. ~(<<"accept", c>> \in main.fired)
    BY <1>9, Zenon DEF OInv, Fired, Open
  <2>2. main'.t \in Threads
    BY <1>1, <1>12, Zenon
  <2> QED BY <1>11, <1>12, <2>1, <2>2, FiredStays, Zenon
<1>16. \A d \in Clients : d # c => /\ main'.cur = d <=> main.cur = d
                                   /\ \A u \in Threads : /\ Holds(q'[u], d) <=> Holds(q[u], d)
                                                         /\ q'[u].clients = q[u].clients
  BY <1>1, <1>6, <1>7, <1>12, <1>13, Zenon
<1>17. CASE cl[c].ioclose
  <2>1. Listed(c)' /\ Owned(c)'
    BY <1>10, <1>11, <1>17, FreedIsOutside, Zenon
  <2>2. InHand'
    BY <1>12, <1>17, EmptyHanded, Zenon
  <2>3. \A d \in Clients : Listed(d)' /\ Owned(d)'
    BY <1>11, <1>16, <2>1, OneMoves, Zenon
  <2> QED BY <1>11, <1>14, <1>15, <2>2, <2>3, Zenon DEF OInv
<1>18. CASE ~cl[c].ioclose
  <2>1. /\ cl'[c].running = Main /\ DOMAIN cl'[c] = ClientFields
        /\ \A f \in {"state", "tid", "el", "rw", "close"} : cl'[c][f] = cl[c][f]
    BY <1>9, <1>11, <1>18, Zenon DEF Owned, ClientFields
  <2>2. /\ ~cl[c].close /\ cl[c].el \in {cl[c].tid, NoLoop}
        /\ cl[c].rw => Contains(q[t].clients, c)
    BY <1>1, <1>9, ThreadNumbers, Zenon DEF Owned, Borrowed, OfMain
  <2>3. ~cl[c].rw
    BY <1>3, <1>5, <2>2 DEF Tidy, Lists
  <2>4. Open(c)' /\ cl'[c].tid = t /\ main'.cur = c
    BY <1>9, <1>12, <1>18, <2>1, Zenon DEF Open
  <2>5. Owned(c)'
    BY <1>9, <2>1, <2>2, <2>3, <2>4, Zenon DEF Owned, Borrowed
  <2>6. Listed(c)'
    BY <1>10, <2>4, Zenon DEF Listed, Holds, Contains
  <2>7. InHand'
    BY <1>1, <1>12, <1>18, <2>4, Zenon DEF InHand, Executing
  <2>8. \A d \in Clients : Listed(d)' /\ Owned(d)'
    BY <1>11, <1>16, <2>5, <2>6, OneMoves, Zenon
  <2> QED BY <1>11, <1>14, <1>15, <2>7, <2>8, Zenon DEF OInv
<1> QED BY <1>17, <1>18, Zenon


-----------------------------------------------------------------------------
(* The steps of the main thread: commands. *)

(* A reply is added to a client of the main thread, or to main.cur. *)
LEMMA AddReplyKeeps ==
    ASSUME NEW r, DOMAIN r = ClientFields, r.state = "open"
    PROVE  \A kind : KeepsOwner(r, addReply(r, kind))
<1> TAKE kind
<1>1. CASE r.close \/ r.after
  BY <1>1, Zenon DEF addReply, KeepsOwner
<1>2. CASE ~(r.close \/ r.after)
  <2>1. addReply(r, kind) = [r EXCEPT !.reply = IF "dirty" \in {@, kind} THEN "dirty" ELSE "clean",
                                      !.pendw = @ \/ (r.running = Main /\ r.reply = "none")]
    BY <1>2, Zenon DEF addReply
  <2> QED BY <2>1, Zenon DEF KeepsOwner, ClientFields
<1> QED BY <1>1, <1>2, Zenon

(* Two changes that leave the owner alone. *)
LEMMA KeepsOwnerTwice ==
    ASSUME NEW r, NEW s, NEW w, KeepsOwner(r, s), KeepsOwner(s, w)
    PROVE  KeepsOwner(r, w)
BY Zenon DEF KeepsOwner

(* A command and its reply leave the owner alone. *)
LEMMA RepliedKeeps ==
    ASSUME NEW c \in Clients, DOMAIN cl[c] = ClientFields, Open(c)
    PROVE  \A kind : KeepsOwner(cl[c], Replied(c, kind))
<1> TAKE kind
<1> DEFINE r == [cl[c] EXCEPT !.got = Tail(@)]
<1>1. KeepsOwner(cl[c], r) /\ DOMAIN r = ClientFields /\ r.state = "open"
  BY Zenon DEF KeepsOwner, ClientFields, Open
<1>2. Replied(c, kind) = addReply(r, kind)
  BY Zenon DEF Replied
<1> HIDE DEF r
<1> QED BY <1>1, <1>2, AddReplyKeeps, KeepsOwnerTwice, Zenon

(* The main thread executes a command that concerns no I/O thread. *)
LEMMA ReplyOwners ==
    ASSUME OInv, AllKept, UNCHANGED <<q, io, main>>
    PROVE  OInv'
<1>1. \A c \in Clients : cl'[c].state = cl[c].state /\ cl'[c].tid = cl[c].tid
  BY Zenon DEF AllKept, KeepsOwner
<1>2. InHand' /\ Fired'
  BY <1>1, MainStays, Zenon
<1> QED BY <1>2, QuietOwners, Zenon

(* The main thread pauses threads, to do something with c. *)
PausesWhom(job, c, range) ==
    \/ job = "list" /\ range = Threads
    \/ job = "keep" /\ c = main.cur /\ main.ret # "read" /\ range = {cl[c].tid}
    \/ /\ job \in {"kill", "close"} /\ c \in Clients \ {main.cur}
       /\ Open(c) /\ cl[c].tid \in Threads /\ range = {cl[c].tid}

(* pauseIOThreadsRange begins. *)
LEMMA PauseOwners ==
    ASSUME IInv, OInv, AllKept, q' = q, NEW job, NEW c, NEW range, PauseFor(job, c, range),
           main.pc = "exec", PausesWhom(job, c, range)
    PROVE  OInv'
<1>1. /\ \A i \in MainFields \ {"pc", "job", "arg", "range"} : main'[i] = main[i]
      /\ main'.pc = "pause" /\ main'.job = job /\ main'.arg = c /\ main'.range = range
      /\ \A t \in Threads : \A i \in IoFields \ {"paused"} : io'[t][i] = io[t][i]
  BY PauseEffect, Zenon
<1>2. main'.t = main.t /\ main'.fired = main.fired /\ main'.cur = main.cur /\ main'.ret = main.ret
  BY <1>1, Zenon DEF MainFields
<1>3. \A t \in Threads : \A i \in {"pc", "cur", "fired", "ret", "back", "after"} : io'[t][i] = io[t][i]
  BY <1>1, Zenon DEF IoFields
<1>4. \A t \in Threads : Hands(t)'
  BY <1>3, HandsStay, Zenon DEF OInv
<1>5. \A d \in Clients : cl'[d].state = cl[d].state /\ cl'[d].tid = cl[d].tid
  BY Zenon DEF AllKept, KeepsOwner
<1>6. Fired'
  <2>1. main.t \in Threads
    BY Zenon DEF OInv, Fired
  <2> QED BY <1>2, <1>5, <2>1, FiredStays, Zenon
<1>7. /\ main.cur \in Clients /\ Open(main.cur)
      /\ cl[main.cur].tid \in Threads <=> main.ret # "read"
  BY Zenon DEF OInv, InHand, Executing
<1>8. InHand'
  <2>1. /\ main'.cur \in Clients /\ Open(main.cur)'
        /\ cl'[main'.cur].tid \in Threads <=> main'.ret # "read"
    BY <1>2, <1>5, <1>7, Zenon DEF Open
  <2>2. \/ main'.job = "list" /\ main'.range = Threads
        \/ main'.job = "keep" /\ main'.arg = main'.cur /\ main'.range = {cl'[main'.cur].tid}
        \/ /\ main'.job \in {"kill", "close"} /\ main'.arg \in Clients \ {main'.cur}
           /\ Open(main.arg)' /\ cl'[main'.arg].tid \in Threads
           /\ main'.range = {cl'[main'.arg].tid}
    BY <1>1, <1>2, <1>5, <1>7, Zenon DEF PausesWhom, Open
  <2> QED BY <1>1, <2>1, <2>2, Zenon DEF InHand, Executing
<1> QED BY <1>2, <1>4, <1>6, <1>8, NothingMoves, Zenon DEF OInv


(* Only main.cur changes, in nothing that says whose it is. *)
LEMMA OnlyReplies ==
    ASSUME OInv, NEW c \in Clients, NEW r, KeepsOwner(cl[c], r), cl' = [cl EXCEPT ![c] = r]
    PROVE  AllKept
<1>1. DOMAIN cl' = Clients /\ cl'[c] = r /\ \A d \in Clients : d # c => cl'[d] = cl[d]
  BY Zenon DEF OInv
<1>2. \A d \in Clients : d # c => KeepsOwner(cl[d], cl'[d])
  BY <1>1, Zenon DEF KeepsOwner, OInv, Owned
<1> QED BY <1>1, <1>2, Zenon DEF AllKept

(* Commands on the account of the client itself. *)
LEMMA PlainOwners ==
    ASSUME OInv, NEW c \in Clients, Open(c), NEW op, ExecPlain(c, op) \/ (\E d : ExecSelf(c, op, d)),
           UNCHANGED q
    PROVE  OInv'
<1>1. DOMAIN cl[c] = ClientFields
  BY Zenon DEF OInv, Owned
<1>2. ASSUME ExecPlain(c, op) PROVE AllKept
  <2> DEFINE s == Replied(c, IF op = "set" /\ FsyncAlways THEN "dirty" ELSE "clean")
             r == [s EXCEPT !.pubsub = op = "subscribe" \/ (@ /\ op # "unsubscribe"),
                            !.after = op = "quit"]
  <2>1. KeepsOwner(cl[c], s)
    BY <1>1, RepliedKeeps, Zenon
  <2>2. cl' = [cl EXCEPT ![c] = r]
    BY <1>2, Zenon DEF ExecPlain
  <2> HIDE DEF s
  <2>3. KeepsOwner(cl[c], r)
    BY <2>1, Zenon DEF KeepsOwner, ClientFields, Open
  <2> HIDE DEF r
  <2> QED BY <2>2, <2>3, OnlyReplies, Zenon
<1>3. ASSUME \E d : ExecSelf(c, op, d) PROVE AllKept
  <2> DEFINE s == Replied(c, "clean")
             r == [s EXCEPT !.after = TRUE]
  <2>1. KeepsOwner(cl[c], s)
    BY <1>1, RepliedKeeps, Zenon
  <2>2. cl' = [cl EXCEPT ![c] = r]
    BY <1>3, Zenon DEF ExecSelf
  <2> HIDE DEF s
  <2>3. KeepsOwner(cl[c], r)
    BY <2>1, Zenon DEF KeepsOwner, ClientFields, Open
  <2> HIDE DEF r
  <2> QED BY <2>2, <2>3, OnlyReplies, Zenon
<1>4. AllKept
  BY <1>2, <1>3, Zenon
<1>5. UNCHANGED <<main, io>>
  BY Zenon DEF ExecPlain, ExecSelf
<1> QED BY <1>4, <1>5, ReplyOwners, Zenon

(* PUBLISH. *)
LEMMA PublishOwners ==
    ASSUME OInv, NEW c \in Clients, Open(c), NEW op, ExecPublish(c, op), UNCHANGED q
    PROVE  OInv'
<1>1. DOMAIN cl[c] = ClientFields
  BY Zenon DEF OInv, Owned
<1> DEFINE s(d) == IF d = c THEN Replied(c, "clean") ELSE cl[d]
<1>2. ASSUME NEW d \in Clients PROVE KeepsOwner(cl[d], s(d)) /\ DOMAIN s(d) = ClientFields
  <2>1. CASE d = c
    BY <1>1, <2>1, RepliedKeeps, Zenon DEF KeepsOwner
  <2>2. CASE d # c
    BY <2>2, Zenon DEF KeepsOwner, OInv, Owned
  <2> QED BY <2>1, <2>2, Zenon
<1>3. cl' = [d \in Clients |-> IF s(d).pubsub THEN addReply(s(d), "clean") ELSE s(d)]
  BY Zenon DEF ExecPublish
<1> HIDE DEF s
<1>4. ASSUME NEW d \in Clients, s(d).pubsub PROVE s(d).state = "open"
  BY <1>2, <1>4, Zenon DEF KeepsOwner, OInv, Owned, Outside, Open
<1>5. ASSUME NEW d \in Clients PROVE KeepsOwner(cl[d], cl'[d])
  <2>1. CASE s(d).pubsub
    <3>1. cl'[d] = addReply(s(d), "clean")
      BY <1>3, <2>1, Zenon
    <3>2. KeepsOwner(s(d), addReply(s(d), "clean"))
      BY <1>2, <1>4, <2>1, AddReplyKeeps, Zenon
    <3> QED BY <1>2, <3>1, <3>2, KeepsOwnerTwice, Zenon
  <2>2. CASE ~s(d).pubsub
    BY <1>2, <1>3, <2>2, Zenon
  <2> QED BY <2>1, <2>2, Zenon
<1>6. AllKept /\ UNCHANGED <<main, io>>
  BY <1>3, <1>5, Zenon DEF AllKept, ExecPublish
<1> QED BY <1>6, ReplyOwners, Zenon

(* CLIENT LIST, and a command on a client that does not exist. *)
LEMMA ListOwners ==
    ASSUME IInv, OInv, main.pc = "exec", NEW c \in Clients, Open(c), NEW op,
           ExecList(c, op) \/ (\E d : ExecNoSuchClient(c, op, d)), UNCHANGED q
    PROVE  OInv'
<1>1. DOMAIN cl[c] = ClientFields
  BY Zenon DEF OInv, Owned
<1>2. cl' = [cl EXCEPT ![c] = Replied(c, "clean")]
  BY Zenon DEF ExecList, ExecNoSuchClient
<1>3. KeepsOwner(cl[c], Replied(c, "clean"))
  BY <1>1, RepliedKeeps, Zenon
<1>4. AllKept
  BY <1>2, <1>3, OnlyReplies, Zenon
<1>5. CASE ExecList(c, op)
  <2>1. PauseFor("list", NoClient, Threads) /\ PausesWhom("list", NoClient, Threads)
    BY <1>5, Zenon DEF ExecList, PausesWhom
  <2> QED BY <1>4, <2>1, PauseOwners, Zenon
<1>6. CASE \E d : ExecNoSuchClient(c, op, d)
  BY <1>4, <1>6, ReplyOwners, Zenon DEF ExecNoSuchClient
<1> QED BY <1>5, <1>6, Zenon

(* A command that frees or closes another client. *)
LEMMA OtherOwners ==
    ASSUME IInv, OInv, main.pc = "exec", NEW c \in Clients, c = main.cur, Open(c), NEW op, NEW d,
           ExecOther(c, op, d), UNCHANGED q
    PROVE  OInv'
<1>1. d \in Clients /\ d # c /\ Open(d) /\ op \in {"kill", "close"}
  BY Zenon DEF ExecOther
<1>2. DOMAIN cl[c] = ClientFields /\ KeepsOwner(cl[c], Replied(c, "clean"))
  BY RepliedKeeps, Zenon DEF OInv, Owned
<1>3. CASE cl[d].running # Main
  <2>1. cl' = [cl EXCEPT ![c] = Replied(c, "clean")] /\ PauseFor(op, d, {cl[d].tid})
    BY <1>3, Zenon DEF ExecOther
  <2>2. cl[d].tid \in Threads
    BY <1>1, <1>3, Zenon DEF OInv, Owned, OfMain
  <2>3. PausesWhom(op, d, {cl[d].tid})
    BY <1>1, <2>2, Zenon DEF PausesWhom
  <2>4. AllKept
    BY <1>2, <2>1, OnlyReplies, Zenon
  <2> QED BY <2>1, <2>3, <2>4, PauseOwners, Zenon
<1>4. CASE cl[d].running = Main
  <2>1. /\ UNCHANGED <<main, io>>
        /\ cl' = [cl EXCEPT ![c] = Replied(c, "clean"),
                            ![d] = IF op = "kill" THEN Freed ELSE [@ EXCEPT !.close = TRUE]]
    BY <1>4, Zenon DEF ExecOther
  <2>2. /\ DOMAIN cl' = Clients /\ cl'[c] = Replied(c, "clean")
        /\ cl'[d] = IF op = "kill" THEN Freed ELSE [cl[d] EXCEPT !.close = TRUE]
        /\ \A e \in Clients : e \notin {c, d} => cl'[e] = cl[e]
    BY <1>1, <2>1, Zenon DEF OInv
  <2>3. OfMain(d) /\ Listed(d) /\ Owned(d) /\ DOMAIN cl[d] = ClientFields
    BY <1>1, <1>4, ThreadNumbers, Zenon DEF OInv, Owned, Borrowed
  <2>4. \A e \in Clients : e # d => KeepsOwner(cl[e], cl'[e])
    <3>1. \A e \in Clients : DOMAIN cl[e] = ClientFields
      BY Zenon DEF OInv, Owned
    <3> QED BY <1>2, <2>2, <3>1, Zenon DEF KeepsOwner
  <2>5. \A t \in Threads : ~Holds(q'[t], d) /\ ~Holds(q[t], d)
    BY <1>1, <2>3, OfMainIsUnlisted, Zenon
  <2>6. Listed(d)' /\ Owned(d)'
    <3>1. CASE op = "kill"
      BY <1>1, <2>2, <2>5, <3>1, FreedIsOutside, Zenon
    <3>2. CASE op # "kill"
      <4>1. DOMAIN cl'[d] = ClientFields /\ \A f \in {"state", "tid", "running", "el"} : cl'[d][f] = cl[d][f]
        BY <2>2, <2>3, <3>2, Zenon DEF ClientFields
      <4> QED BY <1>1, <2>3, <2>5, <4>1, StaysOfMain, Zenon
    <3> QED BY <3>1, <3>2, Zenon
  <2>7. \A e \in Clients : Listed(e)' /\ Owned(e)'
    BY <1>1, <2>1, <2>4, <2>6, AllButOneStay, Zenon
  <2>8. \A t \in Threads : Tidy(q[t])'
    <3>1. ASSUME NEW t \in Threads PROVE Tidy(q[t]) /\ q'[t] = q[t]
      BY Zenon DEF OInv
    <3> QED BY <3>1
  <2>9. \A t \in Threads : Hands(t)'
    BY <2>1, AllHandsStay, Zenon
  <2>10. \A e \in Clients : e # d => cl'[e].state = cl[e].state /\ cl'[e].tid = cl[e].tid
    BY <2>4, Zenon DEF KeepsOwner
  <2>11. Fired'
    <3>1. <<"accept", d>> \notin main.fired /\ main.t \in Threads
      BY <1>1, Zenon DEF OInv, Fired, Open
    <3> QED BY <2>1, <2>10, <3>1, FiredStays, Zenon
  <2>12. InHand'
    BY <1>1, <2>1, <2>10, Zenon DEF OInv, InHand, Executing, Open
  <2> QED BY <2>2, <2>7, <2>8, <2>9, <2>11, <2>12, Zenon DEF OInv
<1> QED BY <1>3, <1>4, Zenon

(* Any command. *)
LEMMA ExecCommandOwners ==
    ASSUME IInv, OInv, ExecCommand
    PROVE  OInv'
<1>1. main.pc = "exec" /\ UNCHANGED q
  BY Zenon DEF ExecCommand, At
<1>2. PICK c \in Clients : c = main.cur /\ Open(c)
  BY <1>1, Zenon DEF OInv, InHand, Executing
<1>3. \E op, d : \/ ExecPlain(c, op) \/ ExecPublish(c, op) \/ ExecList(c, op)
                 \/ ExecOther(c, op, d) \/ ExecSelf(c, op, d) \/ ExecNoSuchClient(c, op, d)
  BY <1>2, Zenon DEF ExecCommand
<1> QED BY <1>1, <1>2, <1>3, PlainOwners, PublishOwners, ListOwners, OtherOwners, Zenon


-----------------------------------------------------------------------------
(* The steps of the main thread: while I/O threads are paused. *)

(* The I/O threads are resumed. *)
LEMMA ResumedOwners ==
    ASSUME IInv, OInv, Resumed
    PROVE  OInv'
<1>1. /\ main.pc = "resume" /\ UNCHANGED <<cl, q, io>> /\ main'.t = main.t /\ main'.fired = main.fired
      /\ main'.pc = (IF main.job = "keep" THEN "loop" ELSE "exec") /\ main'.ret = main.ret
      /\ main'.cur = (IF main.job = "keep" THEN NoClient ELSE main.cur)
  BY Zenon DEF Resumed, At, IInv, Shape, MainFields
<1>2. PICK c \in Clients : c = main.cur
  BY <1>1, Zenon DEF OInv, InHand, Executing
<1>3. Open(c) /\ (cl[c].tid \in Threads <=> main.ret # "read" /\ main.job # "keep") /\ main.t \in Threads
  BY <1>1, <1>2, Zenon DEF OInv, InHand, Executing, Fired
<1>4. Fired'
  BY <1>1, <1>3, FiredStays, Zenon
<1>5. CASE main.job # "keep"
  <2>1. InHand'
    BY <1>1, <1>2, <1>3, <1>5, Zenon DEF InHand, Executing, Open
  <2> QED BY <1>1, <1>4, <1>5, <2>1, Unchanged, QuietOwners, Zenon
<1>6. CASE main.job = "keep"
  <2>1. OfMain(c) /\ Listed(c) /\ Owned(c)
    BY <1>3, <1>6, Zenon DEF OInv, Owned
  <2>2. /\ \A f \in {"state", "tid", "running", "el"} : cl'[c][f] = cl[c][f]
        /\ DOMAIN cl'[c] = ClientFields
    BY <1>1, Zenon DEF OInv, Owned
  <2>3. Listed(c)' /\ Owned(c)'
    BY <1>1, <1>3, <2>1, <2>2, StaysOfMain, Zenon
  <2>4. \A d \in Clients : d # c => (main'.cur = d <=> main.cur = d)
    BY <1>1, <1>2, <1>6, IoThreadsAssumption, Zenon
  <2>5. DOMAIN cl' = Clients /\ \A d \in Clients : d # c => cl'[d] = cl[d]
    BY <1>1, Zenon DEF OInv
  <2>6. /\ \A t \in Threads : Tidy(q[t])'
        /\ \A d \in Clients : Listed(d)' /\ Owned(d)'
    BY <1>1, <2>3, <2>4, <2>5, OneChanges, Zenon
  <2>7. InHand' /\ \A t \in Threads : Hands(t)'
    BY <1>1, <1>6, EmptyHanded, AllHandsStay, Zenon
  <2> QED BY <1>4, <2>5, <2>6, <2>7, Zenon DEF OInv
<1> QED BY <1>5, <1>6, Zenon

(* A paused thread has nothing in hand, and nothing changes that. *)
LEMMA PausedHands ==
    ASSUME IInv, OInv, NEW t \in Threads, io[t].paused = "PAUSED"
    PROVE  /\ io[t].cur = NoClient /\ io[t].fired = {} /\ q[t].handling = <<>>
           /\ ~Chain(t) /\ ~Linking(t) /\ io[t].pc = "paused"
<1>1. io[t].pc = "paused"
  BY Zenon DEF IInv, Pausing
<1>2. ~Chain(t) /\ ~Linking(t)
  BY <1>1, Zenon DEF Chain, Linking
<1> QED BY <1>1, <1>2, Zenon DEF OInv, Hands

(* What the main thread does to the lists of paused threads. *)
LEMMA WhilePausedHands ==
    ASSUME IInv, OInv, \A t \in main.range : io[t].paused = "PAUSED",
           io' = [t \in Threads |-> IF t \in main.range THEN [io[t] EXCEPT !.paused = "RESUMING"]
                                    ELSE io[t]],
           \A t \in Threads : t \notin main.range => q'[t] = q[t],
           \A t \in Threads : q'[t].handling = q[t].handling
    PROVE  \A t \in Threads : Hands(t)'
<1> TAKE t \in Threads
<1>1. \A i \in IoFields \ {"paused"} : io'[t][i] = io[t][i]
  BY Zenon DEF IInv, Shape
<1>2. \A i \in {"pc", "cur", "fired", "ret", "back", "after"} : io'[t][i] = io[t][i]
  BY <1>1, Zenon DEF IoFields
<1>3. CASE t \notin main.range
  BY <1>2, <1>3, HandsStay, Zenon DEF OInv
<1>4. CASE t \in main.range
  <2>1. /\ io[t].cur = NoClient /\ io[t].fired = {} /\ q[t].handling = <<>> /\ io[t].pc = "paused"
    BY <1>4, PausedHands, Zenon
  <2>2. io'[t].cur = NoClient /\ io'[t].fired = {} /\ q'[t].handling = <<>> /\ io'[t].pc = "paused"
    BY <1>2, <2>1, Zenon
  <2>3. ~Chain(t)' /\ ~Linking(t)'
    BY <2>2, Zenon DEF Chain, Linking
  <2> QED BY <2>2, <2>3, Zenon DEF Hands
<1> QED BY <1>3, <1>4, Zenon

(* fetchClientFromIOThread finds the client. *)
LEMMA FetchedTidies ==
    ASSUME NEW l, Tidy(l), l.handling = <<>>, NEW c \in Clients, Holds(l, c)
    PROVE  /\ Tidy(Fetched(l, c)) /\ ~Holds(Fetched(l, c), c) /\ Fetched(l, c).handling = <<>>
           /\ \A d \in Clients : d # c => /\ Holds(Fetched(l, c), d) <=> Holds(l, d)
                                          /\ Contains(l.clients, d) => Contains(Fetched(l, c).clients, d)
<1> DEFINE n == ListOf(l, c)
<1>1. ~Contains(l.handling, c)
  <2>1. DOMAIN <<>> = {}
    OBVIOUS
  <2> QED BY <2>1, Zenon DEF Contains
<1>2. n \in Lists \ {"handling"} /\ Contains(l[n], c) /\ n # "none"
  <2>1. PICK m \in Lists : Contains(l[m], c)
    BY Zenon DEF Holds
  <2> QED BY <1>1, <2>1, Zenon DEF ListOf, Lists
<1>3. Fetched(l, c) = [l EXCEPT ![n] = Remove(l[n], c)]
  BY <1>2, Zenon DEF Fetched
<1> DEFINE k == Fetched(l, c)
<1> HIDE DEF n
<1>4. But(l, k, {n}) /\ k[n] = Remove(l[n], c) /\ k.handling = l.handling
  BY <1>2, <1>3, Zenon DEF But, Tidy, Lists
<1> HIDE DEF k
<1>5. l[n] \in Seq(Clients) /\ AtMostOnce(l[n], c)
  BY <1>2, Zenon DEF Tidy
<1>6. Drops(l[n], k[n], c)
  BY <1>2, <1>4, <1>5, ListRemoves, Zenon
<1>7. /\ Tidy(k) /\ ~Holds(k, c)
      /\ \A d \in Clients : d # c => (Holds(k, d) <=> Holds(l, d))
  BY <1>2, <1>4, <1>6, Takes, Zenon
<1>8. ASSUME NEW d \in Clients, d # c, Contains(l.clients, d) PROVE Contains(k.clients, d)
  <2>1. CASE n = "clients"
    BY <1>6, <1>8, <2>1, Zenon DEF Drops
  <2>2. CASE n # "clients"
    BY <1>4, <1>8, <2>2, Zenon DEF But, Lists
  <2> QED BY <2>1, <2>2, Zenon
<1> QED BY <1>4, <1>7, <1>8, Zenon DEF k


(* Where the main thread is after the job. *)
LEMMA JobDone ==
    ASSUME IInv, OInv, main.pc = "pause", Goto("resume"),
           \A d \in Clients : d = main.cur => cl'[d].state = "open",
           cl'[main.cur].tid \in Threads <=> main.ret # "read" /\ main.job # "keep"
    PROVE  /\ main'.cur = main.cur /\ main'.t = main.t /\ main'.fired = main.fired /\ main.t \in Threads
           /\ InHand'
<1>1. /\ main'.pc = "resume" /\ main'.cur = main.cur /\ main'.t = main.t /\ main'.fired = main.fired
      /\ main'.ret = main.ret /\ main'.job = main.job
  BY Zenon DEF Goto, IInv, Shape, MainFields
<1>2. main.cur \in Clients /\ main.job \in {"list", "keep", "kill", "close"} /\ main.t \in Threads
  BY Zenon DEF OInv, InHand, Executing, Fired
<1>3. cl'[main'.cur].tid \in Threads <=> main'.ret # "read" /\ main'.job # "keep"
  BY <1>1, Zenon
<1>4. InHand'
  BY <1>1, <1>2, <1>3, Zenon DEF InHand, Executing, Open
<1> QED BY <1>1, <1>2, <1>4, Zenon

(* The job is to keep the client in the main thread. *)
LEMMA KeepOwners ==
    ASSUME IInv, OInv, main.pc = "pause", Goto("resume"), main.job = "keep", q' = q,
           cl' = [cl EXCEPT ![main.arg] = keepClientInMainThread(@)], \A t \in Threads : Hands(t)'
    PROVE  OInv'
<1>1. PICK c \in Clients : c = main.cur
  BY Zenon DEF OInv, InHand, Executing
<1>2. c = main.arg /\ Open(c) /\ DOMAIN cl[c] = ClientFields /\ Listed(c)
  BY <1>1, Zenon DEF OInv, InHand, Executing, Owned
<1>3. /\ DOMAIN cl' = Clients /\ \A d \in Clients : d # c => cl'[d] = cl[d]
      /\ cl'[c] = keepClientInMainThread(cl[c])
  BY <1>2, Zenon DEF OInv
<1>4. /\ DOMAIN cl'[c] = ClientFields /\ cl'[c].state = "open" /\ cl'[c].tid = Main
      /\ cl'[c].running = Main /\ cl'[c].el = Main
  BY <1>2, <1>3, Zenon DEF keepClientInMainThread, ClientFields, Open
<1>5. /\ main'.cur = main.cur /\ main'.t = main.t /\ main'.fired = main.fired /\ main.t \in Threads
      /\ InHand'
  <2>1. cl'[main.cur].tid \notin Threads
    BY <1>1, <1>4, ThreadNumbers, Zenon
  <2> QED BY <1>1, <1>4, <2>1, JobDone, Zenon
<1>6. Owned(c)'
  BY <1>4, Zenon DEF Owned, OfMain, Open
<1>7. Listed(c)'
  <2>1. \A t \in Threads : ~Holds(q'[t], c)
    BY <1>1, <1>2, Zenon DEF Listed
  <2> QED BY <1>1, <1>5, <2>1, Zenon DEF Listed, Holds, Contains
<1>8. \A d \in Clients : <<"accept", d>> \in main'.fired => cl'[d].state = cl[d].state
  BY <1>2, <1>3, <1>4, Zenon DEF Open
<1>9. Fired'
  BY <1>5, <1>8, FiredStays, Zenon
<1> QED BY <1>3, <1>5, <1>6, <1>7, <1>9, OneChanges, Zenon DEF OInv

(* The client an I/O thread is paused for. *)
LEMMA WhomPaused ==
    ASSUME IInv, OInv, main.pc = "pause", main.job \in {"kill", "close"}
    PROVE  \E c \in Clients : /\ c = main.arg /\ c # main.cur /\ Open(c) /\ cl[c].tid \in Threads
                              /\ main.range = {cl[c].tid} /\ Listed(c) /\ Owned(c) /\ Borrowed(c)
<1>1. /\ main.arg \in Clients \ {main.cur} /\ Open(main.arg) /\ cl[main.arg].tid \in Threads
      /\ main.range = {cl[main.arg].tid}
  BY Zenon DEF OInv, InHand
<1>2. Listed(main.arg) /\ Owned(main.arg)
  BY <1>1, Zenon DEF OInv
<1>3. Borrowed(main.arg)
  BY <1>1, <1>2, ThreadNumbers, Zenon DEF Owned, OfMain
<1> QED BY <1>1, <1>2, <1>3, Zenon

(* The job is to free a client of an I/O thread. *)
LEMMA KillOwners ==
    ASSUME IInv, OInv, main.pc = "pause", \A t \in main.range : io[t].paused = "PAUSED",
           Goto("resume"), main.job = "kill",
           q' = [q EXCEPT ![cl[main.arg].tid] = Fetched(@, main.arg)],
           cl' = [cl EXCEPT ![main.arg] = Freed],
           io' = [t \in Threads |-> IF t \in main.range THEN [io[t] EXCEPT !.paused = "RESUMING"]
                                    ELSE io[t]]
    PROVE  OInv'
<1>1. PICK c \in Clients : /\ c = main.arg /\ c # main.cur /\ Open(c) /\ cl[c].tid \in Threads
                           /\ main.range = {cl[c].tid} /\ Listed(c)
  BY WhomPaused, Zenon
<1>2. PICK t \in Threads : t = cl[c].tid
  BY <1>1, Zenon
<1>3. io[t].paused = "PAUSED" /\ Tidy(q[t])
  BY <1>1, <1>2, Zenon DEF OInv
<1>4. q[t].handling = <<>>
  BY <1>3, PausedHands, Zenon
<1>5. Holds(q[t], c) /\ \A u \in Threads : u # t => ~Holds(q[u], c)
  BY <1>1, <1>2, Zenon DEF Listed
<1>6. q'[t] = Fetched(q[t], c) /\ \A u \in Threads : u # t => q'[u] = q[u]
  BY <1>1, <1>2, Zenon DEF IInv, Shape
<1>7. /\ DOMAIN cl' = Clients /\ \A d \in Clients : d # c => cl'[d] = cl[d]
      /\ cl'[c] = Freed
  BY <1>1, Zenon DEF OInv
<1>8. /\ Tidy(q'[t]) /\ ~Holds(q'[t], c) /\ q'[t].handling = <<>>
      /\ \A d \in Clients : d # c => /\ Holds(q'[t], d) <=> Holds(q[t], d)
                                     /\ Contains(q[t].clients, d) => Contains(q'[t].clients, d)
  <2>1. PICK k : k = Fetched(q[t], c)
    OBVIOUS
  <2>2. /\ Tidy(k) /\ ~Holds(k, c) /\ k.handling = <<>>
        /\ \A d \in Clients : d # c => /\ Holds(k, d) <=> Holds(q[t], d)
                                       /\ Contains(q[t].clients, d) => Contains(k.clients, d)
    BY <1>3, <1>4, <1>5, <2>1, FetchedTidies, Zenon
  <2> QED BY <1>6, <2>1, <2>2, Zenon
<1>9. \A u \in Threads : Tidy(q[u])'
  <2>1. ASSUME NEW u \in Threads PROVE Tidy(q'[u])
    BY <1>6, <1>8, Zenon DEF OInv
  <2> QED BY <2>1
<1>10. \A u \in Threads : Hands(u)'
  <2>1. \A u \in Threads : q'[u].handling = q[u].handling
    BY <1>4, <1>6, <1>8, Zenon
  <2>2. \A u \in Threads : u \notin main.range => q'[u] = q[u]
    BY <1>1, <1>2, <1>6, Zenon
  <2> QED BY <2>1, <2>2, WhilePausedHands, Zenon
<1>11. Listed(c)' /\ Owned(c)'
  BY <1>5, <1>6, <1>7, <1>8, FreedIsOutside, Zenon
<1>12. /\ main'.cur = main.cur /\ main'.t = main.t /\ main'.fired = main.fired /\ main.t \in Threads
       /\ InHand'
  <2>1. /\ main.cur \in Clients /\ cl[main.cur].state = "open"
        /\ cl[main.cur].tid \in Threads <=> main.ret # "read"
    BY Zenon DEF OInv, InHand, Executing, Open
  <2>2. cl'[main.cur] = cl[main.cur]
    BY <1>1, <1>7, <2>1, Zenon
  <2> QED BY <2>1, <2>2, JobDone, Zenon
<1>13. <<"accept", c>> \notin main.fired
  BY <1>1, Zenon DEF OInv, Fired, Open
<1>14. Fired'
  BY <1>7, <1>12, <1>13, FiredStays, Zenon
<1>15. \A d \in Clients : Listed(d)' /\ Owned(d)'
  <2>1. \A d \in Clients : d # c => \A u \in Threads :
           /\ Holds(q'[u], d) <=> Holds(q[u], d)
           /\ Contains(q[u].clients, d) => Contains(q'[u].clients, d)
    BY <1>6, <1>8, Zenon
  <2> QED BY <1>7, <1>11, <1>12, <2>1, OneMoves, Zenon
<1> QED BY <1>7, <1>9, <1>10, <1>12, <1>14, <1>15, Zenon DEF OInv


(* Clients that wait for the main thread are sent. *)
LEMMA SentTidies ==
    ASSUME NEW l, Tidy(l)
    PROVE  /\ Tidy(Sent(l)) /\ \A c \in Clients : Holds(Sent(l), c) <=> Holds(l, c)
           /\ \A n \in Lists \ {"to_main", "pending"} : Sent(l)[n] = l[n]
<1> DEFINE k == Sent(l)
<1>1. But(l, k, {"to_main", "pending"}) /\ k.to_main = <<>> /\ k.pending = l.pending \o l.to_main
  BY Zenon DEF Sent, But, Lists, Tidy
<1>2. {"to_main", "pending"} \subseteq Lists
  BY Zenon DEF Lists
<1> HIDE DEF k
<1>3. Tidy(k) /\ \A c \in Clients : Holds(k, c) <=> Holds(l, c)
  BY <1>1, <1>2, MovesAll, Zenon
<1>4. \A n \in Lists \ {"to_main", "pending"} : k[n] = l[n]
  BY <1>1, Zenon DEF But
<1> QED BY <1>3, <1>4, Zenon DEF k

(* A client of an I/O thread goes to the list for the main thread. *)
LEMMA MovedTidies ==
    ASSUME NEW l, Tidy(l), NEW c \in Clients, Contains(l.clients, c)
    PROVE  /\ Tidy(Moved(l, c)) /\ \A d \in Clients : Holds(Moved(l, c), d) <=> Holds(l, d)
           /\ Moved(l, c).handling = l.handling /\ Contains(Moved(l, c).to_main, c)
           /\ \A d : d # c => (Contains(Moved(l, c).clients, d) <=> Contains(l.clients, d))
<1> DEFINE k == Moved(l, c)
<1>1. But(l, k, {"clients", "to_main"}) /\ k.clients = Remove(l.clients, c) /\ k.to_main = Append(l.to_main, c)
  BY Zenon DEF Moved, But, Lists, Tidy
<1>2. {"to_main", "clients", "handling"} \subseteq Lists /\ "handling" \notin {"clients", "to_main"}
  BY Zenon DEF Lists
<1> HIDE DEF k
<1>3. l.clients \in Seq(Clients) /\ l.to_main \in Seq(Clients) /\ AtMostOnce(l.clients, c)
  BY <1>2, Zenon DEF Tidy
<1>4. Drops(l.clients, k.clients, c) /\ Adds(l.to_main, k.to_main, c)
  BY <1>1, <1>3, ListRemoves, ListAdds, Zenon
<1>5. Tidy(k) /\ \A d \in Clients : Holds(k, d) <=> Holds(l, d)
  BY <1>1, <1>2, <1>4, Moves, Zenon
<1>6. k.handling = l.handling
  BY <1>1, <1>2, Zenon DEF But
<1>7. Contains(k.to_main, c) /\ \A d : d # c => (Contains(k.clients, d) <=> Contains(l.clients, d))
  BY <1>4, Zenon DEF Drops, Adds
<1> QED BY <1>5, <1>6, <1>7, Zenon DEF k

(* A client of an I/O thread is marked to be closed. *)
LEMMA ClosedStays ==
    ASSUME OInv, NEW c \in Clients, Open(c), Borrowed(c), main'.cur = main.cur, main.cur # c,
           DOMAIN cl'[c] = ClientFields, cl'[c].el = NoLoop, ~cl'[c].rw, cl[c].tid \in Threads,
           \A f \in {"state", "tid", "running", "close", "pendw"} : cl'[c][f] = cl[c][f],
           \A t \in Threads : Holds(q'[t], c) <=> Holds(q[t], c)
    PROVE  Listed(c)' /\ Owned(c)'
<1>1. Owned(c)'
  BY Zenon DEF Owned, Borrowed, Open
<1>2. Listed(c)'
  BY StaysListed, Zenon DEF OInv
<1> QED BY <1>1, <1>2

(* freeClientAsync on a client of a paused thread. *)
LEMMA CloseOwners ==
    ASSUME IInv, OInv, main.pc = "pause", \A t \in main.range : io[t].paused = "PAUSED",
           Goto("resume"), main.job = "close", CloseInIO(main.arg, cl[main.arg].tid),
           io' = [t \in Threads |-> IF t \in main.range THEN [io[t] EXCEPT !.paused = "RESUMING"]
                                    ELSE io[t]]
    PROVE  OInv'
<1>1. PICK c \in Clients : /\ c = main.arg /\ c # main.cur /\ Open(c) /\ cl[c].tid \in Threads
                           /\ main.range = {cl[c].tid} /\ Borrowed(c) /\ Owned(c)
  BY WhomPaused, Zenon
<1>2. PICK t \in Threads : t = cl[c].tid
  BY <1>1, Zenon
<1> DEFINE transfer == ~cl[c].ioclose /\ Contains(q[t].clients, c)
<1>3. /\ cl' = IF cl[c].ioclose THEN cl
               ELSE [cl EXCEPT ![c] = IF transfer THEN [IoClosed(@) EXCEPT !.rw = FALSE] ELSE IoClosed(@)]
      /\ q' = IF ~transfer THEN q
              ELSE [q EXCEPT ![t] = Moved(IF Full(q[t]) THEN Sent(q[t]) ELSE q[t], c)]
  BY <1>1, <1>2, Zenon DEF CloseInIO
<1>4. DOMAIN cl = Clients /\ DOMAIN cl[c] = ClientFields /\ Tidy(q[t]) /\ DOMAIN q = Threads
  BY <1>1, Zenon DEF OInv, Owned, IInv, Shape
<1>5. DOMAIN cl' = Clients /\ \A d \in Clients : d # c => cl'[d] = cl[d]
  BY <1>3, <1>4, Zenon
<1>6. cl'[c].state = "open" /\ cl'[c].tid = cl[c].tid
  <2>1. CASE cl[c].ioclose
    BY <1>1, <1>3, <2>1, Zenon DEF Open
  <2>2. CASE ~cl[c].ioclose
    BY <1>1, <1>3, <1>4, <2>2, Zenon DEF Open, IoClosed, Unbound, ClientFields
  <2> QED BY <2>1, <2>2
<1>7. /\ main'.cur = main.cur /\ main'.t = main.t /\ main'.fired = main.fired /\ main.t \in Threads
      /\ InHand'
  <2>1. /\ main.cur \in Clients /\ cl[main.cur].state = "open"
        /\ cl[main.cur].tid \in Threads <=> main.ret # "read"
    BY Zenon DEF OInv, InHand, Executing, Open
  <2>2. cl'[main.cur] = cl[main.cur]
    BY <1>1, <1>5, <2>1, Zenon
  <2> QED BY <2>1, <2>2, JobDone, Zenon
<1>8. Fired'
  <2>1. \A d \in Clients : cl'[d].state = cl[d].state
    BY <1>1, <1>5, <1>6, Zenon DEF Open
  <2> QED BY <1>7, <2>1, FiredStays, Zenon
<1>9. /\ \A u \in Threads : u # t => q'[u] = q[u]
      /\ Tidy(q'[t]) /\ q'[t].handling = q[t].handling
      /\ \A d \in Clients : /\ Holds(q'[t], d) <=> Holds(q[t], d)
                            /\ d # c => (Contains(q[t].clients, d) => Contains(q'[t].clients, d))
  <2>1. CASE ~transfer
    BY <1>3, <1>4, <2>1, Zenon
  <2>2. CASE transfer
    <3>1. PICK k : k = IF Full(q[t]) THEN Sent(q[t]) ELSE q[t]
      OBVIOUS
    <3>2. /\ Tidy(k) /\ \A d \in Clients : Holds(k, d) <=> Holds(q[t], d)
          /\ k.clients = q[t].clients /\ k.handling = q[t].handling
      <4>1. {"clients", "handling"} \subseteq Lists \ {"to_main", "pending"}
        BY Zenon DEF Lists
      <4> QED BY <1>4, <3>1, <4>1, SentTidies, Zenon
    <3>3. PICK m : m = Moved(k, c)
      OBVIOUS
    <3>4. /\ Tidy(m) /\ m.handling = k.handling
          /\ \A d \in Clients : Holds(m, d) <=> Holds(k, d)
          /\ \A d : d # c => (Contains(m.clients, d) <=> Contains(k.clients, d))
      BY <2>2, <3>2, <3>3, MovedTidies, Zenon
    <3>5. q'[t] = m /\ \A u \in Threads : u # t => q'[u] = q[u]
      BY <1>3, <1>4, <2>2, <3>1, <3>3, Zenon
    <3> QED BY <3>2, <3>4, <3>5, Zenon
  <2> QED BY <2>1, <2>2
<1>10. \A u \in Threads : Tidy(q[u])'
  <2>1. ASSUME NEW u \in Threads PROVE Tidy(q'[u])
    BY <1>9, Zenon DEF OInv
  <2> QED BY <2>1
<1>11. \A u \in Threads : Hands(u)'
  <2>1. \A u \in Threads : q'[u].handling = q[u].handling
    BY <1>9, Zenon
  <2>2. \A u \in Threads : u \notin main.range => q'[u] = q[u]
    BY <1>1, <1>2, <1>9, Zenon
  <2> QED BY <2>1, <2>2, WhilePausedHands, Zenon
<1>12. Listed(c)' /\ Owned(c)'
  <2>1. \A u \in Threads : Holds(q'[u], c) <=> Holds(q[u], c)
    BY <1>9, Zenon
  <2>2. CASE cl[c].ioclose
    <3>1. cl' = cl /\ q' = q
      BY <1>3, <2>2, Zenon
    <3>2. KeepsOwner(cl[c], cl'[c])
      BY <3>1, Unchanged, Zenon DEF AllKept
    <3>3. Owned(c)'
      BY <1>1, <1>7, <3>1, <3>2, StaysOwned, Zenon
    <3>4. Listed(c)'
      BY <1>6, <1>7, <2>1, <3>1, StaysListed, Zenon DEF OInv
    <3> QED BY <3>3, <3>4
  <2>3. CASE ~cl[c].ioclose
    <3>1. cl'[c] = IF transfer THEN [IoClosed(cl[c]) EXCEPT !.rw = FALSE] ELSE IoClosed(cl[c])
      BY <1>3, <1>4, <2>3, Zenon
    <3>2. /\ DOMAIN IoClosed(cl[c]) = ClientFields /\ IoClosed(cl[c]).rw = cl[c].rw
          /\ IoClosed(cl[c]).el = NoLoop
          /\ \A f \in {"state", "tid", "running", "close", "pendw"} : IoClosed(cl[c])[f] = cl[c][f]
      BY <1>4, Zenon DEF IoClosed, Unbound, ClientFields
    <3>4. cl[c].rw => transfer
      BY <1>1, <1>2, <2>3, Zenon DEF Borrowed
    <3>5. ~cl'[c].rw
      BY <3>1, <3>2, <3>4, Zenon DEF ClientFields
    <3>6. /\ DOMAIN cl'[c] = ClientFields /\ cl'[c].el = NoLoop
          /\ \A f \in {"state", "tid", "running", "close", "pendw"} : cl'[c][f] = cl[c][f]
      BY <3>1, <3>2, Zenon DEF ClientFields
    <3> QED BY <1>1, <1>7, <2>1, <3>5, <3>6, ClosedStays, Zenon
  <2> QED BY <2>2, <2>3
<1>13. \A d \in Clients : Listed(d)' /\ Owned(d)'
  <2>1. \A d \in Clients : d # c => \A u \in Threads :
           /\ Holds(q'[u], d) <=> Holds(q[u], d)
           /\ Contains(q[u].clients, d) => Contains(q'[u].clients, d)
    BY <1>9, Zenon
  <2> QED BY <1>5, <1>7, <1>12, <2>1, OneMoves, Zenon
<1> QED BY <1>5, <1>7, <1>8, <1>10, <1>11, <1>13, Zenon DEF OInv

(* What the main thread does while I/O threads are paused. *)
LEMMA WhilePausedOwners ==
    ASSUME IInv, OInv, WhilePaused
    PROVE  OInv'
<1> USE DEF WhilePaused, At
<1>1. CASE main.job = "kill"
  BY <1>1, KillOwners, Zenon DEF Job
<1>2. CASE main.job = "keep"
  <2>1. /\ main.pc = "pause" /\ q' = q /\ Goto("resume")
        /\ cl' = [cl EXCEPT ![main.arg] = keepClientInMainThread(@)]
    BY <1>2, Zenon DEF Job
  <2>2. \A t \in Threads : Hands(t)'
    BY <2>1, WhilePausedHands, Zenon
  <2> QED BY <1>2, <2>1, <2>2, KeepOwners, Zenon
<1>3. CASE main.job = "close"
  BY <1>3, CloseOwners, Zenon DEF Job
<1>4. CASE main.job = "list"
  <2>1. main.pc = "pause" /\ UNCHANGED <<cl, q>> /\ Goto("resume")
    BY <1>4, Zenon DEF Job
  <2>2. \A t \in Threads : Hands(t)'
    BY <2>1, WhilePausedHands, Zenon
  <2>3. /\ main.cur \in Clients /\ cl[main.cur].state = "open"
        /\ cl[main.cur].tid \in Threads <=> main.ret # "read"
    BY <2>1, Zenon DEF OInv, InHand, Executing, Open
  <2>4. /\ main'.cur = main.cur /\ main'.t = main.t /\ main'.fired = main.fired /\ main.t \in Threads
        /\ InHand'
    BY <1>4, <2>1, <2>3, JobDone, Zenon
  <2>5. Fired'
    BY <2>1, <2>4, FiredStays, Zenon
  <2> QED BY <2>1, <2>2, <2>4, <2>5, Unchanged, NothingMoves, Zenon DEF OInv
<1> QED BY <1>1, <1>2, <1>3, <1>4, Zenon DEF Job


(* The commands of a client of the main thread are done. *)
LEMMA FinishReadOwners ==
    ASSUME IInv, OInv, main.pc = "exec", main.ret = "read", NEW c \in Clients, c = main.cur,
           cl' = [cl EXCEPT ![c] = IF @.close THEN Freed ELSE @],
           main' = [main EXCEPT !.pc = "events", !.ret = "events", !.cur = NoClient],
           UNCHANGED <<q, io>>
    PROVE  OInv'
<1>1. Open(c) /\ cl[c].tid \notin Threads /\ Owned(c) /\ Listed(c)
  BY Zenon DEF OInv, InHand, Executing
<1>2. OfMain(c) /\ DOMAIN cl[c] = ClientFields
  BY <1>1, Zenon DEF Owned
<1>3. /\ DOMAIN cl' = Clients /\ \A d \in Clients : d # c => cl'[d] = cl[d]
      /\ cl'[c] = IF cl[c].close THEN Freed ELSE cl[c]
  BY Zenon DEF OInv
<1>4. main'.pc = "events" /\ main'.cur = NoClient /\ main'.t = main.t /\ main'.fired = main.fired
  BY Zenon DEF IInv, Shape, MainFields
<1>5. \A d \in Clients : main'.cur # d
  BY <1>4, IoThreadsAssumption, Zenon
<1>6. \A t \in Threads : ~Holds(q[t], c)
  BY <1>2, OfMainIsUnlisted, Zenon
<1>7. Listed(c)' /\ Owned(c)'
  <2>1. CASE cl[c].close
    <3>1. \A t \in Threads : ~Holds(q'[t], c)
      BY <1>6, Zenon DEF Holds, Contains
    <3> QED BY <1>3, <2>1, <3>1, FreedIsOutside, Zenon
  <2>2. CASE ~cl[c].close
    <3>1. cl'[c] = cl[c] /\ \A t \in Threads : Holds(q'[t], c) <=> Holds(q[t], c)
      BY <1>3, <2>2, Zenon DEF Holds, Contains
    <3> QED BY <1>1, <1>2, <3>1, StaysOfMain, Zenon
  <2> QED BY <2>1, <2>2
<1>8. InHand'
  BY <1>4, EmptyHanded, Zenon
<1>9. Fired'
  <2>1. <<"accept", c>> \notin main.fired /\ main.t \in Threads
    BY <1>1, Zenon DEF OInv, Fired, Open
  <2> QED BY <1>3, <1>4, <2>1, FiredStays, Zenon
<1>10. \A t \in Threads : Hands(t)'
  BY AllHandsStay, Zenon
<1>11. /\ \A t \in Threads : Tidy(q[t])'
       /\ \A d \in Clients : Listed(d)' /\ Owned(d)'
  BY <1>3, <1>5, <1>7, OneChanges, Zenon
<1> QED BY <1>3, <1>8, <1>9, <1>10, <1>11, Zenon DEF OInv

(* A client of an I/O thread whose commands the main thread has executed. *)
LEMMA ExecutedClient ==
    ASSUME OInv, main.pc = "exec", main.ret # "read", NEW c \in Clients, c = main.cur
    PROVE  /\ Open(c) /\ cl[c].tid \in Threads /\ Listed(c) /\ Borrowed(c) /\ cl[c].running = Main
           /\ ~cl[c].rw /\ DOMAIN cl[c] = ClientFields
           /\ KeepsOwner(cl[c], putClientInPendingWriteQueue(cl[c]))
<1>1. Open(c) /\ cl[c].tid \in Threads /\ Owned(c) /\ Listed(c)
  BY Zenon DEF OInv, InHand, Executing
<1>2. Borrowed(c) /\ DOMAIN cl[c] = ClientFields
  BY <1>1, ThreadNumbers, Zenon DEF Owned, OfMain
<1>3. cl[c].running = Main /\ ~cl[c].rw
  BY <1>2, Zenon DEF Borrowed
<1>4. /\ DOMAIN putClientInPendingWriteQueue(cl[c]) = ClientFields
      /\ \A f \in {"state", "tid", "running", "rw", "el", "close", "pubsub"} :
            putClientInPendingWriteQueue(cl[c])[f] = cl[c][f]
  BY <1>2, Zenon DEF putClientInPendingWriteQueue, ClientFields
<1>5. KeepsOwner(cl[c], putClientInPendingWriteQueue(cl[c]))
  BY <1>1, <1>3, <1>4, Zenon DEF KeepsOwner, Open
<1> QED BY <1>1, <1>2, <1>3, <1>5

(* It is handed back to its I/O thread. *)
HandsBack(c, t, r) ==
    /\ cl' = [cl EXCEPT ![c] = [r EXCEPT !.pendw = FALSE, !.running = t]]
    /\ q' = [q EXCEPT ![t].to_io = <<c>> \o @]
    /\ main' = [main EXCEPT !.pc = "send", !.check = TRUE, !.cur = NoClient]
    /\ UNCHANGED io

(* It is in the list for that thread then, and the main thread has no client in hand. *)
LEMMA HandBackOwners ==
    ASSUME IInv, OInv, main.pc = "exec", main.ret # "read", NEW c \in Clients, c = main.cur,
           NEW t \in Threads, t = cl[c].tid, NEW r, KeepsOwner(cl[c], r), ~MustBeInMain(r),
           HandsBack(c, t, r)
    PROVE  OInv'
<1>1. Open(c) /\ Listed(c) /\ Borrowed(c) /\ ~cl[c].rw
  BY ExecutedClient, Zenon
<1>2. /\ DOMAIN cl' = Clients /\ \A d \in Clients : d # c => cl'[d] = cl[d]
      /\ cl'[c] = [r EXCEPT !.pendw = FALSE, !.running = t]
  BY Zenon DEF OInv, HandsBack
<1>3. DOMAIN r = ClientFields /\ r.state = "open" /\ r.tid = t /\ ~r.rw /\ r.el = cl[c].el /\ ~r.close
  BY <1>1, Zenon DEF KeepsOwner, MustBeInMain, Open
<1>4. /\ DOMAIN cl'[c] = ClientFields /\ cl'[c].state = "open" /\ cl'[c].tid = t
      /\ cl'[c].running = t /\ ~cl'[c].pendw
      /\ cl'[c].el = cl[c].el /\ ~cl'[c].close /\ ~cl'[c].rw
  BY <1>2, <1>3, Zenon DEF ClientFields
<1>5. main'.pc = "send" /\ main'.cur = NoClient /\ main'.t = main.t /\ main'.fired = main.fired
  BY Zenon DEF IInv, Shape, MainFields, HandsBack
<1>6. \A d \in Clients : main'.cur # d
  BY <1>5, IoThreadsAssumption, Zenon
<1>7. Owned(c)'
  <2>1. cl[c].el \in {t, NoLoop}
    BY <1>1, Zenon DEF Borrowed
  <2> QED BY <1>4, <1>6, <2>1, Zenon DEF Owned, Borrowed, Open
<1>8. ~Holds(q[t], c) /\ \A u \in Threads : ~Holds(q[u], c)
  BY <1>1, Zenon DEF Listed
<1>9. /\ \A u \in Threads : u # t => q'[u] = q[u]
      /\ But(q[t], q'[t], {"to_io"}) /\ q'[t].to_io = <<c>> \o q[t].to_io
  BY Zenon DEF IInv, Shape, But, Lists, HandsBack
<1>10. Tidy(q[t]) /\ "to_io" \in Lists /\ "clients" \in Lists \ {"to_io"}
  BY Zenon DEF OInv, Lists
<1>11. Tidy(q'[t]) /\ \A d \in Clients : Holds(q'[t], d) <=> Holds(q[t], d) \/ d = c
  <2>1. q[t].to_io \in Seq(Clients)
    BY <1>10, Zenon DEF Tidy
  <2>2. Adds(q[t].to_io, q'[t].to_io, c)
    BY <1>9, <2>1, ListAdds, Zenon
  <2> QED BY <1>8, <1>9, <1>10, <2>2, Puts, Zenon
<1>12. \A u \in Threads : Tidy(q[u])'
  <2>1. ASSUME NEW u \in Threads PROVE Tidy(q'[u])
    BY <1>9, <1>11, Zenon DEF OInv
  <2> QED BY <2>1
<1>13. Listed(c)'
  <2>1. \A u \in Threads : Holds(q'[u], c) <=> u = t
    BY <1>8, <1>9, <1>11, Zenon
  <2> QED BY <1>4, <1>6, <2>1, Zenon DEF Listed, Open, Holds, Contains
<1>14. \A d \in Clients : Listed(d)' /\ Owned(d)'
  <2>1. \A d \in Clients : d # c => \A u \in Threads :
           /\ Holds(q'[u], d) <=> Holds(q[u], d)
           /\ Contains(q[u].clients, d) => Contains(q'[u].clients, d)
    BY <1>9, <1>10, <1>11, Zenon DEF But
  <2> QED BY <1>2, <1>6, <1>7, <1>13, <2>1, OneMoves, Zenon
<1>15. \A u \in Threads : Hands(u)'
  <2>1. \A u \in Threads : \A n \in {"handling", "to_main", "clients"} : q'[u][n] = q[u][n]
    BY <1>9, Zenon DEF But, Lists
  <2> QED BY <2>1, HandsOff, Zenon DEF HandsBack
<1>16. InHand'
  BY <1>5, EmptyHanded, Zenon
<1>17. Fired'
  <2>1. <<"accept", c>> \notin main.fired /\ main.t \in Threads
    BY <1>1, Zenon DEF OInv, Fired, Open
  <2> QED BY <1>2, <1>5, <2>1, FiredStays, Zenon
<1> QED BY <1>2, <1>12, <1>14, <1>15, <1>16, <1>17, Zenon DEF OInv

(* The end of the commands of a client. *)
LEMMA FinishOwners ==
    ASSUME IInv, OInv, Finish
    PROVE  OInv'
<1>1. main.pc = "exec"
  BY Zenon DEF Finish, At
<1>2. PICK c \in Clients : c = main.cur
  BY <1>1, Zenon DEF OInv, InHand, Executing
<1>3. CASE main.ret = "read"
  BY <1>1, <1>2, <1>3, FinishReadOwners, Zenon DEF Finish
<1>4. CASE main.ret # "read"
  <2>1. PICK t \in Threads : t = cl[c].tid
    BY <1>1, <1>2, <1>4, ExecutedClient, Zenon
  <2>2. PICK r : r = putClientInPendingWriteQueue(cl[c])
    OBVIOUS
  <2>3. KeepsOwner(cl[c], r)
    BY <1>1, <1>2, <1>4, <2>2, ExecutedClient, Zenon
  <2>4. \/ /\ MustBeInMain(r) /\ cl' = [cl EXCEPT ![c] = r] /\ PauseFor("keep", c, {t}) /\ q' = q
        \/ ~MustBeInMain(r) /\ HandsBack(c, t, r)
    BY <1>2, <1>4, <2>1, <2>2, Zenon DEF Finish, HandsBack
  <2>5. CASE /\ cl' = [cl EXCEPT ![c] = r] /\ PauseFor("keep", c, {t}) /\ q' = q
    <3>1. AllKept
      BY <2>3, <2>5, OnlyReplies, Zenon
    <3>2. PausesWhom("keep", c, {t})
      BY <1>2, <1>4, <2>1, Zenon DEF PausesWhom
    <3> QED BY <1>1, <2>5, <3>1, <3>2, PauseOwners, Zenon
  <2>6. CASE ~MustBeInMain(r) /\ HandsBack(c, t, r)
    BY <1>1, <1>2, <1>4, <2>1, <2>3, <2>6, HandBackOwners, Zenon
  <2> QED BY <2>4, <2>5, <2>6, Zenon
<1> QED BY <1>3, <1>4


(* A client with a pending write is the main thread's. *)
LEMMA PendingWriter ==
    ASSUME OInv, main.cur = NoClient, NEW c \in Clients, cl[c].pendw
    PROVE  Open(c) /\ OfMain(c) /\ main.cur # c /\ <<"accept", c>> \notin main.fired
<1>1. Owned(c) /\ main.cur # c
  BY IoThreadsAssumption, Zenon DEF OInv
<1>2. Open(c) /\ OfMain(c)
  BY <1>1, Zenon DEF Owned, Outside, Borrowed
<1> QED BY <1>1, <1>2, Zenon DEF OInv, Fired, Open

(* One client with a pending write. *)
LEMMA PendingWriteOwners ==
    ASSUME IInv, OInv, main.pc = "writes", NEW c \in Clients, cl[c].pendw, PendingWrite(c),
           UNCHANGED <<main, io>>
    PROVE  OInv'
<1>1. main.cur = NoClient
  BY Zenon DEF OInv, InHand, Executing
<1>2. Open(c) /\ OfMain(c) /\ main.cur # c /\ <<"accept", c>> \notin main.fired
  BY <1>1, PendingWriter, Zenon
<1>3. InHand'
  BY <1>1, EmptyHanded, Zenon
<1>4. PICK r : r = [cl[c] EXCEPT !.pendw = FALSE]
  OBVIOUS
<1>5. KeepsPlace(cl[c], r) /\ r.close = cl[c].close /\ DOMAIN cl = Clients /\ DOMAIN cl[c] = ClientFields
  BY <1>4, Zenon DEF OInv, Owned, KeepsPlace, ClientFields
<1>6. \/ ~r.close /\ assignClientToIOThread(c)
      \/ \E w : KeepsPlace(r, w) /\ cl' = [cl EXCEPT ![c] = w] /\ q' = q
  <2>1. KeepsPlace(r, r) /\ DOMAIN r = ClientFields
    BY <1>5, Zenon DEF KeepsPlace
  <2>2. \A whole, installed : KeepsPlace(r, MainWrites(r, whole, installed))
    BY <2>1, MainWritesKeeps, Zenon
  <2> QED BY <1>4, <2>1, <2>2, Zenon DEF PendingWrite
<1>7. CASE ~r.close /\ assignClientToIOThread(c)
  <2>1. /\ DOMAIN cl' = Clients /\ \A d \in Clients : d # c => cl'[d] = cl[d]
        /\ \A u \in Threads : Tidy(q[u])' /\ Hands(u)'
        /\ \A d \in Clients : Listed(d)' /\ Owned(d)'
    BY <1>2, <1>5, <1>7, AssignOwners, Zenon
  <2>2. Fired'
    <3>1. main.t \in Threads
      BY Zenon DEF OInv, Fired
    <3> QED BY <1>2, <2>1, <3>1, FiredStays, Zenon
  <2> QED BY <1>3, <2>1, <2>2, Zenon DEF OInv
<1>8. CASE \E w : KeepsPlace(r, w) /\ cl' = [cl EXCEPT ![c] = w] /\ q' = q
  <2>1. PICK w : KeepsPlace(r, w) /\ cl' = [cl EXCEPT ![c] = w] /\ q' = q
    BY <1>8, Zenon
  <2>2. DOMAIN cl' = Clients /\ cl'[c] = w /\ \A d \in Clients : d # c => cl'[d] = cl[d]
    BY <1>5, <2>1, Zenon
  <2>3. /\ DOMAIN cl'[c] = ClientFields
        /\ \A f \in {"state", "tid", "running", "el"} : cl'[c][f] = cl[c][f]
    BY <1>5, <2>1, <2>2, Zenon DEF KeepsPlace
  <2>4. Fired'
    <3>1. main.t \in Threads
      BY Zenon DEF OInv, Fired
    <3> QED BY <1>2, <2>2, <3>1, FiredStays, Zenon
  <2> QED BY <1>2, <1>3, <2>1, <2>2, <2>3, <2>4, OfMainChanges, Zenon
<1> QED BY <1>6, <1>7, <1>8

(* All of them. *)
LEMMA PendingWritesOwners ==
    ASSUME IInv, OInv, handleClientsWithPendingWrites
    PROVE  OInv'
<1>1. main.pc = "writes" /\ UNCHANGED io
  BY Zenon DEF handleClientsWithPendingWrites, At
<1>2. CASE \E c \in Clients : cl[c].pendw /\ PendingWrite(c) /\ UNCHANGED main
  BY <1>1, <1>2, PendingWriteOwners, Zenon
<1>3. CASE main' = [main EXCEPT !.pc = "sendall", !.t = 1] /\ UNCHANGED <<cl, q>>
  <2>1. main.cur = NoClient
    BY <1>1, Zenon DEF OInv, InHand, Executing
  <2>2. main'.pc = "sendall" /\ main'.cur = NoClient /\ main'.t \in Threads /\ main'.fired = main.fired
    BY <1>3, <2>1, ThreadsAreNumbered, Zenon DEF IInv, Shape, MainFields
  <2>3. InHand' /\ Fired'
    BY <1>3, <2>2, EmptyHanded, FiredStays, Zenon
  <2> QED BY <1>1, <1>3, <2>1, <2>2, <2>3, Unchanged, QuietOwners, Zenon
<1> QED BY <1>2, <1>3, Zenon DEF handleClientsWithPendingWrites

(* The last step of beforeSleep frees the clients to be closed. *)
LEMMA SentAllOwners ==
    ASSUME IInv, OInv, SentAll
    PROVE  OInv'
<1>1. main.cur = NoClient /\ UNCHANGED <<q, io>>
  BY Zenon DEF OInv, InHand, Executing, SentAll, At
<1>2. /\ main'.pc \in {"sendall", "poll"} /\ main'.cur = NoClient /\ main'.t \in Threads
      /\ main'.fired = main.fired
  <2>1. CASE main.t + 1 \in Threads
    BY <1>1, <2>1, Zenon DEF SentAll, IInv, Shape, MainFields
  <2>2. CASE main.t + 1 \notin Threads
    BY <1>1, <2>2, ThreadsAreNumbered, Zenon DEF SentAll, IInv, Shape, MainFields
  <2> QED BY <2>1, <2>2
<1>3. InHand'
  BY <1>2, EmptyHanded, Zenon
<1>4. /\ DOMAIN cl' = Clients
      /\ \A c \in Clients : cl'[c] = cl[c] \/ (cl[c].close /\ cl'[c] = Freed)
  BY Zenon DEF SentAll, OInv
<1>5. ASSUME NEW c \in Clients PROVE Listed(c)' /\ Owned(c)'
  <2>1. Listed(c) /\ Owned(c) /\ main.cur # c /\ main'.cur # c
    BY <1>1, <1>2, IoThreadsAssumption, Zenon DEF OInv
  <2>2. \A t \in Threads : Holds(q'[t], c) <=> Holds(q[t], c)
    BY <1>1, Zenon DEF Holds, Contains
  <2>3. CASE cl'[c] = cl[c]
    <3>1. KeepsOwner(cl[c], cl'[c])
      BY <2>1, <2>3, Zenon DEF KeepsOwner, Owned
    <3>2. Owned(c)'
      BY <1>1, <2>1, <3>1, StaysOwned, Zenon
    <3>3. Listed(c)'
      BY <2>1, <2>2, <2>3, StaysListed, Zenon
    <3> QED BY <3>2, <3>3
  <2>4. CASE cl[c].close /\ cl'[c] = Freed
    <3>1. OfMain(c)
      BY <2>1, <2>4, Zenon DEF Owned, Borrowed, Outside
    <3>2. \A t \in Threads : ~Holds(q'[t], c)
      BY <2>2, <3>1, OfMainIsUnlisted, Zenon
    <3> QED BY <2>4, <3>2, FreedIsOutside, Zenon
  <2> QED BY <1>4, <2>3, <2>4
<1>6. Fired'
  <2>1. ASSUME NEW c \in Clients, <<"accept", c>> \in main.fired PROVE cl'[c].state = cl[c].state
    <3>1. ~Open(c) /\ Owned(c)
      BY <2>1, Zenon DEF OInv, Fired, Open
    <3>2. ~cl[c].close
      BY <3>1, Zenon DEF Owned, Outside
    <3> QED BY <1>4, <3>2, Zenon
  <2> QED BY <1>2, <2>1, FiredStays, Zenon
<1>7. \A t \in Threads : Tidy(q[t])'
  <2>1. ASSUME NEW t \in Threads PROVE Tidy(q[t])'
    <3>1. Tidy(q[t]) /\ q'[t] = q[t]
      BY <1>1, Zenon DEF OInv
    <3> QED BY <3>1
  <2> QED BY <2>1
<1>8. \A t \in Threads : Hands(t)'
  BY <1>1, AllHandsStay, Zenon
<1> QED BY <1>3, <1>4, <1>5, <1>6, <1>7, <1>8, Zenon DEF OInv

-----------------------------------------------------------------------------
(* The steps of the I/O threads. *)

(* What a step of I/O thread t leaves alone. *)
OthersStay(t) ==
    /\ main' = main /\ \A u \in Threads : u # t => q'[u] = q[u] /\ io'[u] = io[u]

(* The other threads keep what they have in hand. *)
LEMMA OtherHandsStay ==
    ASSUME OInv, NEW t \in Threads, OthersStay(t), Hands(t)'
    PROVE  \A u \in Threads : Hands(u)'
<1>1. ASSUME NEW u \in Threads, u # t PROVE Hands(u)'
  BY <1>1, HandsStay, Zenon DEF OthersStay, OInv
<1> QED BY <1>1, Zenon

(* A step that changes the thread only. *)
LEMMA IoKeptOwners ==
    ASSUME OInv, NEW t \in Threads, OthersStay(t), AllKept, UNCHANGED q, Hands(t)'
    PROVE  OInv'
<1>1. \A c \in Clients : cl'[c].state = cl[c].state /\ cl'[c].tid = cl[c].tid
  BY Zenon DEF AllKept, KeepsOwner
<1>2. InHand' /\ Fired' /\ main'.cur = main.cur
  BY <1>1, MainStays, Zenon DEF OthersStay
<1>3. \A u \in Threads : Hands(u)'
  BY OtherHandsStay, Zenon
<1> QED BY <1>2, <1>3, NothingMoves, Zenon DEF OInv

(* The same without any change of a client. *)
LEMMA IoQuietOwners ==
    ASSUME OInv, NEW t \in Threads, OthersStay(t), UNCHANGED <<cl, q>>, Hands(t)'
    PROVE  OInv'
BY Unchanged, IoKeptOwners, Zenon

(* A step that moves the thread and a whole list. *)
LEMMA IoListOwners ==
    ASSUME OInv, NEW t \in Threads, OthersStay(t), UNCHANGED cl, Hands(t)', DOMAIN q' = Threads,
           NEW a \in Lists, NEW b \in Lists \ {a}, "clients" \notin {a, b},
           But(q[t], q'[t], {a, b}), q'[t][a] = <<>>, q'[t][b] = q[t][b] \o q[t][a]
    PROVE  OInv'
<1>1. InHand' /\ Fired' /\ main'.cur = main.cur
  BY MainStays, Zenon DEF OthersStay
<1>2. \A u \in Threads : Hands(u)'
  BY OtherHandsStay, Zenon
<1>3. /\ DOMAIN cl' = Clients /\ \A u \in Threads : Tidy(q[u])'
      /\ \A c \in Clients : Listed(c)' /\ Owned(c)'
  <2>1. AllKept /\ \A u \in Threads : u # t => q'[u] = q[u]
    BY Unchanged, Zenon DEF OthersStay
  <2> QED BY <1>1, <2>1, MovedLists, Zenon
<1> QED BY <1>1, <1>2, <1>3, Zenon DEF OInv

(* A step that changes one client of the thread. *)
StillOwned(c, t) ==
    /\ DOMAIN cl' = Clients /\ DOMAIN cl'[c] = ClientFields
    /\ \A d \in Clients : d # c => cl'[d] = cl[d]
    /\ \A f \in {"state", "tid", "running", "close", "pendw"} : cl'[c][f] = cl[c][f]
    /\ cl'[c].rw => Contains(q'[t].clients, c)
    /\ cl'[c].el \in {t, NoLoop}

(* That client stays with the thread, and the others where they are. *)
LEMMA IoClientOwners ==
    ASSUME OInv, NEW t \in Threads, OthersStay(t), Hands(t)', NEW c \in Clients, Open(c), Borrowed(c),
           cl[c].tid = t, main.cur # c, StillOwned(c, t), Tidy(q'[t]),
           \A d \in Clients : Holds(q'[t], d) <=> Holds(q[t], d),
           \A d \in Clients : d # c => (Contains(q[t].clients, d) => Contains(q'[t].clients, d))
    PROVE  OInv'
<1>1. InHand' /\ Fired' /\ main'.cur = main.cur
  BY MainStays, Zenon DEF OthersStay, StillOwned
<1>2. \A u \in Threads : Hands(u)'
  BY OtherHandsStay, Zenon
<1>3. \A u \in Threads : Tidy(q[u])'
  <2>1. ASSUME NEW u \in Threads PROVE Tidy(q'[u])
    BY Zenon DEF OInv, OthersStay
  <2> QED BY <2>1
<1>4. \A d \in Clients : \A u \in Threads : Holds(q'[u], d) <=> Holds(q[u], d)
  BY Zenon DEF OthersStay
<1>5. Owned(c)'
  BY <1>1, Zenon DEF Owned, Borrowed, Open, StillOwned
<1>6. Listed(c)'
  BY <1>1, <1>4, StaysListed, Zenon DEF OInv, StillOwned
<1>7. \A d \in Clients : Listed(d)' /\ Owned(d)'
  <2>1. \A d \in Clients : d # c => \A u \in Threads :
          Contains(q[u].clients, d) => Contains(q'[u].clients, d)
    BY Zenon DEF OthersStay
  <2> QED BY <1>1, <1>4, <1>5, <1>6, <2>1, OneMoves, Zenon DEF StillOwned
<1> QED BY <1>1, <1>2, <1>3, <1>7, Zenon DEF OInv, StillOwned


(* A thread outside of its handlers has nothing in hand. *)
LEMMA IoEmptyHanded ==
    ASSUME IInv, OInv, NEW t \in Threads,
           io[t].pc \in {"poll", "events", "cron", "pause", "paused", "send", "join", "link"}
    PROVE  /\ ~Chain(t) /\ io[t].cur = NoClient
           /\ io[t].pc \in {"poll", "cron", "pause", "paused", "send"} => io[t].fired = {}
           /\ io[t].pc # "link" => q[t].handling = <<>>
<1>1. ~Chain(t) /\ Hands(t)
  BY Zenon DEF OInv, Chain
<1> QED BY <1>1, Zenon DEF Hands, Linking

(* The poll, the timer and the end of the events. *)
LEMMA IoPollOwners ==
    ASSUME IInv, OInv, NEW t \in Threads,
           \/ IOThreadAfterSleep(t) \/ IOThreadCron(t) \/ IOThreadBeforeSleep(t)
           \/ handleClientsFromMainThread(t) /\ IoAt(t, "events") /\ UNCHANGED main
    PROVE  OInv'
<1>1. io[t].pc \in {"poll", "events"} /\ UNCHANGED <<cl, q, main>>
  BY Zenon DEF IOThreadAfterSleep, IOThreadCron, IOThreadBeforeSleep, handleClientsFromMainThread, IoAt
<1>2. ~Chain(t) /\ io[t].cur = NoClient /\ q[t].handling = <<>> /\ (io[t].pc = "poll" => io[t].fired = {})
  BY <1>1, IoEmptyHanded, Zenon
<1>3. /\ \A u \in Threads : u # t => io'[u] = io[u]
      /\ io'[t].cur = io[t].cur
      /\ \/ io'[t].pc = "events"
         \/ io'[t].pc \in {"cron", "join"} /\ io'[t].fired = {}
         \/ io'[t].pc = "join" /\ io'[t].ret = "events"
  <2> USE DEF IInv, Shape, IoFields
  <2>1. CASE IOThreadAfterSleep(t)
    BY <2>1, Zenon DEF IOThreadAfterSleep
  <2>2. CASE IOThreadCron(t)
    <3>1. io' = [io EXCEPT ![t].pc = "cron", ![t].running = TRUE] /\ io[t].fired = {}
      BY <1>2, <2>2, Zenon DEF IOThreadCron, IoAt
    <3> QED BY <3>1, Zenon
  <2>3. CASE IOThreadBeforeSleep(t)
    BY <2>3, Zenon DEF IOThreadBeforeSleep
  <2>4. CASE handleClientsFromMainThread(t)
    BY <2>4, Zenon DEF handleClientsFromMainThread
  <2> QED BY <2>1, <2>2, <2>3, <2>4, Zenon
<1>4. OthersStay(t)
  BY <1>1, <1>3, Zenon DEF OthersStay
<1>5. Hands(t)'
  BY <1>1, <1>2, <1>3, Zenon DEF Hands, Chain, Linking
<1> QED BY <1>1, <1>4, <1>5, IoQuietOwners, Zenon

(* The pause, and the way to the poll. *)
LEMMA IoPauseOwners ==
    ASSUME IInv, OInv, NEW t \in Threads, handlePauseAndResume(t)
    PROVE  OInv'
<1>1. io[t].pc \in {"pause", "paused"} /\ UNCHANGED <<cl, q, main>>
  BY Zenon DEF handlePauseAndResume, IoAt
<1>2. ~Chain(t) /\ io[t].cur = NoClient /\ q[t].handling = <<>> /\ io[t].fired = {}
  BY <1>1, IoEmptyHanded, Zenon
<1>3. /\ \A u \in Threads : u # t => io'[u] = io[u]
      /\ io'[t].cur = io[t].cur /\ io'[t].fired = io[t].fired /\ io'[t].pc \in {"paused", "send"}
  <2> USE DEF IInv, Shape, IoFields
  <2>1. CASE io' = [io EXCEPT ![t].paused = "PAUSED", ![t].pc = "paused"]
    BY <2>1, Zenon
  <2>2. CASE io' = [io EXCEPT ![t].pc = "send"]
    BY <2>2, Zenon
  <2>3. CASE io' = [io EXCEPT ![t].paused = "UNPAUSED", ![t].pc = "send"]
    BY <2>3, Zenon
  <2> QED BY <2>1, <2>2, <2>3, Zenon DEF handlePauseAndResume, IoGoto
<1>4. OthersStay(t)
  BY <1>1, <1>3, Zenon DEF OthersStay
<1>5. Hands(t)'
  BY <1>1, <1>2, <1>3, Zenon DEF Hands, Chain
<1> QED BY <1>1, <1>4, <1>5, IoQuietOwners, Zenon

(* The end of a handler, and the notification. *)
LEMMA HandlerEndsOwners ==
    ASSUME IInv, OInv, NEW t \in Threads, HandlerEnds(t)
    PROVE  OInv'
<1>1. io[t].pc = "enqueued" /\ UNCHANGED <<cl, q, main>>
  BY Zenon DEF HandlerEnds, IoAt
<1>2. Chain(t) /\ Hands(t) /\ io[t].back \in {"events", "cron", "link"}
  BY <1>1, Zenon DEF OInv, Chain, IInv, IoShape, RunningFlag
<1>3. /\ \A u \in Threads : u # t => io'[u] = io[u]
      /\ io'[t].cur = NoClient /\ io'[t].fired = io[t].fired /\ io'[t].pc = io[t].back
      /\ io'[t].ret = io[t].ret
  BY Zenon DEF HandlerEnds, IInv, Shape, IoFields
<1>4. OthersStay(t)
  BY <1>1, <1>3, Zenon DEF OthersStay
<1>5. Hands(t)'
  BY <1>1, <1>2, <1>3, Zenon DEF Hands, Chain, Linking
<1> QED BY <1>1, <1>4, <1>5, IoQuietOwners, Zenon

(* The notification of the main thread. *)
LEMMA IoRingOwners ==
    ASSUME IInv, OInv, NEW t \in Threads, IoRing(t)
    PROVE  OInv'
<1>1. io[t].pc = "ring" /\ UNCHANGED <<cl, q, main>>
  BY Zenon DEF IoRing, IoAt
<1>2. Hands(t) /\ io[t].after \in {"enqueue", "poll"}
  BY <1>1, Zenon DEF OInv, IInv, IoShape, RunningFlag
<1>3. /\ \A u \in Threads : u # t => io'[u] = io[u]
      /\ io'[t].cur = io[t].cur /\ io'[t].fired = io[t].fired /\ io'[t].pc = io[t].after
      /\ io'[t].ret = io[t].ret /\ io'[t].back = io[t].back
  BY Zenon DEF IoRing, IoGoto, IInv, Shape, IoFields
<1>4. OthersStay(t)
  BY <1>1, <1>3, Zenon DEF OthersStay
<1>5. Hands(t)'
  <2>1. CASE io[t].after = "enqueue"
    BY <1>1, <1>2, <1>3, <2>1, Zenon DEF Hands, Chain, Linking
  <2>2. CASE io[t].after = "poll"
    BY <1>1, <1>2, <1>3, <2>2, Zenon DEF Hands, Chain, Linking
  <2> QED BY <1>2, <2>1, <2>2
<1> QED BY <1>1, <1>4, <1>5, IoQuietOwners, Zenon

(* All clients are linked. *)
LEMMA LinkedOwners ==
    ASSUME IInv, OInv, NEW t \in Threads, Linked(t)
    PROVE  OInv'
<1>1. io[t].pc = "link" /\ q[t].handling = <<>> /\ UNCHANGED <<cl, q, main>>
  BY Zenon DEF Linked, IoAt
<1>2. ~Chain(t) /\ io[t].cur = NoClient /\ Hands(t) /\ io[t].ret \in {"events", "first", "again"}
  BY <1>1, IoEmptyHanded, Zenon DEF OInv, IInv, IoShape, RunningFlag
<1>3. io[t].fired # {} => io[t].ret = "events"
  BY <1>1, <1>2, Zenon DEF Hands
<1>4. PICK r : io' = [io EXCEPT ![t] = r] /\
         r = CASE io[t].ret = "events" -> [io[t] EXCEPT !.pc = "events"]
              [] io[t].ret = "first" /\ io[t].wait ->
                    [io[t] EXCEPT !.pc = "join", !.ret = "again", !.running = FALSE]
              [] OTHER -> [io[t] EXCEPT !.pc = "pause", !.ret = "events"]
  BY Zenon DEF Linked
<1>5. /\ r.cur = io[t].cur /\ r.fired = io[t].fired /\ r.pc \in {"events", "join", "pause"}
      /\ r.pc = "events" \/ io[t].ret # "events"
  <2>1. CASE io[t].ret = "events"
    BY <1>4, <2>1 DEF IInv, Shape, IoFields
  <2>2. CASE io[t].ret # "events" /\ io[t].ret = "first" /\ io[t].wait
    BY <1>4, <2>2 DEF IInv, Shape, IoFields
  <2>3. CASE io[t].ret # "events" /\ ~(io[t].ret = "first" /\ io[t].wait)
    BY <1>4, <2>3 DEF IInv, Shape, IoFields
  <2> QED BY <2>1, <2>2, <2>3
<1>6. io'[t] = r /\ \A u \in Threads : u # t => io'[u] = io[u]
  BY <1>4, Zenon DEF IInv, Shape
<1>7. OthersStay(t)
  BY <1>1, <1>6, Zenon DEF OthersStay
<1>8. Hands(t)'
  BY <1>1, <1>2, <1>3, <1>5, <1>6, Zenon DEF Hands, Chain
<1> QED BY <1>1, <1>7, <1>8, IoQuietOwners, Zenon

(* The timer sends the clients to the main thread, one by one. *)
LEMMA ClientsCronOwners ==
    ASSUME IInv, OInv, NEW t \in Threads, IOThreadClientsCron(t)
    PROVE  OInv'
<1>1. io[t].pc = "cron" /\ UNCHANGED <<cl, q, main>>
  BY Zenon DEF IOThreadClientsCron, IoAt
<1>2. io[t].fired = {} /\ io[t].cur = NoClient /\ q[t].handling = <<>>
  BY <1>1, IoEmptyHanded, Zenon
<1>3. /\ \A u \in Threads : u # t => io'[u] = io[u]
      /\ io'[t] = IF q[t].clients = <<>> THEN [io[t] EXCEPT !.pc = "join", !.ret = "first"]
                  ELSE Enqueue(t, Head(q[t].clients), "cron")
  BY Zenon DEF IOThreadClientsCron, IInv, Shape
<1>4. OthersStay(t)
  BY <1>1, <1>3, Zenon DEF OthersStay
<1>5. Hands(t)'
  <2>1. CASE q[t].clients = <<>>
    <3>1. io'[t].pc = "join" /\ io'[t].cur = NoClient /\ io'[t].fired = {}
      BY <1>2, <1>3, <2>1, Zenon DEF IInv, Shape, IoFields
    <3> QED BY <1>1, <1>2, <3>1, Zenon DEF Hands, Chain
  <2>2. CASE q[t].clients # <<>>
    <3>1. PICK c : c = Head(q[t].clients)
      OBVIOUS
    <3>2. /\ io'[t].pc = "enqueue" /\ io'[t].cur = c /\ io'[t].fired = {} /\ io'[t].back = "cron"
      BY <1>2, <1>3, <2>2, <3>1, Zenon DEF Enqueue, IInv, Shape, IoFields
    <3>3. c \in Clients /\ Contains(q[t].clients, c)
      <4>1. q[t].clients \in Seq(Clients) /\ \A d \in Clients : AtMostOnce(q[t].clients, d)
        BY Zenon DEF OInv, Tidy, Lists
      <4>2. c \in Clients
        BY <2>2, <3>1, <4>1
      <4> QED BY <2>2, <3>1, <4>1, <4>2, ListTakes, Zenon
    <3> QED BY <1>1, <1>2, <3>2, <3>3, Zenon DEF Hands, Chain
  <2> QED BY <2>1, <2>2
<1> QED BY <1>1, <1>4, <1>5, IoQuietOwners, Zenon


(* Clients that wait are sent to the main thread. *)
LEMMA IoSentOwners ==
    ASSUME IInv, OInv, NEW t \in Threads, SendBefore(t) \/ SendAll(t)
    PROVE  OInv'
<1>1. UNCHANGED <<cl, main>> /\ q' = [q EXCEPT ![t] = Sent(@)]
  BY Zenon DEF SendBefore, SendAll
<1>2. /\ DOMAIN q' = Threads /\ \A u \in Threads : u # t => q'[u] = q[u]
      /\ But(q[t], q'[t], {"to_main", "pending"}) /\ q'[t].to_main = <<>>
      /\ q'[t].pending = q[t].pending \o q[t].to_main
  BY <1>1, Zenon DEF IInv, Shape, Lists, But, Sent
<1>3. q'[t].handling = q[t].handling /\ q'[t].clients = q[t].clients
  BY <1>2, Zenon DEF But, Lists
<1>4. /\ \A u \in Threads : u # t => io'[u] = io[u]
      /\ io'[t].cur = io[t].cur /\ io'[t].fired = io[t].fired
      /\ io'[t].ret = io[t].ret /\ io'[t].back = io[t].back
      /\ \/ io[t].pc = "enqueue" /\ io'[t].pc \in {"ring", "enqueue"} /\ io'[t].after = "enqueue"
         \/ io[t].pc = "send" /\ io'[t].pc \in {"ring", "poll"} /\ io'[t].after = "poll"
  <2> USE DEF IInv, Shape, IoFields
  <2>1. CASE SendBefore(t)
    BY <2>1, Zenon DEF SendBefore, IoAt
  <2>2. CASE SendAll(t)
    BY <2>2, Zenon DEF SendAll, IoAt
  <2> QED BY <2>1, <2>2
<1>5. Hands(t)'
  <2>1. CASE io[t].pc = "enqueue" /\ io'[t].pc \in {"ring", "enqueue"} /\ io'[t].after = "enqueue"
    <3>1. Chain(t) /\ Hands(t)
      BY <2>1, Zenon DEF OInv, Chain
    <3> QED BY <1>3, <1>4, <2>1, <3>1, Zenon DEF Hands, Chain, Linking
  <2>2. CASE io[t].pc = "send" /\ io'[t].pc \in {"ring", "poll"} /\ io'[t].after = "poll"
    <3>1. io[t].cur = NoClient /\ io[t].fired = {} /\ q[t].handling = <<>>
      BY <2>2, IoEmptyHanded, Zenon
    <3> QED BY <1>3, <1>4, <2>2, <3>1, Zenon DEF Hands, Chain
  <2> QED BY <1>4, <2>1, <2>2
<1>6. OthersStay(t)
  BY <1>1, <1>2, <1>4, Zenon DEF OthersStay
<1>7. "to_main" \in Lists /\ "pending" \in Lists \ {"to_main"} /\ "clients" \notin {"to_main", "pending"}
  BY Zenon DEF Lists
<1> QED BY <1>1, <1>2, <1>5, <1>6, <1>7, IoListOwners, Zenon

(* The thread takes the clients that the main thread has given to it. *)
LEMMA IoJoinOwners ==
    ASSUME IInv, OInv, NEW t \in Threads, IoJoin(t)
    PROVE  OInv'
<1>1. /\ UNCHANGED <<cl, main>> /\ io[t].pc = "join"
      /\ q' = [q EXCEPT ![t].handling = q[t].handling \o q[t].inbox, ![t].inbox = <<>>]
  BY Zenon DEF IoJoin, IoAt
<1>2. /\ DOMAIN q' = Threads /\ \A u \in Threads : u # t => q'[u] = q[u]
      /\ But(q[t], q'[t], {"inbox", "handling"}) /\ q'[t].inbox = <<>>
      /\ q'[t].handling = q[t].handling \o q[t].inbox
  BY <1>1, Zenon DEF IInv, Shape, Lists, But
<1>3. /\ \A u \in Threads : u # t => io'[u] = io[u]
      /\ io'[t].cur = io[t].cur /\ io'[t].fired = io[t].fired
      /\ io'[t].ret = io[t].ret /\ io'[t].pc = "link"
  BY Zenon DEF IoJoin, IInv, Shape, IoFields
<1>4. Hands(t)'
  <2>1. io[t].cur = NoClient /\ ~Chain(t) /\ Hands(t)
    BY <1>1, IoEmptyHanded, Zenon DEF OInv
  <2>2. io[t].fired # {} => io[t].ret = "events"
    BY <1>1, <2>1, Zenon DEF Hands
  <2> QED BY <1>3, <2>1, <2>2, Zenon DEF Hands, Chain, Linking
<1>5. OthersStay(t)
  BY <1>1, <1>2, <1>3, Zenon DEF OthersStay
<1>6. "inbox" \in Lists /\ "handling" \in Lists \ {"inbox"} /\ "clients" \notin {"inbox", "handling"}
  BY Zenon DEF Lists
<1> QED BY <1>1, <1>2, <1>4, <1>5, <1>6, IoListOwners, Zenon

(* A client in the lists of an I/O thread. *)
LEMMA ListedClient ==
    ASSUME OInv, NEW t \in Threads, NEW c \in Clients, Holds(q[t], c)
    PROVE  /\ Open(c) /\ cl[c].tid = t /\ main.cur # c /\ Borrowed(c) /\ DOMAIN cl[c] = ClientFields
           /\ cl[c].rw => Contains(q[t].clients, c)
<1>1. Open(c) /\ cl[c].tid = t /\ main.cur # c /\ Owned(c)
  BY Zenon DEF OInv, Listed
<1>2. Borrowed(c) /\ DOMAIN cl[c] = ClientFields
  BY <1>1, ThreadNumbers, Zenon DEF Owned, OfMain
<1> QED BY <1>1, <1>2, Zenon DEF Borrowed

(* A client goes to the list for the main thread. *)
LEMMA IoEnqueueOwners ==
    ASSUME IInv, OInv, NEW t \in Threads, enqueuePendingClientsToMainThread(t)
    PROVE  OInv'
<1>1. io[t].pc = "enqueue" /\ Chain(t) /\ Hands(t) /\ main' = main
  BY Zenon DEF enqueuePendingClientsToMainThread, IoAt, Chain, OInv
<1>2. PICK c \in Clients : c = io[t].cur
  BY <1>1, Zenon DEF Hands
<1>3. Contains(q[t].clients, c)
  BY <1>1, <1>2, Zenon DEF Hands
<1>4. Holds(q[t], c)
  BY <1>3, Zenon DEF Holds, Lists
<1>5. Open(c) /\ cl[c].tid = t /\ main.cur # c /\ Borrowed(c) /\ DOMAIN cl[c] = ClientFields
  BY <1>4, ListedClient, Zenon
<1>6. q' = [q EXCEPT ![t] = Moved(@, c)] /\ cl' = [cl EXCEPT ![c].rw = FALSE] /\ IoGoto(t, "enqueued")
  BY <1>2, <1>3, Zenon DEF enqueuePendingClientsToMainThread
<1>7. PICK k : k = Moved(q[t], c)
  OBVIOUS
<1>8. q'[t] = k /\ \A u \in Threads : u # t => q'[u] = q[u]
  BY <1>6, <1>7, Zenon DEF IInv, Shape
<1>9. /\ Tidy(k) /\ \A d \in Clients : Holds(k, d) <=> Holds(q[t], d)
      /\ k.handling = q[t].handling /\ Contains(k.to_main, c)
      /\ \A d : d # c => (Contains(k.clients, d) <=> Contains(q[t].clients, d))
  BY <1>3, <1>7, MovedTidies, Zenon DEF OInv
<1>10. /\ \A u \in Threads : u # t => io'[u] = io[u]
       /\ io'[t].cur = io[t].cur /\ io'[t].fired = io[t].fired /\ io'[t].pc = "enqueued"
       /\ io'[t].ret = io[t].ret /\ io'[t].back = io[t].back
  BY <1>6, Zenon DEF IoGoto, IInv, Shape, IoFields
<1>11. Hands(t)'
  BY <1>1, <1>2, <1>8, <1>9, <1>10, Zenon DEF Hands, Chain, Linking
<1>12. OthersStay(t)
  BY <1>1, <1>8, <1>10, Zenon DEF OthersStay
<1>13. StillOwned(c, t)
  <2>1. /\ DOMAIN cl' = Clients /\ \A d \in Clients : d # c => cl'[d] = cl[d]
        /\ cl'[c] = [cl[c] EXCEPT !.rw = FALSE]
    BY <1>6, Zenon DEF OInv
  <2>2. /\ DOMAIN cl'[c] = ClientFields /\ ~cl'[c].rw
        /\ \A f \in ClientFields \ {"rw"} : cl'[c][f] = cl[c][f]
    BY <1>5, <2>1, Zenon DEF ClientFields
  <2>3. cl[c].el \in {t, NoLoop}
    BY <1>5, Zenon DEF Borrowed
  <2> QED BY <2>1, <2>2, <2>3, Zenon DEF StillOwned, ClientFields
<1> QED BY <1>5, <1>8, <1>9, <1>11, <1>12, <1>13, IoClientOwners, Zenon


(* What an I/O thread does to a client: it may leave the event loop. *)
IoKeeps(r, s, t) ==
    /\ DOMAIN s = ClientFields
    /\ \A f \in {"state", "tid", "running", "close", "pendw"} : s[f] = r[f]
    /\ s.el \in {t, NoLoop, r.el}

(* It stays run by the thread, and the main thread has nothing to do for it. *)
LEMMA IoHandles ==
    ASSUME NEW r, DOMAIN r = ClientFields, NEW t
    PROVE  /\ IoKeeps(r, Unbound(r), t) /\ Unbound(r).rw = r.rw
           /\ IoKeeps(r, IoClosed(r), t)
           /\ \A g : IoKeeps(r, [r EXCEPT !.got = g], t)
           /\ \A whole, installed : IoKeeps(r, writeToClient(r, whole, installed), t)
           /\ IoKeeps(r, [r EXCEPT !.rw = TRUE, !.el = t], t)
<1> USE DEF IoKeeps, ClientFields
<1>1. IoKeeps(r, Unbound(r), t) /\ Unbound(r).rw = r.rw
  BY Zenon DEF Unbound
<1>2. IoKeeps(r, IoClosed(r), t)
  BY Zenon DEF Unbound, IoClosed
<1>3. ASSUME NEW g PROVE IoKeeps(r, [r EXCEPT !.got = g], t)
  BY Zenon
<1>4. ASSUME NEW whole, NEW installed PROVE IoKeeps(r, writeToClient(r, whole, installed), t)
  BY Zenon DEF writeToClient
<1>5. IoKeeps(r, [r EXCEPT !.rw = TRUE, !.el = t], t)
  BY Zenon
<1> QED BY <1>1, <1>2, <1>3, <1>4, <1>5, Zenon

(* Two such changes. *)
LEMMA IoKeepsTwice ==
    ASSUME NEW r, NEW s, NEW w, NEW t, IoKeeps(r, s, t), IoKeeps(s, w, t)
    PROVE  IoKeeps(r, w, t)
BY Zenon DEF IoKeeps

(* A client that can be read or written in the event loop of an I/O thread. *)
LEMMA InIoLoop ==
    ASSUME OInv, NEW t \in Threads, NEW c \in Clients, cl[c].el = t, cl[c].rw
    PROVE  /\ Open(c) /\ cl[c].tid = t /\ main.cur # c /\ Borrowed(c) /\ Contains(q[t].clients, c)
           /\ DOMAIN cl[c] = ClientFields
<1>1. Owned(c) /\ t # Main /\ t # NoLoop
  BY ThreadNumbers, Zenon DEF OInv
<1>2. Open(c) /\ Borrowed(c) /\ DOMAIN cl[c] = ClientFields
  BY <1>1, Zenon DEF Owned, Outside, OfMain
<1>3. cl[c].tid = t
  BY <1>1, <1>2, Zenon DEF Borrowed
<1> QED BY <1>2, <1>3, Zenon DEF Borrowed

(* What the handler of an event does to the client and to the thread. *)
HandlesClient(c, t) ==
    \/ AllKept
    \/ /\ cl[c].el = t /\ cl[c].rw
       /\ DOMAIN cl' = Clients /\ \A d \in Clients : d # c => cl'[d] = cl[d]
       /\ IoKeeps(cl[c], cl'[c], t)
HandlesEvent(t, r, F) == io' = [io EXCEPT ![t] = [r EXCEPT !.fired = F]]

(* The thread after the event. *)
LEMMA HandledEvent ==
    ASSUME IInv, NEW t \in Threads, NEW r, DOMAIN r = IoFields, NEW F, HandlesEvent(t, r, F)
    PROVE  /\ io'[t].pc = r.pc /\ io'[t].cur = r.cur /\ io'[t].back = r.back
           /\ \A u \in Threads : u # t => io'[u] = io[u]
<1>1. io'[t] = [r EXCEPT !.fired = F] /\ \A u \in Threads : u # t => io'[u] = io[u]
  BY Zenon DEF IInv, Shape, HandlesEvent
<1> QED BY <1>1, Zenon DEF IoFields

(* The handler of an event, which may send the client to the main thread. *)
LEMMA IoEventOwners ==
    ASSUME IInv, OInv, NEW t \in Threads, io[t].pc = "events", UNCHANGED <<main, q>>, NEW c \in Clients,
           HandlesClient(c, t), NEW r, r = io[t] \/ (r = Enqueue(t, c, "events") /\ cl[c].el = t /\ cl[c].rw), NEW F,
           HandlesEvent(t, r, F)
    PROVE  OInv'
<1>1. io[t].cur = NoClient /\ q[t].handling = <<>>
  BY IoEmptyHanded, Zenon
<1>2. DOMAIN r = IoFields
  BY Zenon DEF Enqueue, IInv, Shape
<1>4. /\ io'[t].pc = r.pc /\ io'[t].cur = r.cur /\ io'[t].back = r.back
      /\ \A u \in Threads : u # t => io'[u] = io[u]
  BY <1>2, HandledEvent, Zenon
<1>5. Hands(t)'
  <2>1. CASE r = io[t]
    BY <1>1, <1>4, <2>1, Zenon DEF Hands, Chain
  <2>2. CASE r = Enqueue(t, c, "events") /\ cl[c].el = t /\ cl[c].rw
    <3>1. Contains(q[t].clients, c)
      BY <2>2, InIoLoop, Zenon
    <3>2. r.pc = "enqueue" /\ r.cur = c /\ r.back = "events"
      BY <2>2, Zenon DEF Enqueue, IInv, Shape, IoFields
    <3> QED BY <1>1, <1>4, <3>1, <3>2, Zenon DEF Hands, Chain
  <2> QED BY <2>1, <2>2
<1>6. OthersStay(t)
  BY <1>4, Zenon DEF OthersStay
<1>7. CASE AllKept
  BY <1>5, <1>6, <1>7, IoKeptOwners, Zenon
<1>8. CASE /\ cl[c].el = t /\ cl[c].rw /\ DOMAIN cl' = Clients
           /\ \A d \in Clients : d # c => cl'[d] = cl[d]
           /\ IoKeeps(cl[c], cl'[c], t)
  <2>2. /\ Open(c) /\ cl[c].tid = t /\ main.cur # c /\ Borrowed(c) /\ Contains(q[t].clients, c)
        /\ DOMAIN cl[c] = ClientFields
    BY <1>8, InIoLoop, Zenon
  <2>4. StillOwned(c, t)
    BY <1>8, <2>2, Zenon DEF StillOwned, IoKeeps
  <2>5. Tidy(q'[t])
    BY Zenon DEF OInv
  <2> QED BY <1>5, <1>6, <2>2, <2>4, <2>5, IoClientOwners, Zenon
<1> QED BY <1>7, <1>8, Zenon DEF HandlesClient

(* Data from a socket. *)
LEMMA IoReadOwners ==
    ASSUME IInv, OInv, NEW t \in Threads, io[t].pc = "events", UNCHANGED main, NEW c \in Clients,
           IoRead(t, c)
    PROVE  OInv'
<1>1. q' = q
  BY Zenon DEF IoRead
<1>2. HandlesClient(c, t)
  <2>1. CASE cl[c].el = t /\ cl[c].rw
    <3>1. DOMAIN cl[c] = ClientFields
      BY <2>1, InIoLoop, Zenon
    <3> DEFINE eof == sock[c] = <<EOF>>
    <3>2. cl' = [cl EXCEPT ![c] = IF eof THEN IoClosed(@) ELSE Received(@, sock[c])]
      BY <2>1, Zenon DEF IoRead
    <3> HIDE DEF eof
    <3>3. DOMAIN cl' = Clients /\ \A d \in Clients : d # c => cl'[d] = cl[d]
      BY <3>2, Zenon DEF OInv
    <3>4. IoKeeps(cl[c], cl'[c], t)
      <4>1. CASE eof
        <5>1. cl'[c] = IoClosed(cl[c])
          BY <3>2, <4>1, Zenon DEF OInv
        <5> QED BY <3>1, <5>1, IoHandles, Zenon
      <4>2. CASE ~eof
        <5>1. cl'[c] = Received(cl[c], sock[c])
          BY <3>2, <4>2, Zenon DEF OInv
        <5> QED BY <3>1, <5>1, Zenon DEF Received, IoKeeps, ClientFields
      <4> QED BY <4>1, <4>2
    <3> QED BY <2>1, <3>3, <3>4, Zenon DEF HandlesClient
  <2>2. CASE ~(cl[c].el = t /\ cl[c].rw)
    BY <2>2, Unchanged, Zenon DEF IoRead, HandlesClient
  <2> QED BY <2>1, <2>2
<1>3. PICK r : r = IF (cl[c].el = t /\ cl[c].rw) /\ (sock[c] = <<EOF>> \/ ~cl[c].after)
                   THEN Enqueue(t, c, "events") ELSE io[t]
  OBVIOUS
<1>4. HandlesEvent(t, r, r.fired \ {<<"read", c>>})
  BY <1>3, Zenon DEF IoRead, HandlesEvent
<1>5. r = io[t] \/ (r = Enqueue(t, c, "events") /\ cl[c].el = t /\ cl[c].rw)
  BY <1>3, Zenon
<1> QED BY <1>1, <1>2, <1>4, <1>5, IoEventOwners, Zenon

(* A socket takes more of the reply. *)
LEMMA IoWriteOwners ==
    ASSUME IInv, OInv, NEW t \in Threads, io[t].pc = "events", UNCHANGED main, NEW c \in Clients,
           IoWrite(t, c)
    PROVE  OInv'
<1>1. PICK whole \in BOOLEAN :
        LET w == writeToClient(cl[c], whole, TRUE)
            valid == cl[c].el = t /\ cl[c].wh
        IN  /\ cl' = IF ~valid THEN cl ELSE [cl EXCEPT ![c] = IF Closing(w) THEN IoClosed(w) ELSE w]
            /\ io' = [io EXCEPT ![t] =
                        [IF valid /\ Closing(w) THEN Enqueue(t, c, "events") ELSE io[t]
                            EXCEPT !.fired = @ \ {<<"write", c>>}]]
            /\ q' = q
  BY Zenon DEF IoWrite
<1>2. PICK w : w = writeToClient(cl[c], whole, TRUE)
  OBVIOUS
<1> DEFINE valid == cl[c].el = t /\ cl[c].wh
<1>3. /\ cl' = IF ~valid THEN cl ELSE [cl EXCEPT ![c] = IF Closing(w) THEN IoClosed(w) ELSE w]
      /\ io' = [io EXCEPT ![t] = [IF valid /\ Closing(w) THEN Enqueue(t, c, "events") ELSE io[t]
                                    EXCEPT !.fired = @ \ {<<"write", c>>}]]
      /\ q' = q
  BY <1>1, <1>2, Zenon
<1>4. ~cl[c].rw => w = cl[c]
  BY <1>2, Zenon DEF writeToClient
<1>5. valid /\ Closing(w) => cl[c].el = t /\ cl[c].rw
  BY <1>4, Zenon DEF Closing
<1>6. HandlesClient(c, t)
  <2>1. CASE ~valid
    BY <1>3, <2>1, Unchanged, Zenon DEF HandlesClient
  <2>2. CASE valid /\ ~cl[c].rw
    <3>1. cl' = [cl EXCEPT ![c] = cl[c]]
      BY <1>3, <1>4, <1>5, <2>2, Zenon
    <3>2. KeepsOwner(cl[c], cl[c])
      BY Zenon DEF KeepsOwner, OInv, Owned
    <3> QED BY <3>1, <3>2, OnlyReplies, Zenon DEF HandlesClient
  <2>3. CASE valid /\ cl[c].rw
    <3>1. DOMAIN cl[c] = ClientFields
      BY <2>3, InIoLoop, Zenon
    <3>2. IoKeeps(cl[c], w, t)
      BY <1>2, <3>1, IoHandles, Zenon
    <3>3. IoKeeps(w, IoClosed(w), t)
      BY <3>2, IoHandles, Zenon DEF IoKeeps
    <3>4. IoKeeps(cl[c], IoClosed(w), t)
      BY <3>2, <3>3, IoKeepsTwice, Zenon
    <3>5. /\ DOMAIN cl' = Clients /\ \A d \in Clients : d # c => cl'[d] = cl[d]
          /\ cl'[c] = IF Closing(w) THEN IoClosed(w) ELSE w
      BY <1>3, <2>3, Zenon DEF OInv
    <3> QED BY <2>3, <3>2, <3>4, <3>5, Zenon DEF HandlesClient
  <2> QED BY <2>1, <2>2, <2>3
<1>7. PICK r : r = IF valid /\ Closing(w) THEN Enqueue(t, c, "events") ELSE io[t]
  OBVIOUS
<1>8. HandlesEvent(t, r, r.fired \ {<<"write", c>>})
  BY <1>3, <1>7, Zenon DEF HandlesEvent
<1>9. r = io[t] \/ (r = Enqueue(t, c, "events") /\ cl[c].el = t /\ cl[c].rw)
  BY <1>5, <1>7, Zenon
<1> QED BY <1>3, <1>6, <1>8, <1>9, IoEventOwners, Zenon


(* What Link does to the client and to the thread. *)
LEMMA LinkedClient ==
    ASSUME IInv, OInv, NEW t \in Threads, Link(t), NEW c \in Clients, c = Head(q[t].handling),
           DOMAIN cl[c] = ClientFields
    PROVE  /\ DOMAIN cl' = Clients /\ \A d \in Clients : d # c => cl'[d] = cl[d]
           /\ IoKeeps(cl[c], cl'[c], t)
           /\ io' = io \/ io' = [io EXCEPT ![t] = Enqueue(t, c, "link")]
<1>1. CASE /\ cl' = [cl EXCEPT ![c] = Unbound(@)]
           /\ io' = [io EXCEPT ![t] = Enqueue(t, c, "link")]
  <2>1. /\ DOMAIN cl' = Clients /\ \A d \in Clients : d # c => cl'[d] = cl[d]
        /\ cl'[c] = Unbound(cl[c])
    BY <1>1, Zenon DEF OInv
  <2> QED BY <1>1, <2>1, IoHandles, Zenon
<1>3. PICK r : r = [cl[c] EXCEPT !.rw = TRUE, !.el = t]
  OBVIOUS
<1>4. CASE ~cl[c].ioclose
  <2>1. PICK whole \in BOOLEAN :
          LET w == IF r.reply = "none" THEN r ELSE writeToClient(r, whole, FALSE)
              closed == r.reply # "none" /\ Closing(w)
          IN  /\ cl' = [cl EXCEPT ![c] = IF closed THEN IoClosed(w) ELSE w]
              /\ io' = IF closed THEN [io EXCEPT ![t] = Enqueue(t, c, "link")] ELSE io
    BY <1>3, <1>4, Zenon DEF Link
  <2>2. PICK w : w = IF r.reply = "none" THEN r ELSE writeToClient(r, whole, FALSE)
    OBVIOUS
  <2>3. \/ cl' = [cl EXCEPT ![c] = w] /\ io' = io
        \/ cl' = [cl EXCEPT ![c] = IoClosed(w)] /\ io' = [io EXCEPT ![t] = Enqueue(t, c, "link")]
    BY <2>1, <2>2, Zenon
  <2>4. IoKeeps(cl[c], r, t) /\ DOMAIN r = ClientFields
    <3>1. IoKeeps(cl[c], r, t)
      BY <1>3, Zenon DEF IoKeeps, ClientFields
    <3> QED BY <3>1, Zenon DEF IoKeeps
  <2>5. IoKeeps(cl[c], writeToClient(r, whole, FALSE), t)
    <3>1. \A x, y : IoKeeps(r, writeToClient(r, x, y), t)
      BY <2>4, IoHandles, Zenon
    <3>2. IoKeeps(r, writeToClient(r, whole, FALSE), t)
      BY <3>1, Zenon
    <3> QED BY <2>4, <3>2, IoKeepsTwice, Zenon
  <2>6. IoKeeps(cl[c], w, t)
    BY <2>2, <2>4, <2>5, Zenon
  <2>7. IoKeeps(cl[c], IoClosed(w), t)
    <3>1. IoKeeps(w, IoClosed(w), t)
      BY <2>6, IoHandles, Zenon DEF IoKeeps
    <3> QED BY <2>6, <3>1, IoKeepsTwice, Zenon
  <2>8. /\ DOMAIN cl' = Clients /\ \A d \in Clients : d # c => cl'[d] = cl[d]
        /\ cl'[c] \in {w, IoClosed(w)}
    BY <2>3, Zenon DEF OInv
  <2>9. io' = io \/ io' = [io EXCEPT ![t] = Enqueue(t, c, "link")]
    BY <2>3, Zenon
  <2> QED BY <2>6, <2>7, <2>8, <2>9, Zenon
<1>5. CASE cl[c].ioclose
  <2>1. cl' = [cl EXCEPT ![c] = Unbound(@)] /\ io' = [io EXCEPT ![t] = Enqueue(t, c, "link")]
    BY <1>5, Zenon DEF Link
  <2> QED BY <1>1, <2>1
<1> QED BY <1>4, <1>5

(* One client is linked. *)
LEMMA LinkOwners ==
    ASSUME IInv, OInv, NEW t \in Threads, Link(t)
    PROVE  OInv'
<1>1. io[t].pc = "link" /\ q[t].handling # <<>> /\ main' = main
  BY Zenon DEF Link, IoAt
<1>2. Tidy(q[t]) /\ q[t].handling \in Seq(Clients) /\ q[t].clients \in Seq(Clients)
  BY Zenon DEF OInv, Tidy, Lists
<1>3. PICK c \in Clients : c = Head(q[t].handling)
  BY <1>1, <1>2
<1>4. Contains(q[t].handling, c) /\ Drops(q[t].handling, Tail(q[t].handling), c)
  <2>1. AtMostOnce(q[t].handling, c)
    BY <1>2, Zenon DEF Tidy, Lists
  <2> QED BY <1>1, <1>2, <1>3, <2>1, ListTakes, Zenon
<1>5. Holds(q[t], c)
  BY <1>4, Zenon DEF Holds, Lists
<1>6. Open(c) /\ cl[c].tid = t /\ main.cur # c /\ Borrowed(c) /\ DOMAIN cl[c] = ClientFields
  BY <1>5, ListedClient, Zenon
<1>7. /\ DOMAIN cl' = Clients /\ \A d \in Clients : d # c => cl'[d] = cl[d]
      /\ IoKeeps(cl[c], cl'[c], t)
      /\ io' = io \/ io' = [io EXCEPT ![t] = Enqueue(t, c, "link")]
  BY <1>3, <1>6, LinkedClient, Zenon
<1>8. /\ \A u \in Threads : u # t => q'[u] = q[u]
      /\ But(q[t], q'[t], {"handling", "clients"})
      /\ q'[t].handling = Tail(q[t].handling) /\ q'[t].clients = Append(q[t].clients, c)
  BY <1>3, Zenon DEF Link, IInv, Shape, But, Lists
<1>9. Adds(q[t].clients, q'[t].clients, c) /\ Drops(q[t].handling, q'[t].handling, c)
  BY <1>2, <1>4, <1>8, ListAdds, Zenon
<1>10. Tidy(q'[t]) /\ \A d \in Clients : Holds(q'[t], d) <=> Holds(q[t], d)
  <2>1. "handling" \in Lists /\ "clients" \in Lists /\ "handling" # "clients"
    BY Zenon DEF Lists
  <2> QED BY <1>2, <1>4, <1>8, <1>9, <2>1, Moves, Zenon
<1>11. /\ Contains(q'[t].clients, c)
       /\ \A d \in Clients : d # c => (Contains(q[t].clients, d) => Contains(q'[t].clients, d))
  BY <1>9, Zenon DEF Adds
<1>12. StillOwned(c, t)
  <2>1. cl[c].el \in {t, NoLoop}
    BY <1>6, Zenon DEF Borrowed
  <2> QED BY <1>7, <1>11, <2>1, Zenon DEF StillOwned, IoKeeps
<1>13. \A u \in Threads : u # t => io'[u] = io[u]
  BY <1>7, Zenon DEF IInv, Shape
<1>14. Hands(t)'
  <2>1. /\ ~Chain(t) /\ Hands(t) /\ io[t].cur = NoClient /\ (io[t].fired # {} => io[t].ret = "events")
    BY <1>1, IoEmptyHanded, Zenon DEF OInv, Hands
  <2>2. CASE io' = io
    BY <1>1, <2>1, <2>2, Zenon DEF Hands, Chain, Linking
  <2>3. CASE io' = [io EXCEPT ![t] = Enqueue(t, c, "link")]
    <3>1. io'[t] = Enqueue(t, c, "link")
      BY <2>3, Zenon DEF IInv, Shape
    <3>2. /\ io'[t].pc = "enqueue" /\ io'[t].cur = c /\ io'[t].back = "link"
          /\ io'[t].fired = io[t].fired /\ io'[t].ret = io[t].ret
      BY <3>1, Zenon DEF Enqueue, IInv, Shape, IoFields
    <3> QED BY <1>11, <2>1, <3>2, Zenon DEF Hands, Chain, Linking
  <2> QED BY <1>7, <2>2, <2>3
<1>15. OthersStay(t)
  BY <1>1, <1>8, <1>13, Zenon DEF OthersStay
<1> QED BY <1>6, <1>10, <1>11, <1>12, <1>14, <1>15, IoClientOwners, Zenon

-----------------------------------------------------------------------------
(* The theorems about who owns a client. *)

(* The first state. *)
LEMMA InitOInv == Init => OInv
<1> SUFFICES ASSUME Init PROVE OInv
  BY Zenon
<1> USE DEF Init
<1>1. <<>> \in Seq(Clients) /\ \A c : ~Contains(<<>>, c) /\ AtMostOnce(<<>>, c)
  BY DEF Contains, AtMostOnce
<1>2. ASSUME NEW t \in Threads PROVE Tidy(q[t]) /\ Hands(t) /\ \A c : ~Holds(q[t], c)
  <2>1. DOMAIN q[t] = Lists /\ \A n \in Lists : q[t][n] = <<>>
    <3>1. q[t] = NoClients
      BY Zenon
    <3>2. DOMAIN NoClients = Lists /\ \A n \in Lists : NoClients[n] = <<>>
      BY DEF NoClients, Lists
    <3> QED BY <3>1, <3>2, Zenon
  <2>2. Tidy(q[t]) /\ \A c : ~Holds(q[t], c)
    <3> HIDE DEF Init
    <3>1. \A n \in Lists : /\ q[t][n] \in Seq(Clients)
                           /\ \A c : ~Contains(q[t][n], c) /\ AtMostOnce(q[t][n], c)
      BY <1>1, <2>1, Zenon
    <3> QED BY <2>1, <3>1, Zenon DEF Tidy, Holds
  <2>3. Hands(t)
    BY <2>1, Zenon DEF Hands, Chain, Lists
  <2> QED BY <2>2, <2>3
<1>3. ASSUME NEW c \in Clients PROVE Listed(c) /\ Owned(c) /\ cl[c].state = "new"
  <2>1. cl[c] = createClient
    BY Zenon
  <2>2. Owned(c) /\ ~Open(c) /\ cl[c].state = "new"
    BY <2>1, Zenon DEF Owned, Open, Outside, OfMain, createClient, ClientFields
  <2>3. Listed(c)
    BY <1>2, <2>2, Zenon DEF Listed
  <2> QED BY <2>2, <2>3
<1>4. InHand
  BY Zenon DEF InHand, Executing
<1>5. Fired
  BY <1>3, ThreadsAreNumbered, Zenon DEF Fired
<1>6. DOMAIN cl = Clients
  BY Zenon
<1> QED BY <1>2, <1>3, <1>4, <1>5, <1>6, Zenon DEF OInv

(* Nothing that the invariant is about changes. *)
LEMMA StutterOwners ==
    ASSUME OInv, UNCHANGED <<cl, q, main, io>>
    PROVE  OInv'
<1>1. InHand' /\ Fired' /\ main'.cur = main.cur
  BY MainStays, Zenon
<1> QED BY <1>1, Unchanged, QuietOwners, Zenon

(* Every step of the main thread keeps the invariant. *)
LEMMA MainOwners ==
    ASSUME IInv, OInv, MainStep \/ MainTimer
    PROVE  OInv'
BY AfterSleepOwners, MainEventOwners, JoinPendingOwners, IdleOwners, NextClientOwners, EndOfLoopOwners,
   ExecCommandOwners, WhilePausedOwners, ResumedOwners, FinishOwners, SendIfNeededOwners,
   RingIfNotRunningOwners, BeforeSleepOwners, PendingWritesOwners, SendPendingOwners,
   RingAlwaysOwners, SentAllOwners, Zenon
DEF MainStep, MainPolls, MainTimer

(* Every step of an I/O thread keeps the invariant. *)
LEMMA IoOwners ==
    ASSUME IInv, OInv, NEW t \in Threads, IoStep(t) \/ IOThreadCron(t)
    PROVE  OInv'
<1>1. CASE IoEvent(t)
  <2>1. io[t].pc = "events" /\ main' = main
    BY <1>1, Zenon DEF IoEvent, IoAt
  <2> QED BY <1>1, <2>1, IoPollOwners, IoReadOwners, IoWriteOwners, Zenon DEF IoEvent
<1>2. CASE IoPolls(t) \/ IOThreadCron(t) \/ IOThreadBeforeSleep(t)
  BY <1>2, IoPollOwners, Zenon DEF IoPolls
<1> QED BY <1>1, <1>2, IoSentOwners, IoEnqueueOwners, HandlerEndsOwners, IoRingOwners, IoJoinOwners,
           LinkOwners, LinkedOwners, ClientsCronOwners, IoPauseOwners, Zenon DEF IoStep

(* Every step keeps the invariant. *)
LEMMA NextOInv == IInv /\ OInv /\ [Next]_vars => OInv'
<1> SUFFICES ASSUME IInv, OInv, [Next]_vars PROVE OInv'
  BY Zenon
<1>1. ASSUME NEW c \in Clients, Request(c) PROVE OInv'
  BY <1>1, StutterOwners, Zenon DEF Request
<1>2. CASE UNCHANGED vars
  BY <1>2, StutterOwners, Zenon DEF vars
<1> QED BY <1>1, <1>2, MainOwners, IoOwners, Zenon DEF Next

(* Both invariants hold in every reachable state. *)
LEMMA OwnersInvariant == Spec => [](IInv /\ OInv)
<1> QED BY InitIInv, NextIInv, InitOInv, NextOInv, PTL DEF Spec

(* The lists of an I/O thread, one after the other. *)
LEMMA AllLists ==
    ASSUME NEW t \in Threads, Tidy(q[t])
    PROVE  /\ Waiting(t) \in Seq(Clients) /\ Everywhere(t) \in Seq(Clients)
           /\ \A c : Contains(Waiting(t), c) <=>
                        \E n \in {"to_io", "pending", "processing", "inbox"} : Contains(q[t][n], c)
           /\ \A c \in Clients : /\ Contains(Everywhere(t), c) <=> Holds(q[t], c)
                                 /\ AtMostOnce(Everywhere(t), c)
<1> DEFINE l == q[t]
           s1 == l.to_io \o l.pending
           s2 == s1 \o l.processing
           s3 == s2 \o l.inbox
           s4 == s3 \o l.handling
           s5 == s4 \o l.to_main
           s6 == s5 \o l.clients
<1>1. \A n \in Lists : l[n] \in Seq(Clients)
  BY Zenon DEF Tidy
<1>2. Waiting(t) = s3 /\ Everywhere(t) = s6
  BY Zenon DEF Waiting, Everywhere
<1>3. /\ \A c \in Clients : \A n \in Lists : AtMostOnce(l[n], c)
      /\ \A c \in Clients : \A n, m \in Lists : Contains(l[n], c) /\ Contains(l[m], c) => n = m
  BY Zenon DEF Tidy
<1> DEFINE In(s, S) == /\ s \in Seq(Clients) /\ \A c : Contains(s, c) <=> \E n \in S : Contains(l[n], c)
                       /\ \A c \in Clients : AtMostOnce(s, c)
<1>4. ASSUME NEW s, NEW S \in SUBSET Lists, In(s, S), NEW n \in Lists \ S
      PROVE  In(s \o l[n], S \cup {n})
  <2>1. s \in Seq(Clients) /\ l[n] \in Seq(Clients)
    BY <1>1, <1>4, Zenon
  <2>2. \A c \in Clients : ~(Contains(s, c) /\ Contains(l[n], c))
    BY <1>3, <1>4, Zenon
  <2> HIDE DEF l
  <2>3. /\ s \o l[n] \in Seq(Clients)
        /\ \A c : Contains(s \o l[n], c) <=> Contains(s, c) \/ Contains(l[n], c)
    BY <2>1, JoinedList, Zenon
  <2>4. \A c \in Clients : AtMostOnce(s \o l[n], c)
    BY <1>3, <1>4, <2>1, <2>2, JoinedList, Zenon
  <2>5. \A c : Contains(s \o l[n], c) <=> \E m \in S \cup {n} : Contains(l[m], c)
    BY <1>4, <2>3, Zenon
  <2> QED BY <2>3, <2>4, <2>5, Zenon
<1>5. In(l.to_io, {"to_io"})
  BY <1>1, <1>3, Zenon DEF Lists
<1> HIDE DEF In, l
<1>6. In(s1, {"to_io"} \cup {"pending"})
  BY <1>4, <1>5, Zenon DEF Lists
<1>7. In(s2, ({"to_io"} \cup {"pending"}) \cup {"processing"})
  BY <1>4, <1>6, Zenon DEF Lists
<1>8. In(s3, (({"to_io"} \cup {"pending"}) \cup {"processing"}) \cup {"inbox"})
  BY <1>4, <1>7, Zenon DEF Lists
<1> HIDE DEF s1, s2, s3
<1>9. In(s4, ((({"to_io"} \cup {"pending"}) \cup {"processing"}) \cup {"inbox"}) \cup {"handling"})
  BY <1>4, <1>8, Zenon DEF Lists
<1>10. In(s5, (((({"to_io"} \cup {"pending"}) \cup {"processing"}) \cup {"inbox"}) \cup {"handling"})
                  \cup {"to_main"})
  BY <1>4, <1>9, Zenon DEF Lists
<1>11. In(s6, ((((({"to_io"} \cup {"pending"}) \cup {"processing"}) \cup {"inbox"}) \cup {"handling"})
                  \cup {"to_main"}) \cup {"clients"})
  BY <1>4, <1>10, Zenon DEF Lists
<1>12. In(s6, Lists) /\ In(s3, {"to_io", "pending", "processing", "inbox"})
  <2>1. /\ ((((({"to_io"} \cup {"pending"}) \cup {"processing"}) \cup {"inbox"}) \cup {"handling"})
                  \cup {"to_main"}) \cup {"clients"} = Lists
        /\ (({"to_io"} \cup {"pending"}) \cup {"processing"}) \cup {"inbox"}
              = {"to_io", "pending", "processing", "inbox"}
    BY DEF Lists
  <2> QED BY <1>8, <1>11, <2>1, Zenon
<1> HIDE DEF s4, s5, s6
<1> QED BY <1>2, <1>12, Zenon DEF In, Holds, l

(* What the lists of an I/O thread say of a client. *)
LEMMA OneListEach == OInv => InOneList
<1> SUFFICES ASSUME OInv, NEW c \in Clients, NEW t \in Threads
             PROVE  IF Open(c) /\ cl[c].tid = t /\ main.cur # c
                    THEN \E i \in DOMAIN Everywhere(t) : \A j \in DOMAIN Everywhere(t) :
                            Everywhere(t)[j] = c <=> j = i
                    ELSE ~Contains(Everywhere(t), c)
  BY Zenon DEF InOneList
<1>1. /\ Contains(Everywhere(t), c) <=> Holds(q[t], c)
      /\ AtMostOnce(Everywhere(t), c)
  BY AllLists, Zenon DEF OInv
<1>2. Holds(q[t], c) <=> Open(c) /\ cl[c].tid = t /\ main.cur # c
  BY Zenon DEF OInv, Listed
<1> QED BY <1>1, <1>2, Zenon DEF Contains, AtMostOnce

(* What a thread may do with a client it has in hand or in its lists. *)
LEMMA OneThreadEach == IInv /\ OInv => NoDataRace
<1> SUFFICES ASSUME IInv, OInv PROVE NoDataRace
  BY Zenon
<1> DEFINE W == {"to_io", "pending", "processing", "inbox"}
<1>1. W \subseteq Lists /\ {"to_main", "clients"} \subseteq Lists \ W
  BY Zenon DEF Lists
<1> HIDE DEF W
<1>2. ASSUME NEW t \in Threads
      PROVE  /\ Tidy(q[t]) /\ Waiting(t) \in Seq(Clients)
             /\ \A c : Contains(Waiting(t), c) <=> \E n \in W : Contains(q[t][n], c)
  BY AllLists, Zenon DEF OInv, W
<1>3. ASSUME NEW t \in Threads, io[t].cur # NoClient
      PROVE  /\ cl[io[t].cur].running = t /\ io[t].cur # main.cur
             /\ ~Contains(Waiting(t), io[t].cur)
  <2>1. PICK c \in Clients : c = io[t].cur
    BY <1>3, Zenon DEF OInv, Hands
  <2>2. PICK n \in {"to_main", "clients"} : Contains(q[t][n], c)
    BY <1>3, <2>1, Zenon DEF OInv, Hands
  <2>3. Holds(q[t], c)
    BY <1>1, <2>2, Zenon DEF Holds
  <2>4. main.cur # c /\ cl[c].running = t
    <3>1. main.cur # c /\ cl[c].tid = t /\ Borrowed(c)
      BY <2>3, ListedClient, Zenon
    <3> QED BY <3>1, Zenon DEF Borrowed
  <2>5. ~Contains(Waiting(t), c)
    <3>1. \A k, j \in Lists : Contains(q[t][k], c) /\ Contains(q[t][j], c) => k = j
      BY <1>2, Zenon DEF Tidy
    <3>2. n \in Lists /\ n \notin W
      BY <1>1, <2>2, Zenon
    <3>3. \A k \in W : ~Contains(q[t][k], c)
      BY <1>1, <2>2, <3>1, <3>2, Zenon
    <3> QED BY <1>2, <3>3, Zenon
  <2> QED BY <2>1, <2>4, <2>5, Zenon
<1>4. ASSUME NEW t \in Threads, NEW i \in DOMAIN Waiting(t)
      PROVE  ~cl[Waiting(t)[i]].rw /\ ~cl[Waiting(t)[i]].close
  <2>1. PICK c \in Clients : c = Waiting(t)[i]
    BY <1>2, <1>4
  <2>2. Contains(Waiting(t), c)
    BY <2>1, Zenon DEF Contains
  <2>3. PICK n \in W : Contains(q[t][n], c)
    BY <1>2, <2>2, Zenon
  <2>4. ~Contains(q[t].clients, c) /\ Holds(q[t], c)
    BY <1>1, <1>2, <2>3, Zenon DEF Tidy, Holds
  <2>5. ~cl[c].rw /\ ~cl[c].close
    <3>1. Borrowed(c) /\ (cl[c].rw => Contains(q[t].clients, c))
      BY <2>4, ListedClient, Zenon
    <3> QED BY <2>4, <3>1, Zenon DEF Borrowed
  <2> QED BY <2>1, <2>5, Zenon
<1>5. ASSUME NEW c \in Clients, cl[c].running = Main, cl[c].el \in Threads
      PROVE  ~cl[c].rw
  <2>1. Owned(c)
    BY Zenon DEF OInv
  <2>2. cl[c].tid \in Threads /\ Borrowed(c)
    BY <1>5, <2>1, ThreadNumbers, Zenon DEF Owned, Outside, OfMain
  <2> QED BY <1>5, <2>2, ThreadNumbers, Zenon DEF Borrowed
<1>6. ASSUME NEW t \in Threads, io[t].paused \in {"PAUSED", "RESUMING"}
      PROVE  io[t].cur = NoClient /\ io[t].fired = {} /\ q[t].handling = <<>>
  <2>1. io[t].pc = "paused"
    BY <1>6, Zenon DEF IInv, Pausing
  <2> QED BY <2>1, IoEmptyHanded, Zenon
<1> QED BY <1>3, <1>4, <1>5, <1>6, Zenon DEF NoDataRace

(* "Client only can be in one client list": for any number of threads and
   clients, whatever the interleaving of the hand-overs, the pauses and the
   closes, a client of an I/O thread is in exactly one of the lists of that
   thread, unless the main thread executes its commands, and a client that is
   freed or kept by the main thread is in none (fetchClientFromIOThread,
   enqueuePendingClientsToMainThread, processClientsFromMainThread). *)
THEOREM ClientsAreInOneList == Spec => []InOneList
<1> QED BY OneListEach, OwnersInvariant, PTL

(* For any number of threads and clients, no client is used by two threads at
   the same time: the one an I/O thread has in hand is run by that thread and
   not on its way to the main thread; the ones that wait can be neither read
   nor written; the ones the main thread runs have no enabled handler in an I/O
   thread; and a paused thread has nothing in hand (processClientsFromIOThread,
   pauseIOThread, handlePauseAndResume). *)
THEOREM NoClientIsShared == Spec => []NoDataRace
<1> QED BY OneThreadEach, OwnersInvariant, PTL
=============================================================================
