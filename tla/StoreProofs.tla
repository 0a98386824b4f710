----------------------------- MODULE StoreProofs -----------------------------
(***************************************************************************)
(* What becomes of requests, for every number of connections and keys and  *)
(* every bound: each is in one place at most, the outcome store agrees     *)
(* with the threads about it, a terminal outcome is true and final, a      *)
(* refusal is true, and the whole executor implements SerialBackend.       *)
(*                                                                         *)
(* The induction follows a connection from its first frame to its last     *)
(* (Story) and an entry of the store from its registration to its eviction *)
(* (Carried, Ordered); the invariant of ExecutorProofs supplies the types, *)
(* the owner's hand and the open hardware.                                 *)
(***************************************************************************)
EXTENDS ExecutorProofs

(* Connection c's command is in the channel. *)
InChannel(c) == \E i \in 1 .. Len(channel) : channel[i] = c

(* A command is in one place at most. *)
OnceInPipe ==
  /\ \A i, j \in 1 .. Len(channel) : channel[i] = channel[j] /\ channel[i] \in Clients => i = j
  /\ \A c \in Clients : InChannel(c) => current # c

(* The thread of c has not handed a command to the owner. *)
Early(c) == at[c] \in {"reading", "registered", "refused", "reserved", "committed"}

(* Where a connection's thread and command are tells what has become of the *)
(* request and what was said of it.                                         *)
Story(c) ==
  /\ Early(c) => ~InChannel(c) /\ current # c /\ reply[c] = "none"
  /\ at[c] # "closed" => answer[c] = "none"
  /\ at[c] = "reading" => key[c] = NoKey
  /\ at[c] \in {"reading", "registered", "refused", "reserved"} => fate[c] = "none"
  /\ at[c] = "committed" => fate[c] = "committed"
  /\ InChannel(c) => fate[c] = "none" /\ reply[c] = "none"
  /\ current = c =>
       /\ reply[c] = "none"
       /\ ownerAt \in {"received", "dispatch", "running", "panicked"} => fate[c] = "none"
       /\ ownerAt = "recording" => fate[c] = "ran"
       /\ ownerAt = "replying" => fate[c] \in {"ran", "dropped"}
  /\ reply[c] = "Completed" => fate[c] = "ran"
  /\ reply[c] # "Completed" /\ reply[c] # "none" => reply[c] = "Expired" /\ fate[c] = "dropped"
  /\ answer[c] \in {"Rejected", "Expired"} =>
       fate[c] \in {"none", "dropped"} /\ ~InChannel(c) /\ current # c

Stories == \A c \in Clients : Story(c)

(* One connection at most carries a key, and its entry says how far it is; *)
(* an unsettled entry has one.                                             *)
Carried ==
  /\ \A c, d \in Clients : Carries(c) /\ Carries(d) /\ key[c] = key[d] => c = d
  /\ \A c \in Clients : Carries(c) =>
       entries[key[c]] = IF Running(c) THEN "Started" ELSE "Queued"
  /\ \A k \in Keys : entries[k] \in {"Queued", "Started"} =>
       \E c \in Clients : key[c] = k /\ Carries(c)

(* The order of completions lists every settled key once, and no more keys *)
(* than are retained.                                                      *)
Ordered ==
  /\ Len(completed) <= MaxRetained
  /\ \A i, j \in 1 .. Len(completed) : completed[i] = completed[j] => i = j
  /\ \A k \in Keys : entries[k] \in Terminal <=> \E i \in 1 .. Len(completed) : completed[i] = k

StoreInv == OnceInPipe /\ Stories /\ Carried /\ Ordered /\ OutcomesTellTheTruth

-----------------------------------------------------------------------------
(* What the operators of the channel and of the store do. *)

(* A submission that succeeds puts its own command into the channel, and   *)
(* changes nothing for the others.                                         *)
LEMMA EnqueueEffect ==
  ASSUME TypeOK, OnceInPipe, NEW op \in Operations, Enqueue(op), UNCHANGED current,
         op \in Clients => ~InChannel(op) /\ current # op
  PROVE  /\ OnceInPipe'
         /\ \A c \in Clients : InChannel(c)' <=> (InChannel(c) \/ c = op)
<1> DEFINE n == Len(channel)
<1>1. /\ n \in Nat
      /\ Len(channel') = n + 1
      /\ channel'[n + 1] = op
      /\ \A i \in 1 .. n : channel'[i] = channel[i]
  BY AppendProperties, LenProperties DEF Enqueue, TypeOK
<1>2. ASSUME NEW c \in Clients
      PROVE  InChannel(c)' <=> (InChannel(c) \/ c = op)
  <2>1. CASE InChannel(c)
    BY <1>1, <2>1 DEF InChannel
  <2>2. CASE c = op
    <3>1. n + 1 \in 1 .. Len(channel') /\ channel'[n + 1] = c
      BY <1>1, <2>2
    <3> QED BY <2>2, <3>1 DEF InChannel
  <2>3. CASE InChannel(c)'
    <3>1. PICK i \in 1 .. Len(channel') : channel'[i] = c
      BY <2>3 DEF InChannel
    <3> QED BY <1>1, <3>1 DEF InChannel
  <2> QED BY <2>1, <2>2, <2>3
<1>3. ASSUME NEW i \in 1 .. Len(channel'), NEW j \in 1 .. Len(channel'),
             channel'[i] = channel'[j], channel'[i] \in Clients
      PROVE  i = j
  <2>1. CASE i <= n /\ j <= n
    BY <1>1, <1>3, <2>1 DEF OnceInPipe
  <2>2. CASE i = n + 1 /\ j <= n
    BY <1>1, <1>3, <2>2 DEF InChannel
  <2>3. CASE i <= n /\ j = n + 1
    BY <1>1, <1>3, <2>3 DEF InChannel
  <2> QED BY <1>1, <2>1, <2>2, <2>3
<1> QED BY <1>2, <1>3 DEF OnceInPipe

(* A refused one leaves the channel alone. *)
LEMMA RefuseEffect ==
  ASSUME NEW op, Refuse(op)
  PROVE  UNCHANGED <<channel, queued, senderOpen>> /\ \A c \in Clients : InChannel(c)' <=> InChannel(c)
BY DEF Refuse, pipe, InChannel

(* The owner takes a command out of the channel into its hand. *)
LEMMA ReceiveEffect ==
  ASSUME TypeOK, OnceInPipe, Receive
  PROVE  /\ OnceInPipe'
         /\ \A c \in Clients : InChannel(c)' <=> (InChannel(c) /\ c # current')
         /\ current' \in Clients => InChannel(current')
<1> DEFINE n == Len(channel)
<1>1. /\ n \in Nat \ {0}
      /\ Len(channel') = n - 1
      /\ current' = channel[1]
      /\ \A i \in 1 .. n - 1 : channel'[i] = channel[i + 1]
  BY HeadTailProperties, EmptySeq DEF TypeOK, Receive
<1>2. current' \in Clients => InChannel(current')
  BY <1>1 DEF InChannel
<1>3. ASSUME NEW c \in Clients
      PROVE  InChannel(c)' <=> (InChannel(c) /\ c # current')
  <2>1. ASSUME InChannel(c)' PROVE InChannel(c) /\ c # current'
    <3>1. PICK i \in 1 .. Len(channel') : channel'[i] = c
      BY <2>1 DEF InChannel
    <3>2. i + 1 \in 1 .. n /\ channel[i + 1] = c /\ i + 1 # 1
      BY <1>1, <3>1
    <3> QED BY <1>1, <3>2 DEF InChannel, OnceInPipe
  <2>2. ASSUME InChannel(c), c # current' PROVE InChannel(c)'
    <3>1. PICK i \in 1 .. n : channel[i] = c
      BY <2>2 DEF InChannel
    <3>2. i - 1 \in 1 .. n - 1 /\ channel'[i - 1] = c
      BY <1>1, <2>2, <3>1
    <3> QED BY <1>1, <3>2 DEF InChannel
  <2> QED BY <2>1, <2>2
<1>4. ASSUME NEW i \in 1 .. Len(channel'), NEW j \in 1 .. Len(channel'),
             channel'[i] = channel'[j], channel'[i] \in Clients
      PROVE  i = j
  <2>1. i + 1 \in 1 .. n /\ j + 1 \in 1 .. n /\ channel[i + 1] = channel[j + 1]
    BY <1>1, <1>4
  <2> QED BY <1>1, <1>4, <2>1 DEF OnceInPipe
<1> QED BY <1>2, <1>3, <1>4 DEF OnceInPipe

(* set_terminal settles an unsettled key and evicts at most the oldest     *)
(* settled one, and that only when the store is full.                      *)
LEMMA SettleEffect ==
  ASSUME TypeOK, Ordered, NEW k \in Keys, NEW o \in Terminal, SetTerminal(k, o),
         entries[k] \notin Terminal
  PROVE  /\ Ordered'
         /\ entries'[k] = o
         /\ \A j \in Keys \ {k} :
              \/ entries'[j] = entries[j]
              \/ /\ entries[j] \in Terminal /\ entries'[j] = "absent"
                 /\ Len(completed) = MaxRetained /\ j = completed[1]
<1> DEFINE recorded == [entries EXCEPT ![k] = o]
           order    == Append(completed, k)
           n        == Len(completed)
<1>1. /\ n \in Nat /\ n <= MaxRetained /\ MaxRetained \in Nat \ {0}
      /\ order \in Seq(Keys) /\ order # << >> /\ Len(order) = n + 1
      /\ \A i \in 1 .. n : order[i] = completed[i] /\ completed[i] \in Keys
      /\ order[n + 1] = k
  BY SizesAssumption, AppendProperties, LenProperties, ElementOfSeq, SMTT(30)
  DEF TypeOK, Ordered
<1>2. \A i \in 1 .. n : completed[i] # k
  BY DEF Ordered
<1>3. \A i, j \in 1 .. n + 1 : order[i] = order[j] => i = j
  <2> SUFFICES ASSUME NEW i \in 1 .. n + 1, NEW j \in 1 .. n + 1, order[i] = order[j]
               PROVE  i = j
    OBVIOUS
  <2>1. CASE i <= n /\ j <= n
    BY <1>1, <2>1 DEF Ordered
  <2>2. CASE i = n + 1 \/ j = n + 1
    BY <1>1, <1>2, <2>2
  <2> QED BY <1>1, <2>1, <2>2
<1>4. \A j \in Keys : recorded[j] \in Terminal <=> \E i \in 1 .. n + 1 : order[i] = j
  <2> SUFFICES ASSUME NEW j \in Keys
               PROVE  recorded[j] \in Terminal <=> \E i \in 1 .. n + 1 : order[i] = j
    OBVIOUS
  <2>1. CASE j = k
    BY <1>1, <2>1 DEF TypeOK
  <2>2. CASE j # k
    <3>1. recorded[j] = entries[j]
      BY <2>2 DEF TypeOK
    <3>2. (\E i \in 1 .. n + 1 : order[i] = j) <=> \E i \in 1 .. n : completed[i] = j
      BY <1>1, <2>2
    <3> QED BY <3>1, <3>2 DEF Ordered
  <2> QED BY <2>1, <2>2
<1>5. CASE n + 1 > MaxRetained
  <2>1. /\ entries' = [recorded EXCEPT ![Head(order)] = "absent"]
        /\ completed' = Tail(order)
        /\ n = MaxRetained /\ n >= 1
    BY <1>1, <1>5 DEF SetTerminal
  <2>2. /\ Head(order) = completed[1] /\ completed[1] \in Keys /\ completed[1] # k
        /\ order[1] = completed[1]
        /\ Len(completed') = n
        /\ \A i \in 1 .. n : completed'[i] = order[i + 1]
    BY <1>1, <1>2, <2>1, HeadTailProperties
  <2>3. \A i, j \in 1 .. Len(completed') : completed'[i] = completed'[j] => i = j
    <3> SUFFICES ASSUME NEW i \in 1 .. n, NEW j \in 1 .. n, order[i + 1] = order[j + 1]
                 PROVE  i = j
      BY <2>2
    <3>1. i + 1 \in 1 .. n + 1 /\ j + 1 \in 1 .. n + 1
      BY <1>1
    <3> QED BY <1>1, <1>3, <3>1
  <2>4. entries[completed[1]] \in Terminal
    BY <1>1, <2>1, <2>2 DEF Ordered
  <2>5. \A j \in Keys : entries'[j] = IF j = completed[1] THEN "absent" ELSE recorded[j]
    BY <2>1, <2>2 DEF TypeOK
  <2>6. \A j \in Keys : entries'[j] \in Terminal <=> \E i \in 1 .. Len(completed') : completed'[i] = j
    <3> SUFFICES ASSUME NEW j \in Keys
                 PROVE  entries'[j] \in Terminal <=> \E i \in 1 .. n : order[i + 1] = j
      BY <2>2
    <3>1. CASE j = completed[1]
      <4>1. "absent" \notin Terminal
        BY DEF Terminal
      <4>2. \A i \in 1 .. n : order[i + 1] # order[1]
        BY <1>1, <1>3
      <4> QED BY <2>2, <2>5, <3>1, <4>1, <4>2
    <3>2. CASE j # completed[1]
      <4>1. ASSUME NEW i \in 1 .. n + 1, order[i] = j
            PROVE  \E h \in 1 .. n : order[h + 1] = j
        <5>1. i - 1 \in 1 .. n /\ (i - 1) + 1 = i
          BY <1>1, <2>2, <3>2, <4>1
        <5> QED BY <4>1, <5>1
      <4>2. ASSUME NEW i \in 1 .. n, order[i + 1] = j
            PROVE  \E h \in 1 .. n + 1 : order[h] = j
        BY <1>1, <4>2
      <4> QED BY <1>4, <2>5, <3>2, <4>1, <4>2
    <3> QED BY <3>1, <3>2
  <2>7. Ordered'
    BY <1>1, <2>1, <2>2, <2>3, <2>6 DEF Ordered
  <2> QED BY <2>1, <2>2, <2>4, <2>5, <2>7 DEF TypeOK
<1>6. CASE ~(n + 1 > MaxRetained)
  <2>1. entries' = recorded /\ completed' = order
    BY <1>1, <1>6 DEF SetTerminal
  <2>2. Ordered'
    BY <1>1, <1>3, <1>4, <1>6, <2>1 DEF Ordered
  <2> QED BY <2>1, <2>2 DEF TypeOK
<1> QED BY <1>5, <1>6

-----------------------------------------------------------------------------
(* The story of a connection. *)

(* Steps that move no command keep every command in its place. *)
LEMMA SamePipe ==
  ASSUME UNCHANGED channel
  PROVE  /\ \A c \in Clients : InChannel(c)' <=> InChannel(c)
         /\ OnceInPipe /\ (current' = current \/ current' = None) => OnceInPipe'
BY OperationSets DEF InChannel, OnceInPipe, Operations, Work

(* The main thread touches neither connections nor outcomes. *)
LEMMA MainLeaves ==
  ASSUME Main
  PROVE  UNCHANGED <<at, key, reply, answer, hungUp, fate, entries, completed, ownerAt, current>>
BY DEF Main, MainRun, StartReturns, StartTimesOut, DropSender, Join, TryObserve, TryHotplug,
   BeginSuspend, BeginResume, BeginShutdown, PumpSubmits, DrainEvents, clientVars, store, ownerVars

(* It submits no commands either. *)
LEMMA MainStory ==
  ASSUME TypeOK, OnceInPipe, Stories, Main
  PROVE  OnceInPipe' /\ Stories' /\ \A c \in Clients : InChannel(c)' <=> InChannel(c)
<1>1. OnceInPipe' /\ \A c \in Clients : InChannel(c)' <=> InChannel(c)
  <2>1. CASE UNCHANGED channel
    BY <2>1, MainLeaves, SamePipe
  <2>2. ASSUME NEW op \in Operations \ Clients, Submit(op)
        PROVE  OnceInPipe' /\ \A c \in Clients : InChannel(c)' <=> InChannel(c)
    <3>1. CASE Enqueue(op)
      BY <2>2, <3>1, EnqueueEffect, MainLeaves
    <3>2. CASE Refuse(op)
      BY <2>1, <3>2, RefuseEffect
    <3> QED BY <2>2, <3>1, <3>2 DEF Submit
  <2> QED BY <2>1, <2>2, MainFrame
<1>2. Stories'
  BY <1>1, MainLeaves DEF Stories, Story, Early
<1> QED BY <1>1, <1>2

(* A client thread goes on with its story: it answers what is so, and only *)
(* a command that nobody has yet enters the channel.                       *)
LEMMA ClientStory ==
  ASSUME TypeOK, OnceInPipe, Stories, NEW d \in Clients, Client(d)
  PROVE  OnceInPipe' /\ Stories'
<1> USE DEF TypeOK, Goto, Answer
<1>1. ASSUME UNCHANGED channel
      PROVE  OnceInPipe' /\ \A c \in Clients : InChannel(c)' <=> InChannel(c)
  BY <1>1, ClientFrame, SamePipe
<1>2. CASE Reject(d) \/ \E k \in Keys : QueryOutcome(d, k)
  <2>1. UNCHANGED <<channel, current, ownerAt, key, reply, fate>> /\ at[d] = "reading"
    BY <1>2 DEF Reject, QueryOutcome, pipe, ownerVars
  <2>2. at' = [at EXCEPT ![d] = "closed"] /\ \E a : answer' = [answer EXCEPT ![d] = a]
    BY <1>2 DEF Reject, QueryOutcome
  <2> QED BY <1>1, <2>1, <2>2 DEF Stories, Story, Early
<1>3. CASE \E k \in Keys : RegisterCommand(d, k) \/ RegisterImmediate(d, k)
  <2>1. PICK k \in Keys, place \in {"registered", "reserved"} : ReserveKey(d, k, place)
    BY <1>3 DEF RegisterCommand, RegisterImmediate
  <2>2. UNCHANGED <<channel, current, ownerAt, reply, fate>> /\ at[d] = "reading"
    BY <2>1 DEF ReserveKey, pipe, ownerVars
  <2>3. CASE entries[k] = "absent"
    <3>1. /\ key' = [key EXCEPT ![d] = k] /\ at' = [at EXCEPT ![d] = place]
          /\ UNCHANGED answer
      BY <2>1, <2>3 DEF ReserveKey
    <3> QED BY <1>1, <2>2, <3>1 DEF Stories, Story, Early
  <2>4. CASE entries[k] # "absent"
    <3>1. /\ at' = [at EXCEPT ![d] = "closed"] /\ answer' = [answer EXCEPT ![d] = entries[k]]
          /\ UNCHANGED key
      BY <2>1, <2>4 DEF ReserveKey
    <3> QED BY <1>1, <2>2, <3>1 DEF Stories, Story, Early
  <2> QED BY <2>3, <2>4
<1>4. CASE SubmitCommand(d)
  <2>1. /\ UNCHANGED <<current, ownerAt, key, reply, answer, fate>>
        /\ at[d] = "registered"
        /\ ~InChannel(d) /\ current # d
    BY <1>4 DEF SubmitCommand, ownerVars, Stories, Story, Early
  <2>2. CASE Enqueue(d) /\ at' = [at EXCEPT ![d] = "waiting"]
    <3>1. OnceInPipe' /\ \A c \in Clients : InChannel(c)' <=> (InChannel(c) \/ c = d)
      BY <2>1, <2>2, EnqueueEffect, OperationSets
    <3> QED BY <2>1, <2>2, <3>1 DEF Stories, Story, Early
  <2>3. CASE Refuse(d) /\ at' = [at EXCEPT ![d] = "refused"]
    BY <1>1, <2>1, <2>3, RefuseEffect DEF Stories, Story, Early
  <2> QED BY <1>4, <2>2, <2>3 DEF SubmitCommand
<1>5. CASE WithdrawKey(d)
  BY <1>1, <1>5 DEF WithdrawKey, pipe, ownerVars, Stories, Story, Early
<1>6. CASE CommitImmediate(d)
  BY <1>1, <1>6 DEF CommitImmediate, pipe, ownerVars, Stories, Story, Early
<1>7. CASE CompleteImmediate(d)
  BY <1>1, <1>7 DEF CompleteImmediate, pipe, ownerVars, Stories, Story, Early
<1>8. CASE Relay(d)
  BY <1>1, <1>8 DEF Relay, pipe, ownerVars, Stories, Story, Early
<1>9. CASE GiveUp(d)
  BY <1>1, <1>9 DEF GiveUp, pipe, ownerVars, Stories, Story, Early
<1>10. CASE HangUp(d)
  BY <1>1, <1>10 DEF HangUp, pipe, ownerVars, Stories, Story, Early
<1> QED BY <1>2, <1>3, <1>4, <1>5, <1>6, <1>7, <1>8, <1>9, <1>10 DEF Client, ClientRun

(* The owner takes a command up, runs or drops it and answers, each once. *)
LEMMA OwnerStory ==
  ASSUME TypeOK, HandOK, OnceInPipe, Stories, Owner
  PROVE  OnceInPipe' /\ Stories'
<1> USE DEF TypeOK
<1>1. CASE Receive
  <2>1. /\ OnceInPipe'
        /\ \A c \in Clients : InChannel(c)' <=> (InChannel(c) /\ c # current')
        /\ current' \in Clients => InChannel(current')
    BY <1>1, ReceiveEffect
  <2>2. UNCHANGED <<at, key, reply, answer, fate>> /\ ownerAt = "idle" /\ ownerAt' = "received"
    BY <1>1 DEF Receive, clientVars
  <2> QED BY <2>1, <2>2 DEF Stories, Story, Early
<1>2. ASSUME ~Receive
      PROVE  /\ UNCHANGED <<channel, at, key, answer>>
             /\ current' = current \/ current' = None
             /\ OnceInPipe' /\ \A c \in Clients : InChannel(c)' <=> InChannel(c)
  <2>1. UNCHANGED <<channel, at, key, answer>> /\ (current' = current \/ current' = None)
    BY <1>2 DEF Owner, OwnerRun, OwnerQuiet, Boot, ReleaseSlot, DropDisconnected, DropExpired,
       StartCommand, ExecuteCommand, Maintain, RecordCompletion, SendTerminal, MoveBackend,
       FinishBarrier, Announce, CloseDisconnected, StopDisconnected, Panic, pipe, clientVars
  <2> QED BY <2>1, SamePipe
<1>3. CASE ~Receive /\ UNCHANGED <<reply, fate>>
  <2>1. ASSUME NEW c \in Clients, current' = c
        PROVE  /\ ownerAt' \in {"received", "dispatch", "running", "panicked"} =>
                    ownerAt \in {"received", "dispatch", "running", "panicked"}
               /\ ownerAt' = "recording" => ownerAt = "recording"
               /\ ownerAt' = "replying" => ownerAt \in {"recording", "replying"}
    <3>1. c \notin Lifecycle /\ c # None
      BY OperationSets
    <3>2. CASE Boot \/ ReleaseSlot \/ StartCommand \/ RecordCompletion
      BY <3>2 DEF Boot, ReleaseSlot, StartCommand, RecordCompletion
    <3>3. CASE \E effect \in BOOLEAN : ExecuteCommand(effect) \/ Maintain(effect)
      BY <1>3, <2>1, <3>1, <3>3 DEF ExecuteCommand, Maintain, HandOK, Stories, Story
    <3>4. CASE DropDisconnected \/ DropExpired \/ SendTerminal \/ Announce
      BY <1>3, <2>1, <3>1, <3>4 DEF DropDisconnected, DropExpired, SendTerminal, Announce,
         Stories, Story
    <3>5. CASE MoveBackend \/ FinishBarrier \/ CloseDisconnected \/ StopDisconnected \/ Panic
      BY <2>1, <3>1, <3>5 DEF HandOK, MoveBackend, FinishBarrier, CloseDisconnected,
         StopDisconnected, Panic
    <3> QED BY <1>3, <3>2, <3>3, <3>4, <3>5 DEF Owner, OwnerRun, OwnerQuiet
  <2> QED BY <1>2, <1>3, <2>1, OperationSets DEF Stories, Story, Early
<1>4. CASE DropDisconnected \/ DropExpired
  <2>1. /\ current \in Clients /\ ownerAt = "dispatch" /\ UNCHANGED reply
        /\ fate' = [fate EXCEPT ![current] = "dropped"]
        /\ ownerAt' \in {"idle", "replying"}
    BY <1>4 DEF DropDisconnected, DropExpired, clientVars
  <2>2. ~Receive
    BY <2>1 DEF Receive
  <2>3. ASSUME NEW c \in Clients PROVE Story(c)'
    <3>1. CASE c = current
      BY <1>2, <2>1, <2>2, <3>1, OperationSets DEF OnceInPipe, Stories, Story, Early
    <3>2. CASE c # current
      BY <1>2, <2>1, <2>2, <3>2, OperationSets DEF Stories, Story, Early
    <3> QED BY <3>1, <3>2
  <2> QED BY <1>2, <2>2, <2>3 DEF Stories
<1>5. CASE \E effect \in BOOLEAN : ExecuteCommand(effect)
  <2>1. /\ current \in Clients /\ ownerAt = "running" /\ UNCHANGED <<reply, current>>
        /\ fate' = [fate EXCEPT ![current] = "ran"]
        /\ ownerAt' = "recording"
    BY <1>5 DEF ExecuteCommand, clientVars, HandOK
  <2>2. ~Receive
    BY <2>1 DEF Receive
  <2>3. ASSUME NEW c \in Clients PROVE Story(c)'
    <3>1. CASE c = current
      BY <1>2, <2>1, <2>2, <3>1 DEF OnceInPipe, Stories, Story, Early
    <3>2. CASE c # current
      BY <1>2, <2>1, <2>2, <3>2 DEF Stories, Story, Early
    <3> QED BY <3>1, <3>2
  <2> QED BY <1>2, <2>2, <2>3 DEF Stories
<1>6. CASE SendTerminal
  BY <1>2, <1>6, OperationSets DEF SendTerminal, Receive, HandOK, Stories, Story, Early
<1>7. CASE ~(DropDisconnected \/ DropExpired \/ SendTerminal \/ Receive
             \/ \E effect \in BOOLEAN : ExecuteCommand(effect))
  <2>1. UNCHANGED <<reply, fate>>
    BY <1>7 DEF Owner, OwnerRun, OwnerQuiet, Boot, ReleaseSlot, StartCommand, Maintain,
       RecordCompletion, MoveBackend, FinishBarrier, Announce, CloseDisconnected,
       StopDisconnected, Panic, clientVars
  <2> QED BY <1>3, <1>7, <2>1
<1> QED BY <1>1, <1>4, <1>5, <1>6, <1>7

-----------------------------------------------------------------------------
(* The entries and their carriers. *)

(* A carrier is a thread with a reserved key, or a command in one place. *)
LEMMA CarriesIs ==
  ASSUME NEW c \in Clients
  PROVE  Carries(c) <=>
           \/ at[c] \in {"registered", "refused", "reserved", "committed"}
           \/ InChannel(c)
           \/ current = c /\ ownerAt \in {"received", "dispatch", "running", "recording", "panicked"}
BY DEF Carries, Queueing, Running, InChannel

(* It carries a key. *)
LEMMA CarrierKey ==
  ASSUME TypeOK, KeysHeld, NEW c \in Clients, Carries(c)
  PROVE  key[c] \in Keys
BY CarriesIs DEF KeysHeld, InChannel

(* Steps that leave the entries alone and carry on. *)
LEMMA CarriedOn ==
  ASSUME Carried, UNCHANGED <<entries, key>>,
         \A c \in Clients : (Carries(c)' <=> Carries(c)) /\ (Running(c)' <=> Running(c))
  PROVE  Carried'
BY DEF Carried

(* A carrier that settles its key stops carrying it. *)
LEMMA CarriedToTheEnd ==
  ASSUME TypeOK, KeysHeld, Carried, Ordered, UNCHANGED key,
         NEW d \in Clients, Carries(d), NEW o \in Terminal, SetTerminal(key[d], o),
         \A c \in Clients : (Carries(c)' <=> Carries(c) /\ c # d) /\ (c # d => (Running(c)' <=> Running(c)))
  PROVE  Carried' /\ Ordered'
<1>1. key[d] \in Keys /\ entries[key[d]] \notin Terminal
  BY CarrierKey DEF Carried, Terminal
<1>2. /\ Ordered'
      /\ entries'[key[d]] = o
      /\ \A j \in Keys \ {key[d]} :
           entries'[j] = entries[j] \/ (entries[j] \in Terminal /\ entries'[j] = "absent")
  BY <1>1, SettleEffect
<1>3. o \notin {"Queued", "Started"}
  BY DEF Terminal
<1>4. ASSUME NEW c \in Clients, Carries(c)'
      PROVE  entries'[key[c]] = IF Running(c)' THEN "Started" ELSE "Queued"
  <2>1. Carries(c) /\ c # d /\ key[c] # key[d] /\ key[c] \in Keys
    BY <1>4, CarrierKey DEF Carried
  <2>2. entries[key[c]] = (IF Running(c) THEN "Started" ELSE "Queued")
    BY <2>1 DEF Carried
  <2>3. entries'[key[c]] = entries[key[c]]
    BY <1>2, <2>1, <2>2 DEF Terminal
  <2> QED BY <2>1, <2>2, <2>3
<1>5. ASSUME NEW k \in Keys, entries'[k] \in {"Queued", "Started"}
      PROVE  \E c \in Clients : key'[c] = k /\ Carries(c)'
  <2>1. k # key[d] /\ entries[k] \in {"Queued", "Started"}
    BY <1>2, <1>3, <1>5
  <2> QED BY <2>1 DEF Carried
<1> QED BY <1>2, <1>4, <1>5 DEF Carried

(* What was said stays true while no history is rewritten. *)
LEMMA TruthKept ==
  ASSUME OutcomesTellTheTruth, NEW k \in Keys, entries'[k] = entries[k],
         \A c \in Clients : fate[c] # "none" => fate'[c] = fate[c] /\ key'[c] = key[c]
  PROVE  entries'[k] \in Terminal =>
           \E c \in Clients : /\ key'[c] = k
                              /\ IF entries'[k] = "Completed"
                                 THEN fate'[c] \in {"ran", "committed"}
                                 ELSE fate'[c] = "dropped"
<1> SUFFICES ASSUME entries[k] \in Terminal
             PROVE  \E c \in Clients : /\ key'[c] = k
                                       /\ IF entries[k] = "Completed"
                                          THEN fate'[c] \in {"ran", "committed"}
                                          ELSE fate'[c] = "dropped"
  OBVIOUS
<1>1. PICK c \in Clients : /\ key[c] = k
                           /\ IF entries[k] = "Completed"
                              THEN fate[c] \in {"ran", "committed"}
                              ELSE fate[c] = "dropped"
  BY DEF OutcomesTellTheTruth
<1>2. fate[c] # "none"
  BY <1>1
<1> QED BY <1>1, <1>2

(* A settlement is true when what it says has become of its carrier has. *)
LEMMA TruthTold ==
  ASSUME TypeOK, KeysHeld, Carried, Ordered, OutcomesTellTheTruth, UNCHANGED key,
         NEW d \in Clients, Carries(d), NEW o \in Terminal, SetTerminal(key[d], o),
         \A c \in Clients : fate[c] # "none" => fate'[c] = fate[c],
         IF o = "Completed" THEN fate'[d] \in {"ran", "committed"} ELSE fate'[d] = "dropped"
  PROVE  OutcomesTellTheTruth'
<1>1. key[d] \in Keys /\ entries[key[d]] \notin Terminal
  BY CarrierKey DEF Carried, Terminal
<1>2. /\ entries'[key[d]] = o
      /\ \A j \in Keys \ {key[d]} : entries'[j] = entries[j] \/ entries'[j] = "absent"
  BY <1>1, SettleEffect
<1>3. "absent" \notin Terminal
  BY DEF Terminal
<1>4. ASSUME NEW k \in Keys, entries'[k] \in Terminal
      PROVE  \E c \in Clients : /\ key'[c] = k
                                /\ IF entries'[k] = "Completed"
                                   THEN fate'[c] \in {"ran", "committed"}
                                   ELSE fate'[c] = "dropped"
  <2>1. CASE k = key[d]
    BY <1>2, <2>1
  <2>2. CASE k # key[d]
    BY <1>2, <1>3, <1>4, <2>2, TruthKept
  <2> QED BY <2>1, <2>2
<1> QED BY <1>4 DEF OutcomesTellTheTruth

(* A client thread takes up a free key, hands it on or settles it. *)
LEMMA ClientStore ==
  ASSUME TypeOK, KeysHeld, StoreInv, NEW d \in Clients, Client(d)
  PROVE  Carried' /\ Ordered' /\ OutcomesTellTheTruth'
<1> USE DEF Goto, Answer
<1>1. UNCHANGED <<ownerAt, current>>
  BY ClientFrame
<1>2. \A c \in Clients : Running(c)' <=> Running(c)
  BY <1>1 DEF Running
<1>3. \A c \in Clients : Carries(c)' <=>
        \/ at'[c] \in {"registered", "refused", "reserved", "committed"}
        \/ InChannel(c)'
        \/ current = c /\ ownerAt \in {"received", "dispatch", "running", "recording", "panicked"}
  BY <1>1 DEF Carries, Queueing, Running, InChannel
<1>4. at \in [Clients -> ClientPlaces]
  BY DEF TypeOK
<1>5. ASSUME UNCHANGED <<entries, completed, key>>,
             \A c \in Clients : fate[c] # "none" => fate'[c] = fate[c],
             \A c \in Clients : Carries(c)' <=> Carries(c)
      PROVE  Carried' /\ Ordered' /\ OutcomesTellTheTruth'
  BY <1>2, <1>5, CarriedOn, TruthKept DEF StoreInv, Ordered, OutcomesTellTheTruth
<1>6. ASSUME UNCHANGED channel
      PROVE  \A c \in Clients : InChannel(c)' <=> InChannel(c)
  BY <1>6, SamePipe
<1>7. ASSUME UNCHANGED <<channel, entries, completed, key, fate>>, at' = [at EXCEPT ![d] = "closed"],
             at[d] \in {"reading", "waiting"}
      PROVE  Carried' /\ Ordered' /\ OutcomesTellTheTruth'
  BY <1>3, <1>4, <1>5, <1>6, <1>7, CarriesIs
<1>8. CASE Reject(d) \/ Relay(d) \/ GiveUp(d) \/ \E k \in Keys : QueryOutcome(d, k)
  BY <1>7, <1>8 DEF Reject, Relay, GiveUp, QueryOutcome, pipe, store
<1>9. CASE HangUp(d)
  BY <1>3, <1>5, <1>6, <1>9, CarriesIs DEF HangUp, pipe, store
<1>10. CASE \E k \in Keys : RegisterCommand(d, k) \/ RegisterImmediate(d, k)
  <2>1. PICK k \in Keys, place \in {"registered", "reserved"} : ReserveKey(d, k, place)
    BY <1>10 DEF RegisterCommand, RegisterImmediate
  <2>2. UNCHANGED <<channel, fate>> /\ at[d] = "reading"
    BY <2>1 DEF ReserveKey, pipe
  <2>3. CASE entries[k] = "absent"
    <3>1. /\ key' = [key EXCEPT ![d] = k] /\ at' = [at EXCEPT ![d] = place]
          /\ entries' = [entries EXCEPT ![k] = "Queued"] /\ UNCHANGED completed
      BY <2>1, <2>3 DEF ReserveKey, Register
    <3>2. ~Carries(d) /\ ~Running(d) /\ fate[d] = "none"
      BY <2>2, CarriesIs DEF StoreInv, Stories, Story, Early, Running
    <3>3. \A c \in Clients : Carries(c)' <=> Carries(c) \/ c = d
      BY <1>3, <1>4, <1>6, <2>2, <3>1, CarriesIs
    <3>4. \A c \in Clients : Carries(c) => key[c] # k /\ key[c] \in Keys /\ c # d
      BY <2>3, <3>2, CarrierKey DEF StoreInv, Carried
    <3>5. /\ key'[d] = k /\ \A c \in Clients : c # d => key'[c] = key[c]
          /\ entries'[k] = "Queued" /\ \A j \in Keys : j # k => entries'[j] = entries[j]
      BY <3>1 DEF TypeOK
    <3>6. Carried'
      <4>1. ASSUME NEW c \in Clients, NEW e \in Clients, Carries(c)', Carries(e)', key'[c] = key'[e]
            PROVE  c = e
        BY <3>3, <3>4, <3>5, <4>1 DEF StoreInv, Carried
      <4>2. ASSUME NEW c \in Clients, Carries(c)'
            PROVE  entries'[key'[c]] = IF Running(c)' THEN "Started" ELSE "Queued"
        BY <1>2, <3>2, <3>3, <3>4, <3>5, <4>2 DEF StoreInv, Carried
      <4>3. ASSUME NEW j \in Keys, entries'[j] \in {"Queued", "Started"}
            PROVE  \E c \in Clients : key'[c] = j /\ Carries(c)'
        <5>1. CASE j = k
          BY <3>3, <3>5, <5>1
        <5>2. CASE j # k
          <6>1. PICK c \in Clients : key[c] = j /\ Carries(c)
            BY <3>5, <4>3, <5>2 DEF StoreInv, Carried
          <6> QED BY <3>3, <3>4, <3>5, <6>1
        <5> QED BY <5>1, <5>2
      <4> QED BY <4>1, <4>2, <4>3 DEF Carried
    <3>7. Ordered'
      BY <2>3, <3>1, <3>5 DEF StoreInv, Ordered, Terminal
    <3>8. \A c \in Clients : fate[c] # "none" => fate'[c] = fate[c] /\ key'[c] = key[c]
      BY <2>2, <3>2, <3>5
    <3>9. OutcomesTellTheTruth'
      <4>1. ASSUME NEW j \in Keys, entries'[j] \in Terminal
            PROVE  entries'[j] = entries[j]
        BY <3>5, <4>1 DEF Terminal
      <4> QED BY <3>8, <4>1, TruthKept DEF StoreInv, OutcomesTellTheTruth
    <3> QED BY <3>6, <3>7, <3>9
  <2>4. CASE entries[k] # "absent"
    BY <1>7, <2>1, <2>2, <2>4 DEF ReserveKey, store
  <2> QED BY <2>3, <2>4
<1>11. CASE SubmitCommand(d)
  <2>1. UNCHANGED <<entries, completed, key, fate>> /\ at[d] = "registered" /\ ~InChannel(d) /\ current # d
    BY <1>11 DEF SubmitCommand, store, StoreInv, Stories, Story, Early
  <2>2. CASE Enqueue(d) /\ at' = [at EXCEPT ![d] = "waiting"]
    <3>1. \A c \in Clients : InChannel(c)' <=> (InChannel(c) \/ c = d)
      BY <1>1, <2>1, <2>2, EnqueueEffect, OperationSets DEF StoreInv
    <3> QED BY <1>3, <1>4, <1>5, <2>1, <2>2, <3>1, CarriesIs
  <2>3. CASE Refuse(d) /\ at' = [at EXCEPT ![d] = "refused"]
    BY <1>3, <1>4, <1>5, <2>1, <2>3, RefuseEffect, CarriesIs
  <2> QED BY <1>11, <2>2, <2>3 DEF SubmitCommand
<1>12. CASE WithdrawKey(d)
  <2>1. /\ UNCHANGED <<channel, completed, key, fate>> /\ at[d] = "refused"
        /\ at' = [at EXCEPT ![d] = "closed"]
        /\ entries' = [entries EXCEPT ![key[d]] = "absent"]
        /\ ~InChannel(d) /\ current # d
    BY <1>12 DEF WithdrawKey, Remove, pipe, StoreInv, Stories, Story, Early
  <2>2. Carries(d) /\ key[d] \in Keys
    BY <2>1, CarriesIs, CarrierKey
  <2>3. \A c \in Clients : Carries(c)' <=> Carries(c) /\ c # d
    BY <1>3, <1>4, <1>6, <2>1, CarriesIs
  <2>4. \A k \in Keys : entries'[k] = IF k = key[d] THEN "absent" ELSE entries[k]
    BY <2>1, <2>2 DEF TypeOK
  <2>5. entries[key[d]] \notin Terminal
    BY <2>2 DEF StoreInv, Carried, Terminal
  <2>6. Carried'
    <3>1. ASSUME NEW c \in Clients, Carries(c)'
          PROVE  entries'[key[c]] = IF Running(c)' THEN "Started" ELSE "Queued"
      <4>1. Carries(c) /\ c # d /\ key[c] # key[d] /\ key[c] \in Keys
        BY <2>2, <2>3, <3>1, CarrierKey DEF StoreInv, Carried
      <4> QED BY <1>2, <2>4, <4>1 DEF StoreInv, Carried
    <3>2. ASSUME NEW k \in Keys, entries'[k] \in {"Queued", "Started"}
          PROVE  \E c \in Clients : key'[c] = k /\ Carries(c)'
      <4>1. k # key[d] /\ entries[k] \in {"Queued", "Started"}
        BY <2>4, <3>2
      <4>2. PICK c \in Clients : key[c] = k /\ Carries(c)
        BY <4>1 DEF StoreInv, Carried
      <4> QED BY <2>1, <2>3, <4>1, <4>2
    <3>3. \A c, e \in Clients : Carries(c)' /\ Carries(e)' /\ key'[c] = key'[e] => c = e
      BY <2>1, <2>3 DEF StoreInv, Carried
    <3> QED BY <2>1, <3>1, <3>2, <3>3 DEF Carried
  <2>7. "absent" \notin Terminal
    BY DEF Terminal
  <2>8. Ordered'
    BY <2>1, <2>4, <2>5, <2>7 DEF StoreInv, Ordered
  <2>9. OutcomesTellTheTruth'
    <3>1. ASSUME NEW k \in Keys, entries'[k] \in Terminal
          PROVE  entries'[k] = entries[k]
      BY <2>4, <2>7, <3>1
    <3> QED BY <2>1, <3>1, TruthKept DEF StoreInv, OutcomesTellTheTruth
  <2> QED BY <2>6, <2>8, <2>9
<1>13. CASE CommitImmediate(d)
  <2>1. /\ UNCHANGED <<channel, entries, completed, key>> /\ at[d] = "reserved"
        /\ at' = [at EXCEPT ![d] = "committed"]
        /\ fate' = [fate EXCEPT ![d] = "committed"] /\ fate[d] = "none"
    BY <1>13 DEF CommitImmediate, pipe, store, StoreInv, Stories, Story
  <2>2. \A c \in Clients : fate[c] # "none" => fate'[c] = fate[c]
    BY <2>1 DEF TypeOK
  <2> QED BY <1>3, <1>4, <1>5, <1>6, <2>1, <2>2, CarriesIs
<1>14. CASE CompleteImmediate(d)
  <2>1. /\ UNCHANGED <<channel, key, fate>> /\ at[d] = "committed"
        /\ at' = [at EXCEPT ![d] = "closed"]
        /\ SetTerminal(key[d], "Completed") /\ "Completed" \in Terminal
        /\ ~InChannel(d) /\ current # d /\ fate[d] = "committed"
    BY <1>14 DEF CompleteImmediate, pipe, Terminal, StoreInv, Stories, Story, Early
  <2>2. \A c \in Clients : Carries(c)' <=> Carries(c) /\ c # d
    BY <1>3, <1>4, <1>6, <2>1, CarriesIs
  <2>3. Carries(d)
    BY <2>1, CarriesIs
  <2>4. Carried' /\ Ordered'
    BY <1>2, <2>1, <2>2, <2>3, CarriedToTheEnd DEF StoreInv
  <2>5. OutcomesTellTheTruth'
    BY <2>1, <2>3, TruthTold DEF StoreInv
  <2> QED BY <2>4, <2>5
<1> QED BY <1>8, <1>9, <1>10, <1>11, <1>12, <1>13, <1>14 DEF Client, ClientRun

(* The owner starts what it has in hand, and settles it once. *)
LEMMA OwnerStore ==
  ASSUME TypeOK, HandOK, KeysHeld, StoreInv, Owner
  PROVE  Carried' /\ Ordered' /\ OutcomesTellTheTruth'
<1>1. UNCHANGED <<at, key>>
  BY DEF Owner, OwnerRun, OwnerQuiet, Boot, Receive, ReleaseSlot, DropDisconnected, DropExpired,
     StartCommand, ExecuteCommand, Maintain, RecordCompletion, SendTerminal, MoveBackend,
     FinishBarrier, Announce, CloseDisconnected, StopDisconnected, Panic, clientVars
<1>2. /\ \A c \in Clients : Running(c)' <=> current' = c /\ ownerAt' \in {"running", "recording", "panicked"}
      /\ \A c \in Clients : Carries(c)' <=>
           \/ at[c] \in {"registered", "refused", "reserved", "committed"}
           \/ InChannel(c)'
           \/ current' = c /\ ownerAt' \in {"received", "dispatch", "running", "recording", "panicked"}
  BY <1>1 DEF Carries, Queueing, Running, InChannel
<1>3. ASSUME UNCHANGED <<entries, completed>>,
             \A c \in Clients : fate[c] # "none" => fate'[c] = fate[c],
             \A c \in Clients : (Carries(c)' <=> Carries(c)) /\ (Running(c)' <=> Running(c))
      PROVE  Carried' /\ Ordered' /\ OutcomesTellTheTruth'
  BY <1>1, <1>3, CarriedOn, TruthKept DEF StoreInv, Ordered, OutcomesTellTheTruth
<1>4. ASSUME UNCHANGED channel
      PROVE  \A c \in Clients : InChannel(c)' <=> InChannel(c)
  BY <1>4, SamePipe
(* The carrier in hand: its thread has handed it over, and it is nowhere else. *)
<1>5. ASSUME current \in Clients, ownerAt \in {"received", "dispatch", "running", "recording"}
      PROVE  /\ Carries(current) /\ ~InChannel(current) /\ key[current] \in Keys
             /\ at[current] \notin {"registered", "refused", "reserved", "committed"}
  BY <1>5, CarriesIs, CarrierKey DEF StoreInv, Stories, Story, Early, OnceInPipe
<1>6. CASE Receive
  <2>1. /\ \A c \in Clients : InChannel(c)' <=> (InChannel(c) /\ c # current')
        /\ current' \in Clients => InChannel(current')
    BY <1>6, ReceiveEffect DEF StoreInv
  <2>2. UNCHANGED <<entries, completed, fate>> /\ ownerAt = "idle" /\ ownerAt' = "received"
    BY <1>6 DEF Receive, store
  <2> QED BY <1>1, <1>2, <1>3, <2>1, <2>2, CarriesIs DEF Running
<1>7. CASE Boot \/ ReleaseSlot \/ MoveBackend \/ FinishBarrier \/ Announce \/ SendTerminal
           \/ CloseDisconnected \/ StopDisconnected \/ Panic
           \/ \E effect \in BOOLEAN : Maintain(effect)
  <2>1. UNCHANGED <<channel, entries, completed, fate>>
    BY <1>7 DEF Boot, ReleaseSlot, MoveBackend, FinishBarrier, Announce, SendTerminal,
       CloseDisconnected, StopDisconnected, Panic, Maintain, pipe, store
  <2>2. ASSUME NEW c \in Clients
        PROVE  /\ (current' = c /\ ownerAt' \in {"received", "dispatch", "running", "recording", "panicked"})
                   <=> (current = c /\ ownerAt \in {"received", "dispatch", "running", "recording", "panicked"})
               /\ (current' = c /\ ownerAt' \in {"running", "recording", "panicked"})
                   <=> (current = c /\ ownerAt \in {"running", "recording", "panicked"})
    <3>1. c \notin Lifecycle /\ c \notin Maintenance /\ c # None
      BY OperationSets, NamesAssumption DEF Operations, Work
    <3>2. CASE Boot \/ ReleaseSlot \/ SendTerminal \/ CloseDisconnected \/ StopDisconnected \/ Panic
      BY <3>1, <3>2 DEF HandOK, Boot, ReleaseSlot, SendTerminal, CloseDisconnected, StopDisconnected, Panic
    <3>3. CASE MoveBackend \/ FinishBarrier \/ Announce \/ \E effect \in BOOLEAN : Maintain(effect)
      BY <3>1, <3>3 DEF HandOK, MoveBackend, FinishBarrier, Announce, Maintain, Barriers, Lifecycle
    <3> QED BY <1>7, <3>2, <3>3
  <2>3. \A c \in Clients : (Carries(c)' <=> Carries(c)) /\ (Running(c)' <=> Running(c))
    BY <1>1, <1>2, <1>4, <2>1, <2>2, CarriesIs DEF Running
  <2> QED BY <1>3, <2>1, <2>3
<1>8. CASE StartCommand
  <2>1. /\ UNCHANGED <<channel, completed, fate, current>> /\ current \in Clients
        /\ ownerAt = "dispatch" /\ ownerAt' = "running"
        /\ entries' = [entries EXCEPT ![key[current]] = IF @ = "absent" THEN @ ELSE "Started"]
    BY <1>8 DEF StartCommand, SetStarted, pipe
  <2>2. Carries(current) /\ key[current] \in Keys /\ entries[key[current]] = "Queued"
    BY <1>5, <2>1 DEF StoreInv, Carried, Running
  <2>3. \A k \in Keys : entries'[k] = IF k = key[current] THEN "Started" ELSE entries[k]
    BY <2>1, <2>2 DEF TypeOK
  <2>4. /\ \A c \in Clients : Carries(c)' <=> Carries(c)
        /\ \A c \in Clients : Running(c)' <=> c = current
    BY <1>1, <1>2, <1>4, <2>1, CarriesIs
  <2>5. \A c \in Clients : ~Running(c)
    BY <2>1 DEF Running
  <2>6. Carried'
    <3>1. ASSUME NEW c \in Clients, Carries(c)'
          PROVE  entries'[key[c]] = IF Running(c)' THEN "Started" ELSE "Queued"
      <4>1. Carries(c) /\ key[c] \in Keys /\ (key[c] = key[current] => c = current)
        BY <2>1, <2>2, <2>4, <3>1, CarrierKey DEF StoreInv, Carried
      <4> QED BY <2>3, <2>4, <2>5, <4>1 DEF StoreInv, Carried
    <3>2. ASSUME NEW k \in Keys, entries'[k] \in {"Queued", "Started"}
          PROVE  \E c \in Clients : key[c] = k /\ Carries(c)'
      BY <2>1, <2>2, <2>3, <2>4, <3>2 DEF StoreInv, Carried
    <3> QED BY <1>1, <2>4, <3>1, <3>2 DEF StoreInv, Carried
  <2>7. Ordered'
    BY <2>1, <2>2, <2>3 DEF StoreInv, Ordered, Terminal
  <2>8. OutcomesTellTheTruth'
    <3>1. ASSUME NEW k \in Keys, entries'[k] \in Terminal
          PROVE  entries'[k] = entries[k]
      BY <2>3, <3>1 DEF Terminal
    <3> QED BY <1>1, <2>1, <3>1, TruthKept DEF StoreInv, OutcomesTellTheTruth
  <2> QED BY <2>6, <2>7, <2>8
<1>9. CASE \E effect \in BOOLEAN : ExecuteCommand(effect)
  <2>1. /\ UNCHANGED <<channel, entries, completed, current>> /\ current \in Clients
        /\ ownerAt = "running" /\ ownerAt' = "recording"
        /\ fate' = [fate EXCEPT ![current] = "ran"] /\ fate[current] = "none"
    BY <1>9 DEF ExecuteCommand, HandOK, pipe, store, StoreInv, Stories, Story
  <2>2. \A c \in Clients : fate[c] # "none" => fate'[c] = fate[c]
    BY <2>1 DEF TypeOK
  <2> QED BY <1>1, <1>2, <1>3, <1>4, <2>1, <2>2, CarriesIs DEF Running
<1>10. CASE DropDisconnected \/ DropExpired \/ RecordCompletion
  <2>1. PICK o \in Terminal :
          /\ SetTerminal(key[current], o) /\ UNCHANGED channel
          /\ current \in Clients /\ ownerAt \in {"dispatch", "recording"}
          /\ \/ ownerAt' = "idle" /\ current' = None
             \/ ownerAt' = "replying" /\ current' = current
          /\ IF o = "Completed"
             THEN fate[current] = "ran" /\ UNCHANGED fate
             ELSE fate' = [fate EXCEPT ![current] = "dropped"] /\ fate[current] = "none"
    <3>1. CASE DropDisconnected
      <4>1. current \in Clients
        BY <3>1 DEF DropDisconnected, TypeOK
      <4>2. "Disconnected" \in Terminal
        BY DEF Terminal
      <4>3. fate[current] = "none"
        BY <3>1, <4>1 DEF DropDisconnected, StoreInv, Stories, Story
      <4> QED BY <3>1, <4>1, <4>2, <4>3 DEF DropDisconnected, pipe
    <3>2. CASE DropExpired
      BY <3>2 DEF DropExpired, Terminal, pipe, StoreInv, Stories, Story
    <3>3. CASE RecordCompletion
      BY <3>3 DEF RecordCompletion, HandOK, Terminal, pipe, StoreInv, Stories, Story
    <3> QED BY <1>10, <3>1, <3>2, <3>3
  <2>2. /\ \A c \in Clients : fate[c] # "none" => fate'[c] = fate[c]
        /\ IF o = "Completed" THEN fate'[current] \in {"ran", "committed"} ELSE fate'[current] = "dropped"
    BY <2>1 DEF TypeOK
  <2>3. Carries(current)
    BY <1>5, <2>1
  <2>4. \A c \in Clients : (Carries(c)' <=> Carries(c) /\ c # current)
                           /\ (c # current => (Running(c)' <=> Running(c)))
    <3>1. \A c \in Clients : c # None
      BY OperationSets
    <3>2. \A c \in Clients : Carries(c)' <=>
            at[c] \in {"registered", "refused", "reserved", "committed"} \/ InChannel(c)
      BY <1>2, <1>4, <2>1, <3>1
    <3> QED BY <1>2, <1>5, <2>1, <3>1, <3>2, CarriesIs DEF Running
  <2>5. Carried' /\ Ordered'
    BY <1>1, <2>1, <2>3, <2>4, CarriedToTheEnd DEF StoreInv
  <2>6. OutcomesTellTheTruth'
    BY <1>1, <2>1, <2>2, <2>3, TruthTold DEF StoreInv
  <2> QED BY <2>5, <2>6
<1> QED BY <1>6, <1>7, <1>8, <1>9, <1>10 DEF Owner, OwnerRun, OwnerQuiet

-----------------------------------------------------------------------------
(* The inductive invariant. *)
LEMMA StoreInvariance == Spec => []StoreInv
<1>1. Init => StoreInv
  <2> SUFFICES ASSUME Init PROVE StoreInv
    OBVIOUS
  <2>1. /\ \A c \in Clients : ~InChannel(c) /\ ~Queueing(c) /\ current # c
        /\ OnceInPipe
    BY EmptySeq, OperationSets DEF Init, InChannel, Queueing, OnceInPipe
  <2>2. Stories
    BY <2>1 DEF Init, Stories, Story, Early
  <2>3. Carried
    BY <2>1 DEF Init, Carried, Carries, Running
  <2>4. Ordered /\ OutcomesTellTheTruth
    <3>1. Len(completed) = 0 /\ \A k \in Keys : entries[k] \notin Terminal
      BY EmptySeq DEF Init, Terminal
    <3> QED BY <3>1, SizesAssumption DEF Ordered, OutcomesTellTheTruth
  <2> QED BY <2>1, <2>2, <2>3, <2>4 DEF StoreInv
<1>2. IInv /\ StoreInv /\ [Next]_vars => StoreInv'
  <2> SUFFICES ASSUME IInv, StoreInv, [Next]_vars PROVE StoreInv'
    OBVIOUS
  <2> USE DEF IInv, StoreInv
  <2>1. CASE Owner
    BY <2>1, OwnerStory, OwnerStore
  <2>2. CASE Main
    <3>1. OnceInPipe' /\ Stories' /\ \A c \in Clients : InChannel(c)' <=> InChannel(c)
      BY <2>2, MainStory
    <3>2. UNCHANGED <<at, key, reply, answer, hungUp, fate, entries, completed, ownerAt, current>>
      BY <2>2, MainLeaves
    <3>3. \A c \in Clients : (Carries(c)' <=> Carries(c)) /\ (Running(c)' <=> Running(c))
      BY <3>1, <3>2 DEF Carries, Running, Queueing, InChannel
    <3>4. Carried'
      BY <3>2, <3>3, CarriedOn
    <3>5. Ordered' /\ OutcomesTellTheTruth'
      BY <3>2 DEF Ordered, OutcomesTellTheTruth
    <3> QED BY <3>1, <3>4, <3>5
  <2>3. ASSUME NEW d \in Clients, Client(d) PROVE StoreInv'
    BY <2>3, ClientStory, ClientStore
  <2>4. CASE UNCHANGED vars
    BY <2>4 DEF vars, admission, pipe, ownerVars, store, clientVars, OnceInPipe, Stories, Story, Early,
       Carried, Carries, Queueing, Running, InChannel, Ordered, OutcomesTellTheTruth
  <2> QED BY <2>1, <2>2, <2>3, <2>4 DEF Next
<1> QED BY <1>1, <1>2, Invariance, PTL DEF Spec

-----------------------------------------------------------------------------
(* What follows of outcomes and refusals. *)

(* The store agrees with the threads about every key, whatever races there *)
(* are between registration, submission, withdrawal, the owner and the     *)
(* eviction of old outcomes.                                               *)
THEOREM StoreAlwaysAgrees == Spec => []StoreAgrees
<1>1. IInv /\ StoreInv => StoreAgrees
  <2> SUFFICES ASSUME IInv, StoreInv, NEW k \in Keys
               PROVE  LET carriers == {c \in Clients : key[c] = k /\ Carries(c)}
                          settled  == {i \in 1 .. Len(completed) : completed[i] = k}
                      IN  /\ \A c, d \in carriers : c = d
                          /\ (carriers # {}) <=> (entries[k] \in {"Queued", "Started"})
                          /\ (entries[k] = "Started") <=> (\E c \in carriers : Running(c))
                          /\ \A i, j \in settled : i = j
                          /\ (settled # {}) <=> (entries[k] \in Terminal)
    BY DEF StoreAgrees
  <2> DEFINE carriers == {c \in Clients : key[c] = k /\ Carries(c)}
             settled  == {i \in 1 .. Len(completed) : completed[i] = k}
  <2>1. \A c, d \in carriers : c = d
    BY DEF StoreInv, Carried
  <2>2. \A c \in carriers : entries[k] = IF Running(c) THEN "Started" ELSE "Queued"
    BY DEF StoreInv, Carried
  <2>3. entries[k] \in {"Queued", "Started"} => carriers # {}
    BY DEF StoreInv, Carried
  <2>4. (carriers # {}) <=> (entries[k] \in {"Queued", "Started"})
    BY <2>2, <2>3
  <2>5. (entries[k] = "Started") <=> (\E c \in carriers : Running(c))
    BY <2>2, <2>3
  <2>6. /\ \A i, j \in settled : i = j
        /\ (settled # {}) <=> (entries[k] \in Terminal)
    BY DEF StoreInv, Ordered
  <2> QED BY <2>1, <2>4, <2>5, <2>6
<1> QED BY <1>1, Invariance, StoreInvariance, PTL

(* A client told Rejected or Expired may send its request again: it has    *)
(* not been run and is nowhere on its way to the hardware.                 *)
THEOREM RefusalsAreTrue == Spec => []RefusedNeverRuns
<1>1. StoreInv => RefusedNeverRuns
  BY DEF StoreInv, Stories, Story, RefusedNeverRuns, Queueing, Running, InChannel
<1> QED BY <1>1, StoreInvariance, PTL

(* A terminal outcome is what has become of a request with its key. *)
THEOREM OutcomesAreTrue == Spec => []OutcomesTellTheTruth
<1>1. StoreInv => OutcomesTellTheTruth
  BY DEF StoreInv
<1> QED BY <1>1, StoreInvariance, PTL

(* An outcome once recorded is only ever forgotten, as the oldest one of a *)
(* full store.                                                             *)
THEOREM OutcomesAreFinal == Spec => TerminalIsFinal
<1> DEFINE Final == \A k \in Keys : entries[k] \in Terminal /\ entries'[k] # entries[k] =>
                      entries'[k] = "absent" /\ Len(completed) = MaxRetained /\ k = completed[1]
<1>1. IInv /\ StoreInv /\ [Next]_vars => [Final]_vars
  <2> SUFFICES ASSUME IInv, StoreInv, Next PROVE Final
    BY DEF vars, store
  <2>1. ASSUME NEW d \in Clients, Carries(d), NEW o \in Terminal, SetTerminal(key[d], o)
        PROVE  Final
    <3>1. key[d] \in Keys /\ entries[key[d]] \notin Terminal
      BY <2>1, CarrierKey DEF IInv, StoreInv, Carried, Terminal
    <3> QED BY <2>1, <3>1, SettleEffect DEF IInv, StoreInv
  <2>2. ASSUME NEW k \in Keys, NEW e, entries' = [entries EXCEPT ![k] = e], entries[k] \notin Terminal
        PROVE  Final
    BY <2>2 DEF IInv, TypeOK
  <2>3. CASE UNCHANGED entries
    BY <2>3
  <2>4. CASE Main
    BY <2>3, <2>4, MainLeaves
  <2>5. CASE Owner
    <3>1. ASSUME current \in Clients, ownerAt \in {"dispatch", "recording"}
          PROVE  Carries(current)
      BY <3>1, CarriesIs
    <3>2. CASE DropDisconnected
      <4>1. current \in Clients
        BY <3>2 DEF DropDisconnected, IInv, TypeOK
      <4> QED BY <2>1, <3>1, <3>2, <4>1 DEF DropDisconnected, Terminal
    <3>3. CASE DropExpired
      BY <2>1, <3>1, <3>3 DEF DropExpired, Terminal
    <3>4. CASE RecordCompletion
      BY <2>1, <3>1, <3>4 DEF RecordCompletion, Terminal, IInv, HandOK
    <3>5. CASE StartCommand
      <4>1. key[current] \in Keys /\ entries[key[current]] \notin Terminal
        BY <3>1, <3>5, CarrierKey DEF StartCommand, IInv, StoreInv, Carried, Terminal
      <4>2. \E e : entries' = [entries EXCEPT ![key[current]] = e]
        BY <3>5 DEF StartCommand, SetStarted
      <4> QED BY <2>2, <4>1, <4>2
    <3>6. CASE ~(DropDisconnected \/ DropExpired \/ RecordCompletion \/ StartCommand)
      BY <2>3, <2>5, <3>6 DEF Owner, OwnerRun, OwnerQuiet, Boot, Receive, ReleaseSlot, ExecuteCommand,
         Maintain, SendTerminal, MoveBackend, FinishBarrier, Announce, CloseDisconnected,
         StopDisconnected, Panic, store
    <3> QED BY <3>2, <3>3, <3>4, <3>5, <3>6
  <2>6. ASSUME NEW d \in Clients, Client(d)
        PROVE  Final
    <3>1. CASE \E k \in Keys : RegisterCommand(d, k) \/ RegisterImmediate(d, k)
      <4>1. PICK k \in Keys, place \in {"registered", "reserved"} : ReserveKey(d, k, place)
        BY <3>1 DEF RegisterCommand, RegisterImmediate
      <4>2. CASE entries[k] = "absent"
        BY <2>2, <4>1, <4>2 DEF ReserveKey, Register, Terminal
      <4>3. CASE entries[k] # "absent"
        BY <2>3, <4>1, <4>3 DEF ReserveKey, store
      <4> QED BY <4>2, <4>3
    <3>2. CASE WithdrawKey(d)
      <4>1. Carries(d)
        BY <3>2, CarriesIs DEF WithdrawKey
      <4>2. key[d] \in Keys /\ entries[key[d]] \notin Terminal
        BY <4>1, CarrierKey DEF IInv, StoreInv, Carried, Terminal
      <4> QED BY <2>2, <3>2, <4>2 DEF WithdrawKey, Remove
    <3>3. CASE CompleteImmediate(d)
      <4>1. Carries(d) /\ "Completed" \in Terminal
        BY <3>3, CarriesIs DEF CompleteImmediate, Terminal
      <4> QED BY <2>1, <3>3, <4>1 DEF CompleteImmediate
    <3>4. CASE SubmitCommand(d) \/ CommitImmediate(d) \/ Relay(d) \/ Reject(d) \/ GiveUp(d) \/ HangUp(d)
               \/ \E k \in Keys : QueryOutcome(d, k)
      BY <2>3, <3>4 DEF SubmitCommand, CommitImmediate, Relay, Reject, GiveUp, HangUp, QueryOutcome, store
    <3> QED BY <2>6, <3>1, <3>2, <3>3, <3>4 DEF Client, ClientRun
  <2> QED BY <2>4, <2>5, <2>6 DEF Next
<1> QED BY <1>1, Invariance, StoreInvariance, PTL DEF Spec, TerminalIsFinal

-----------------------------------------------------------------------------
(* The refinement of SerialBackend. *)

(* The phase of a request is read off its fate and its place. *)
LEMMA PhaseIs ==
  ASSUME TypeOK, StoreInv, NEW c \in Clients
  PROVE  /\ fate[c] = "ran" => Phase(c) = "done"
         /\ fate[c] = "dropped" => Phase(c) = "dropped"
         /\ fate[c] = "none" /\ current = c /\ ownerAt = "running" => Phase(c) = "running"
         /\ fate[c] = "none" /\ current = c /\ ownerAt = "panicked" => Phase(c) = "lost"
         /\ fate[c] = "none" /\ InChannel(c) => Phase(c) = "accepted"
         /\ fate[c] = "none" /\ current = c /\ ownerAt \in {"received", "dispatch"} => Phase(c) = "accepted"
         /\ fate[c] \in {"none", "committed"} /\ ~InChannel(c)
              /\ ~(current = c /\ ownerAt \in {"received", "dispatch", "running", "panicked"})
              => Phase(c) = "new"
<1>1. Queueing(c) <=> InChannel(c) \/ (current = c /\ ownerAt \in {"received", "dispatch"})
  BY DEF Queueing, InChannel
<1>2. InChannel(c) => current # c
  BY DEF StoreInv, OnceInPipe
<1>3. fate[c] \in {"none", "ran", "dropped", "committed"}
  BY DEF TypeOK
<1>4. CASE fate[c] \in {"ran", "dropped", "committed"}
  <2>1. InChannel(c) => FALSE
    BY <1>4 DEF StoreInv, Stories, Story
  <2> QED BY <1>4, <2>1 DEF Phase
<1>5. CASE fate[c] = "none"
  BY <1>1, <1>2, <1>5 DEF Phase
<1> QED BY <1>3, <1>4, <1>5

(* The abstract state, and what a step leaves of its order of requests. *)
Phases   == [c \in Clients |-> Phase(c)]
Waits    == [c \in Clients |-> {d \in Clients : Precedes(d, c)}]
Abstract == <<Phases, Waits, backend = "open">>

SameOrder == \A c, d \in Clients : Precedes(d, c)' <=> Precedes(d, c)

LEMMA WaitsStay == ASSUME SameOrder PROVE UNCHANGED Waits
BY DEF SameOrder, Waits

(* Where neither the channel nor what the owner has taken up changes,      *)
(* neither does the order.                                                 *)
LEMMA OrderStays ==
  ASSUME UNCHANGED channel, \A c \in Clients : TakenUp(c)' <=> TakenUp(c)
  PROVE  SameOrder
BY DEF SameOrder, Precedes

(* A command that enters the channel waits for every one that is queued; a *)
(* barrier or maintenance changes nothing between the others.              *)
LEMMA EnqueueOrder ==
  ASSUME TypeOK, NEW op \in Operations, Enqueue(op), UNCHANGED <<current, ownerAt>>,
         op \in Clients => ~Queueing(op)
  PROVE  \A c, d \in Clients : Precedes(d, c)' <=> IF c = op THEN Queueing(d) ELSE Precedes(d, c)
<1> DEFINE n == Len(channel)
<1>1. /\ n \in Nat
      /\ Len(channel') = n + 1
      /\ channel'[n + 1] = op
      /\ \A i \in 1 .. n : channel'[i] = channel[i]
  BY AppendProperties, LenProperties DEF Enqueue, TypeOK
<1> SUFFICES ASSUME NEW c \in Clients, NEW d \in Clients
             PROVE  Precedes(d, c)' <=> IF c = op THEN Queueing(d) ELSE Precedes(d, c)
  OBVIOUS
<1>2. TakenUp(d)' <=> TakenUp(d)
  BY DEF TakenUp
<1> HIDE DEF n
<1>3. CASE c = op
  <2>1. \A j \in 1 .. n : channel[j] # c
    BY <1>3 DEF Queueing, n
  <2>2. Precedes(d, c)' <=> TakenUp(d)' \/ \E i \in 1 .. n : channel'[i] = d
    BY <1>1, <1>3, <2>1 DEF Precedes
  <2> QED BY <1>1, <1>2, <1>3, <2>2 DEF Queueing, TakenUp, n
<1>4. CASE c # op
  <2>1. ASSUME Precedes(d, c)' PROVE Precedes(d, c)
    <3>1. PICK j \in 1 .. n + 1 : channel'[j] = c /\ (TakenUp(d)' \/ \E i \in 1 .. j - 1 : channel'[i] = d)
      BY <1>1, <2>1 DEF Precedes
    <3>2. j \in 1 .. n /\ channel[j] = c /\ \A i \in 1 .. j - 1 : channel'[i] = channel[i]
      BY <1>1, <1>4, <3>1
    <3> QED BY <1>2, <3>1, <3>2 DEF Precedes, n
  <2>2. ASSUME Precedes(d, c) PROVE Precedes(d, c)'
    <3>1. PICK j \in 1 .. n : channel[j] = c /\ (TakenUp(d) \/ \E i \in 1 .. j - 1 : channel[i] = d)
      BY <2>2 DEF Precedes, n
    <3>2. j \in 1 .. n + 1 /\ channel'[j] = c /\ \A i \in 1 .. j - 1 : channel'[i] = channel[i]
      BY <1>1, <3>1
    <3> QED BY <1>1, <1>2, <3>1, <3>2 DEF Precedes
  <2> QED BY <1>4, <2>1, <2>2
<1> QED BY <1>3, <1>4

(* Taking a command out of the channel leaves it ahead of all behind it. *)
LEMMA ReceiveOrder ==
  ASSUME TypeOK, OnceInPipe, Receive
  PROVE  SameOrder
<1> DEFINE n == Len(channel)
<1>1. /\ n \in Nat \ {0}
      /\ Len(channel') = n - 1
      /\ current' = channel[1]
      /\ \A i \in 1 .. n - 1 : channel'[i] = channel[i + 1]
  BY HeadTailProperties, EmptySeq DEF TypeOK, Receive
<1> SUFFICES ASSUME NEW c \in Clients, NEW d \in Clients
             PROVE  Precedes(d, c)' <=> Precedes(d, c)
  BY DEF SameOrder
<1>2. ~TakenUp(d) /\ (TakenUp(d)' <=> channel[1] = d)
  BY <1>1 DEF TakenUp, Receive
<1> HIDE DEF n
<1>3. ASSUME Precedes(d, c)' PROVE Precedes(d, c)
  <2>1. PICK j \in 1 .. n - 1 : channel'[j] = c /\ (TakenUp(d)' \/ \E i \in 1 .. j - 1 : channel'[i] = d)
    BY <1>1, <1>3 DEF Precedes
  <2>2. j + 1 \in 1 .. n /\ channel[j + 1] = c
    BY <1>1, <2>1
  <2>3. \E i \in 1 .. (j + 1) - 1 : channel[i] = d
    <3>1. CASE TakenUp(d)'
      BY <1>2, <2>1, <3>1
    <3>2. ASSUME NEW i \in 1 .. j - 1, channel'[i] = d
          PROVE  \E h \in 1 .. (j + 1) - 1 : channel[h] = d
      <4>1. i + 1 \in 1 .. (j + 1) - 1 /\ channel[i + 1] = d
        BY <1>1, <2>1, <3>2
      <4> QED BY <4>1
    <3> QED BY <2>1, <3>1, <3>2
  <2> QED BY <2>2, <2>3 DEF Precedes, n
<1>4. ASSUME Precedes(d, c) PROVE Precedes(d, c)'
  <2>1. PICK j \in 1 .. n : channel[j] = c /\ \E i \in 1 .. j - 1 : channel[i] = d
    BY <1>2, <1>4 DEF Precedes, n
  <2>2. PICK i \in 1 .. j - 1 : channel[i] = d
    BY <2>1
  <2>3. j - 1 \in 1 .. n - 1 /\ channel'[j - 1] = c
    BY <1>1, <2>1, <2>2
  <2>4. TakenUp(d)' \/ \E h \in 1 .. (j - 1) - 1 : channel'[h] = d
    <3>1. CASE i = 1
      BY <1>2, <2>2, <3>1
    <3>2. CASE i # 1
      <4>1. i - 1 \in 1 .. (j - 1) - 1 /\ channel'[i - 1] = d
        BY <1>1, <2>1, <2>2, <3>2
      <4> QED BY <4>1
    <3> QED BY <3>1, <3>2
  <2> QED BY <1>1, <2>3, <2>4 DEF Precedes
<1> QED BY <1>3, <1>4

(* The command in hand waits for none, and once the owner has dealt with   *)
(* it none waits for it.                                                   *)
LEMMA HandLeaves ==
  ASSUME OnceInPipe, UNCHANGED channel, current \in Clients, \A c \in Clients : ~TakenUp(c)'
  PROVE  Serial!Leave(current)
<1>1. ~InChannel(current)
  BY DEF OnceInPipe
<1>2. \A d \in Clients : ~Precedes(d, current)
  BY <1>1 DEF Precedes, InChannel
<1>3. \A d \in Clients : d # current => ~TakenUp(d) /\ ~TakenUp(d)'
  BY DEF TakenUp
<1>4. ASSUME NEW c \in Clients, NEW d \in Clients
      PROVE  Precedes(d, c)' <=> (Precedes(d, c) /\ d # current)
  <2>1. CASE d = current
    BY <1>1, <2>1 DEF Precedes, InChannel
  <2>2. CASE d # current
    BY <1>3, <2>2 DEF Precedes
  <2> QED BY <2>1, <2>2
<1>5. \A c \in Clients : {d \in Clients : Precedes(d, c)}' = {d \in Clients : Precedes(d, c)} \ {current}
  BY <1>4
<1>6. ASSUME NEW W, W = Waits, Waits' = [c \in Clients |-> W[c] \ {current}], W[current] = {}
      PROVE  Serial!Leave(current)
  BY <1>6 DEF Serial!Leave, Waits
<1>7. Waits' = [c \in Clients |-> Waits[c] \ {current}]
  BY <1>5 DEF Waits
<1>8. Waits[current] = {}
  BY <1>2 DEF Waits
<1> QED BY <1>6, <1>7, <1>8

(* A step that leaves every phase, the order and the hardware alone is a   *)
(* stutter.                                                                *)
LEMMA Stutter ==
  ASSUME UNCHANGED backend, SameOrder, \A c \in Clients : Phase(c)' = Phase(c)
  PROVE  UNCHANGED Abstract
BY WaitsStay DEF Abstract, Phases

(* One request goes from one phase to the next. *)
LEMMA MoveOne ==
  ASSUME NEW d \in Clients, NEW from, NEW to, Phase(d) = from, Phase(d)' = to,
         \A c \in Clients : c # d => Phase(c)' = Phase(c)
  PROVE  Serial!Move(d, from, to)
BY DEF Serial!Move

(* The hardware opens or closes between two requests. *)
LEMMA HardwareMoves ==
  ASSUME SameOrder, \A c \in Clients : Phase(c)' = Phase(c) /\ Phase(c) # "running"
  PROVE  Serial!Open \/ Serial!Close
<1>1. Serial!Idle
  BY DEF Serial!Idle
<1>2. UNCHANGED <<Phases, Waits>>
  BY WaitsStay DEF Phases
<1> USE DEF Phases, Waits
<1>3. CASE (backend = "open")' = TRUE
  BY <1>1, <1>2, <1>3 DEF Serial!Open
<1>4. CASE (backend = "open")' = FALSE
  BY <1>1, <1>2, <1>4 DEF Serial!Close
<1> QED BY <1>3, <1>4

(* What a phase depends on. *)
LEMMA PhaseSame ==
  ASSUME NEW c \in Clients, fate'[c] = fate[c], Queueing(c)' <=> Queueing(c),
         (current' = c /\ ownerAt' = "running") <=> (current = c /\ ownerAt = "running"),
         (current' = c /\ ownerAt' = "panicked") <=> (current = c /\ ownerAt = "panicked")
  PROVE  Phase(c)' = Phase(c)
BY DEF Phase

(* No request runs but the one in the owner's hand. *)
LEMMA OneRuns ==
  ASSUME TypeOK, StoreInv, NEW c \in Clients, ~(current = c /\ ownerAt = "running")
  PROVE  Phase(c) # "running"
<1>1. fate[c] \in {"none", "ran", "dropped", "committed"}
  BY DEF TypeOK
<1>2. fate[c] = "committed" => ~InChannel(c)
  BY DEF StoreInv, Stories, Story
<1>3. CASE fate[c] = "none"
  BY <1>3, PhaseIs
<1>4. CASE fate[c] # "none"
  BY <1>1, <1>4 DEF Phase
<1> QED BY <1>3, <1>4

(* The requests in the queue are the accepted ones. *)
LEMMA QueueingIs ==
  ASSUME TypeOK, StoreInv, NEW c \in Clients
  PROVE  Queueing(c) <=> Phase(c) = "accepted"
<1>1. fate[c] \in {"none", "ran", "dropped", "committed"}
  BY DEF TypeOK
<1>2. Queueing(c) => fate[c] = "none" /\ ~(current = c /\ ownerAt \in {"running", "panicked"})
  BY DEF StoreInv, OnceInPipe, Stories, Story, Queueing, InChannel
<1> QED BY <1>1, <1>2 DEF Phase

(* The owner takes the serial backend through its steps. *)
LEMMA SerialOwnerStep ==
  ASSUME IInv, StoreInv, IInv', StoreInv', Owner
  PROVE  [Serial!Next]_Abstract
<1> USE DEF IInv
<1>1. \A c \in Clients : c # None /\ c \notin Lifecycle /\ c \notin Maintenance
  BY OperationSets, NamesAssumption DEF Operations, Work
<1>2. ASSUME UNCHANGED channel
      PROVE  \A c \in Clients : Queueing(c)' <=> InChannel(c) \/ (current' = c /\ ownerAt' \in {"received", "dispatch"})
  BY <1>2, SamePipe DEF Queueing, InChannel
<1>3. \A c \in Clients : Queueing(c) <=> InChannel(c) \/ (current = c /\ ownerAt \in {"received", "dispatch"})
  BY DEF Queueing, InChannel
<1> USE DEF TakenUp
(* The hardware changes hands only while no client's command runs. *)
<1>4. CASE Boot \/ MoveBackend \/ CloseDisconnected \/ (Panic /\ ownerAt # "running")
  <2>1. UNCHANGED <<channel, current, fate>> /\ ownerAt # "running"
    BY <1>4 DEF Boot, MoveBackend, CloseDisconnected, Panic, pipe
  <2>2. ASSUME NEW c \in Clients
        PROVE  current = c => /\ ownerAt \notin {"received", "dispatch", "running", "panicked"}
                              /\ ownerAt' \notin {"received", "dispatch", "running", "panicked"}
    BY <1>1, <1>4 DEF HandOK, Boot, MoveBackend, CloseDisconnected, Panic
  <2>3. ASSUME NEW c \in Clients
        PROVE  Phase(c)' = Phase(c) /\ Phase(c) # "running"
    BY <1>2, <1>3, <2>1, <2>2, PhaseSame, OneRuns
  <2>4. SameOrder
    BY <2>1, <2>2, OrderStays
  <2> QED BY <2>3, <2>4, HardwareMoves DEF Serial!Next
(* Steps that nobody sees from outside. *)
<1>5. CASE Receive
  <2>1. /\ \A c \in Clients : InChannel(c)' <=> (InChannel(c) /\ c # current')
        /\ current' \in Clients => InChannel(current')
    BY <1>5, ReceiveEffect DEF StoreInv
  <2>2. UNCHANGED <<backend, fate>> /\ ownerAt = "idle" /\ ownerAt' = "received"
    BY <1>5 DEF Receive
  <2>3. \A c \in Clients : Queueing(c)' <=> InChannel(c)' \/ current' = c
    BY <2>2 DEF Queueing, InChannel
  <2>4. \A c \in Clients : Phase(c)' = Phase(c)
    BY <1>3, <2>1, <2>2, <2>3, PhaseSame
  <2> QED BY <1>5, <2>2, <2>4, ReceiveOrder, Stutter DEF StoreInv
<1>6. CASE ReleaseSlot \/ RecordCompletion \/ SendTerminal \/ FinishBarrier \/ Announce
           \/ StopDisconnected \/ \E effect \in BOOLEAN : Maintain(effect)
  <2>1. UNCHANGED <<channel, backend, fate>>
    BY <1>6 DEF ReleaseSlot, RecordCompletion, SendTerminal, FinishBarrier, Announce,
       StopDisconnected, Maintain, pipe
  <2>2. ASSUME NEW c \in Clients
        PROVE  /\ (current' = c /\ ownerAt' \in {"received", "dispatch"})
                     <=> (current = c /\ ownerAt \in {"received", "dispatch"})
               /\ (current' = c /\ ownerAt' = "running") <=> (current = c /\ ownerAt = "running")
               /\ (current' = c /\ ownerAt' = "panicked") <=> (current = c /\ ownerAt = "panicked")
    <3>1. CASE ReleaseSlot \/ RecordCompletion \/ SendTerminal \/ StopDisconnected
      BY <1>1, <3>1 DEF ReleaseSlot, RecordCompletion, SendTerminal, StopDisconnected
    <3>2. CASE FinishBarrier \/ Announce \/ \E effect \in BOOLEAN : Maintain(effect)
      BY <1>1, <3>2 DEF FinishBarrier, Announce, Maintain, HandOK, Barriers, Lifecycle
    <3> QED BY <1>6, <3>1, <3>2
  <2>3. \A c \in Clients : Phase(c)' = Phase(c)
    BY <1>2, <1>3, <2>1, <2>2, PhaseSame
  <2>4. SameOrder
    BY <2>1, <2>2, OrderStays
  <2> QED BY <2>1, <2>3, <2>4, Stutter
(* Steps of the request in hand. *)
<1>7. ASSUME current \in Clients, UNCHANGED channel,
             ownerAt \in {"dispatch", "running"}, ~InChannel(current),
             current' = current \/ (current' = None /\ ownerAt' = "idle"),
             \A c \in Clients : c # current => fate'[c] = fate[c]
      PROVE  \A c \in Clients : c # current => Phase(c)' = Phase(c)
  BY <1>1, <1>2, <1>3, <1>7, PhaseSame
<1>8. ASSUME current \in Clients, ownerAt \in {"dispatch", "running"}
      PROVE  ~InChannel(current) /\ fate[current] = "none"
  BY <1>8 DEF StoreInv, OnceInPipe, Stories, Story
<1>9. CASE DropDisconnected \/ DropExpired
  <2>1. /\ current \in Clients /\ ownerAt = "dispatch" /\ UNCHANGED <<channel, backend>>
        /\ fate' = [fate EXCEPT ![current] = "dropped"]
        /\ current' = current \/ (current' = None /\ ownerAt' = "idle")
    BY <1>9 DEF DropDisconnected, DropExpired, TypeOK, pipe
  <2>2. fate'[current] = "dropped" /\ \A c \in Clients : c # current => fate'[c] = fate[c]
    BY <2>1 DEF TypeOK
  <2>3. Phase(current) = "accepted"
    BY <1>8, <2>1, PhaseIs
  <2>4. \A c \in Clients : fate'[c] = "dropped" => Phase(c)' = "dropped"
    BY DEF Phase
  <2>5. Serial!Move(current, "accepted", "dropped")
    BY <1>7, <1>8, <2>1, <2>2, <2>3, <2>4, MoveOne
  <2>6. \A c \in Clients : ~TakenUp(c)'
    BY <1>1, <1>9 DEF DropDisconnected, DropExpired
  <2>7. Serial!Leave(current)
    BY <2>1, <2>6, HandLeaves DEF StoreInv
  <2> QED BY <2>1, <2>5, <2>7 DEF Serial!Next, Serial!Drop
<1>10. CASE StartCommand
  <2>1. /\ current \in Clients /\ ownerAt = "dispatch" /\ ownerAt' = "running"
        /\ UNCHANGED <<channel, backend, fate, current>>
    BY <1>10 DEF StartCommand, pipe
  <2>2. Phase(current) = "accepted"
    BY <1>8, <2>1, PhaseIs
  <2>3. Phase(current)' = "running"
    <3>1. fate'[current] = "none" /\ ~Queueing(current)'
      BY <1>2, <1>8, <2>1
    <3> QED BY <2>1, <3>1 DEF Phase
  <2>4. Serial!Move(current, "accepted", "running")
    BY <1>7, <1>8, <2>1, <2>2, <2>3, MoveOne
  <2>5. Serial!Idle
    BY <2>1, OneRuns DEF Serial!Idle
  <2>6. backend = "open"
    BY <2>1, OperationSets DEF Gate, OpenForWork
  <2>7. Serial!Leave(current)
    BY <2>1, HandLeaves DEF StoreInv
  <2> QED BY <2>1, <2>4, <2>5, <2>6, <2>7 DEF Serial!Next, Serial!Run
<1>11. CASE \E effect \in BOOLEAN : ExecuteCommand(effect)
  <2>1. /\ current \in Clients /\ ownerAt = "running"
        /\ UNCHANGED <<channel, backend, current>>
        /\ fate' = [fate EXCEPT ![current] = "ran"]
    BY <1>11 DEF ExecuteCommand, HandOK, pipe
  <2>2. fate'[current] = "ran" /\ \A c \in Clients : c # current => fate'[c] = fate[c]
    BY <2>1 DEF TypeOK
  <2>3. Phase(current) = "running"
    BY <1>8, <2>1, PhaseIs
  <2>4. Phase(current)' = "done"
    BY <2>1, <2>2 DEF Phase
  <2>5. Serial!Move(current, "running", "done")
    BY <1>7, <1>8, <2>1, <2>2, <2>3, <2>4, MoveOne
  <2>6. UNCHANGED Waits
    <3>1. ownerAt' = "recording"
      BY <1>11 DEF ExecuteCommand
    <3> QED BY <2>1, <3>1, OrderStays, WaitsStay
  <2> QED BY <2>1, <2>5, <2>6 DEF Serial!Next, Serial!Finish, Waits
<1>12. CASE Panic /\ ownerAt = "running"
  <2>1. /\ current \in Clients /\ ownerAt = "running" /\ ownerAt' = "panicked"
        /\ UNCHANGED <<channel, fate, current>> /\ backend' = "closed"
    BY <1>12 DEF Panic, HandOK, pipe
  <2>2. Phase(current) = "running"
    BY <1>8, <2>1, PhaseIs
  <2>3. Phase(current)' = "lost"
    <3>1. fate'[current] = "none" /\ ~Queueing(current)'
      BY <1>2, <1>8, <2>1
    <3> QED BY <2>1, <3>1 DEF Phase
  <2>4. Serial!Move(current, "running", "lost")
    BY <1>7, <1>8, <2>1, <2>2, <2>3, MoveOne
  <2>5. UNCHANGED Waits
    BY <2>1, OrderStays, WaitsStay
  <2> QED BY <2>1, <2>4, <2>5 DEF Serial!Next, Serial!Crash, Waits
<1> QED BY <1>4, <1>5, <1>6, <1>9, <1>10, <1>11, <1>12 DEF Owner, OwnerRun, OwnerQuiet

(* Every step of the executor is a step of the serial backend or none. *)
LEMMA SerialStep ==
  ASSUME IInv, StoreInv, IInv', StoreInv', [Next]_vars
  PROVE  [Serial!Next]_Abstract
<1> USE DEF IInv
<1>0. ASSUME UNCHANGED <<backend, ownerAt, current, fate>>, SameOrder,
             \A c \in Clients : InChannel(c)' <=> InChannel(c)
      PROVE  UNCHANGED Abstract
  <2>1. \A c \in Clients : Queueing(c)' <=> Queueing(c)
    BY <1>0 DEF Queueing, InChannel
  <2>2. \A c \in Clients : Phase(c)' = Phase(c)
    BY <1>0, <2>1 DEF Phase
  <2> QED BY <1>0, <2>2, Stutter
<1>a. ASSUME UNCHANGED <<channel, ownerAt, current>> PROVE SameOrder
  BY <1>a, OrderStays DEF TakenUp
<1>1. CASE Main
  <2>1. UNCHANGED backend
    BY <1>1, MainFrame
  <2>2. SameOrder
    <3>1. CASE UNCHANGED channel
      BY <1>1, <1>a, <3>1, MainLeaves
    <3>2. ASSUME NEW op \in Operations \ Clients, Submit(op)
          PROVE  SameOrder
      <4>1. CASE Enqueue(op)
        BY <1>1, <3>2, <4>1, EnqueueOrder, MainLeaves DEF SameOrder
      <4>2. CASE Refuse(op)
        BY <3>1, <4>2, RefuseEffect
      <4> QED BY <3>2, <4>1, <4>2 DEF Submit
    <3> QED BY <1>1, <3>1, <3>2, MainFrame
  <2> QED BY <1>0, <1>1, <2>1, <2>2, MainStory, MainLeaves DEF StoreInv
<1>2. ASSUME NEW d \in Clients, Client(d)
      PROVE  [Serial!Next]_Abstract
  <2>1. UNCHANGED <<backend, ownerAt, current>>
    BY <1>2, ClientFrame
  <2>2. CASE SubmitCommand(d)
    <3>1. UNCHANGED fate /\ at[d] = "registered" /\ fate[d] = "none" /\ ~InChannel(d) /\ current # d
      BY <2>2 DEF SubmitCommand, StoreInv, Stories, Story, Early
    <3>2. CASE Enqueue(d)
      <4>1. \A c \in Clients : InChannel(c)' <=> (InChannel(c) \/ c = d)
        BY <2>1, <3>1, <3>2, EnqueueEffect, OperationSets DEF StoreInv
      <4>2. \A c \in Clients : c # d => (Queueing(c)' <=> Queueing(c))
        BY <2>1, <4>1 DEF Queueing, InChannel
      <4>3. \A c \in Clients : c # d => Phase(c)' = Phase(c)
        BY <2>1, <3>1, <4>2 DEF Phase
      <4>4. Phase(d) = "new"
        BY <3>1, PhaseIs
      <4>5. Queueing(d)' /\ current' # d /\ fate'[d] = "none"
        BY <2>1, <3>1, <4>1 DEF Queueing, InChannel
      <4>6. Phase(d)' = "accepted"
        BY <4>5 DEF Phase
      <4>7. Serial!Move(d, "new", "accepted")
        BY <4>3, <4>4, <4>6, MoveOne
      <4>8. Serial!Join(d)
        <5>1. \A c, q \in Clients : Precedes(q, c)' <=> IF c = d THEN Queueing(q) ELSE Precedes(q, c)
          BY <2>1, <3>1, <3>2, EnqueueOrder, OperationSets DEF Queueing, InChannel
        <5>2. \A q \in Clients : Queueing(q) <=> Phase(q) = "accepted"
          BY QueueingIs
        <5>3. \A c \in Clients : {q \in Clients : Precedes(q, c)}'
                = IF c = d THEN {q \in Clients : Phase(q) = "accepted"} ELSE {q \in Clients : Precedes(q, c)}
          BY <5>1, <5>2
        <5>4. Waits' = [Waits EXCEPT ![d] = {q \in Clients : Phases[q] = "accepted"}]
          BY <5>3 DEF Waits, Phases
        <5> QED BY <5>4 DEF Serial!Join, Waits, Phases
      <4> QED BY <2>1, <4>7, <4>8 DEF Serial!Next, Serial!Accept
    <3>3. CASE Refuse(d)
      BY <1>0, <1>a, <2>1, <3>1, <3>3, RefuseEffect
    <3> QED BY <2>2, <3>2, <3>3 DEF SubmitCommand
  <2>3. CASE CommitImmediate(d)
    <3>1. /\ UNCHANGED channel /\ fate' = [fate EXCEPT ![d] = "committed"]
          /\ fate[d] = "none" /\ ~InChannel(d) /\ current # d
      BY <2>3 DEF CommitImmediate, pipe, StoreInv, Stories, Story, Early
    <3>2. \A c \in Clients : (Queueing(c)' <=> Queueing(c)) /\ ~Queueing(d)
      BY <2>1, <3>1 DEF Queueing, InChannel
    <3>3. /\ \A c \in Clients : c # d => fate'[c] = fate[c]
          /\ fate'[d] = "committed"
      BY <3>1 DEF TypeOK
    <3>4. \A c \in Clients : Phase(c)' = Phase(c)
      BY <2>1, <3>1, <3>2, <3>3 DEF Phase
    <3> QED BY <1>a, <2>1, <3>1, <3>4, Stutter
  <2>4. CASE ~SubmitCommand(d) /\ ~CommitImmediate(d)
    <3>1. UNCHANGED <<fate, channel>>
      BY <1>2, <2>4 DEF Client, ClientRun, WithdrawKey, CompleteImmediate, Relay, Reject, GiveUp,
         HangUp, RegisterCommand, RegisterImmediate, ReserveKey, QueryOutcome, pipe
    <3> QED BY <1>0, <1>a, <2>1, <3>1, SamePipe
  <2> QED BY <2>2, <2>3, <2>4
<1>3. CASE UNCHANGED vars
  BY <1>0, <1>a, <1>3, SamePipe DEF vars, pipe, ownerVars
<1>4. CASE Owner
  BY <1>4, SerialOwnerStep
<1> QED BY <1>1, <1>2, <1>3, <1>4 DEF Next

(* The executor implements the serial backend: whatever is queued, refused, *)
(* withdrawn or panics, accepted requests run or are dropped in the order   *)
(* in which they were accepted, one at a time, each at most once, on open   *)
(* hardware, which changes hands only between two runs or by a crash.       *)
THEOREM ExecutorIsSerial == Spec => SerialSpec
<1>1. Init => Serial!Init
  <2> SUFFICES ASSUME Init PROVE Serial!Init
    OBVIOUS
  <2>1. ASSUME NEW c \in Clients PROVE Phase(c) = "new"
    <3>1. fate[c] = "none" /\ ownerAt = "booting" /\ ~Queueing(c)
      BY EmptySeq DEF Init, Queueing
    <3> QED BY <3>1 DEF Phase
  <2>2. \A c, d \in Clients : ~Precedes(d, c)
    BY EmptySeq DEF Init, Precedes
  <2> QED BY <2>1, <2>2 DEF Init, Serial!Init
<1>2. IInv /\ StoreInv /\ IInv' /\ StoreInv' /\ [Next]_vars
        => [Serial!Next]_Abstract
  BY SerialStep
<1> QED BY <1>1, <1>2, Invariance, StoreInvariance, PTL
        DEF Spec, SerialSpec, Serial!Spec, Abstract, Phases, Waits
=============================================================================
