------------------------------ MODULE Downlink ------------------------------
(***************************************************************************)
(* Commands of a platform that write a point of a device: the shared       *)
(* attributes and RPCs of the ThingsBoard output, which queues them for a  *)
(* writer goroutine, and the service calls of the smardaten output, which  *)
(* are made in the callback of the MQTT client, one at a time.  Both end   *)
(* in core.WritePoint (see Drivers for what it does to the connection).    *)
(*                                                                         *)
(* An output has several instances while it is reloaded: the new one is    *)
(* built and connects before the old one is stopped, and both have the     *)
(* client ID of the output, so that they take the connection from each     *)
(* other.  All commands here are about one point; they are numbered in the *)
(* order in which the platform sends them.                                 *)
(***************************************************************************)
EXTENDS Naturals, Sequences, SequencesExt, FiniteSetsExt

CONSTANTS
    Receivers,   \* outputs: "thingsboard", "smardaten"
    Instances,   \* instances of the output
    QueueSize,   \* writeQueueSize
    Nil,         \* no instance, no command
    MaxCommands  \* bound: commands of a behaviour

Commands == 1..MaxCommands

\* A command, and whether it asks for an answer.
CommandRecords == [n : Commands, asks : BOOLEAN]

\* A command being carried out, with the error once there is a result.
Writings == [command : CommandRecords, err : BOOLEAN \cup {Nil}]

ASSUME DownlinkAssumption ==
    /\ QueueSize \in Nat /\ MaxCommands \in Nat
    /\ Nil \notin Instances /\ Nil \notin BOOLEAN /\ Nil \notin Writings

VARIABLES
    output,      \* which output, for a whole behaviour
    phase,       \* instance -> "none", "run", "closing", "closed"
    writer,      \* thingsboard: runWriter has not returned
    owner,       \* the instance that has the connection and its subscriptions, or Nil
    queue,       \* the commands each instance has received and not begun
    writing,     \* the command each instance works on, or Nil
    sent,        \* commands that have reached an instance
    fate,        \* what became of each command at the device
    device,      \* the command whose value the point has, 0 at first
    answers,     \* the answers that reached the platform
    dropped,     \* history: commands that nobody works on any more, with the reason
    overlapped   \* history: an instance got a command while another one still had some

commandVars == <<output, phase, writer, owner, queue, writing, sent, fate, device, answers,
                 dropped, overlapped>>

\* An attribute update is not answered.
Command(n, asks) == [n |-> n, asks |-> asks]

Answer(i, c, ok) ==
    {a \in {[n |-> c.n, ok |-> ok, by |-> i]} : c.asks}

\* What is published without the connection may come through later, or never.
Published(i, as) ==
    answers' \in {answers \cup as} \cup IF owner = i THEN {} ELSE {answers}

Has(i) == queue[i] # <<>> \/ writing[i] # Nil

-----------------------------------------------------------------------------
(* The reload of the outputs, and the connection.                            *)

\* Reload builds the new instance first.
Build(i) ==
    /\ phase[i] = "none"
    /\ phase' = [phase EXCEPT ![i] = "run"]
    /\ writer' = [writer EXCEPT ![i] = output = "thingsboard"]
    /\ UNCHANGED <<output, owner, queue, writing, sent, fate, device, answers, dropped, overlapped>>

\* The client connects, or connects again, and subscribes: the other one is cut off.
OnConnect(i) ==
    /\ phase[i] \in {"run", "closing"}
    /\ owner # i
    /\ owner' = i
    /\ UNCHANGED <<output, phase, writer, queue, writing, sent, fate, device, answers, dropped,
                   overlapped>>

\* Reload stops what it has replaced, or what is disabled: done is closed ...
Stop(i) ==
    /\ phase[i] = "run"
    /\ phase' = [phase EXCEPT ![i] = "closing"]
    /\ UNCHANGED <<output, writer, owner, queue, writing, sent, fate, device, answers, dropped,
                   overlapped>>

\* ... the writer returns, when its select takes that case ...
WriterExits(i) ==
    /\ phase[i] = "closing" /\ writer[i] /\ writing[i] = Nil
    /\ writer' = [writer EXCEPT ![i] = FALSE]
    /\ UNCHANGED <<output, phase, owner, queue, writing, sent, fate, device, answers, dropped,
                   overlapped>>

\* ... and Close disconnects.  What is queued is forgotten; a call of smardaten's callback
\* is not waited for and goes on.
Disconnect(i) ==
    /\ phase[i] = "closing" /\ ~writer[i]
    /\ phase' = [phase EXCEPT ![i] = "closed"]
    /\ owner' = IF owner = i THEN Nil ELSE owner
    /\ queue' = [queue EXCEPT ![i] = <<>>]
    /\ dropped' = dropped \cup {[n |-> c.n, why |-> "closed"] : c \in ToSet(queue[i])}
    /\ UNCHANGED <<output, writer, writing, sent, fate, device, answers, overlapped>>

-----------------------------------------------------------------------------
(* A command arrives.                                                        *)

Arrives(i) ==
    /\ owner = i /\ sent < MaxCommands
    /\ sent' = sent + 1
    /\ overlapped' = (overlapped \/ \E j \in Instances \ {i} : Has(j))
    /\ UNCHANGED <<output, phase, writer, owner, writing, device>>

\* enqueueWrite does not wait; the MQTT client keeps smardaten's messages.
HasRoom(i) == output = "thingsboard" => Len(queue[i]) < QueueSize

Enqueue(i, c) ==
    \/ /\ HasRoom(i)
       /\ queue' = [queue EXCEPT ![i] = Append(@, c)]
       /\ UNCHANGED dropped
    \/ /\ ~HasRoom(i)
       /\ dropped' = dropped \cup {[n |-> c.n, why |-> "full"]}
       /\ UNCHANGED queue

\* A shared attribute of the device is a command that is not answered.
Attribute(i) ==
    /\ output = "thingsboard"
    /\ Arrives(i)
    /\ Enqueue(i, Command(sent + 1, FALSE))
    /\ UNCHANGED <<fate, answers>>

\* An RPC is answered.
RPC(i) ==
    /\ output = "thingsboard"
    /\ Arrives(i)
    /\ Enqueue(i, Command(sent + 1, TRUE))
    /\ UNCHANGED <<fate, answers>>

\* An RPC of another method, or without a point, is answered at once.
Refuse(i) ==
    /\ output = "thingsboard"
    /\ Arrives(i)
    /\ fate' = [fate EXCEPT ![sent + 1] = "refused"]
    /\ Published(i, Answer(i, Command(sent + 1, TRUE), FALSE))
    /\ UNCHANGED <<queue, dropped>>

ServiceCall(i) ==
    /\ output = "smardaten"
    /\ Arrives(i)
    /\ Enqueue(i, Command(sent + 1, TRUE))
    /\ UNCHANGED <<fate, answers>>

-----------------------------------------------------------------------------
(* A command is carried out.                                                 *)

FirstOf(s) == Head(s)

\* Mutant: the command stays in the queue while it is carried out.
MRestOf(s) == s

RestOf(s) == Tail(s)

\* The writer's select may take a command although done is closed.
Take(i) ==
    /\ queue[i] # <<>> /\ writing[i] = Nil
    /\ output = "thingsboard" => writer[i]
    /\ writing' = [writing EXCEPT ![i] = [command |-> FirstOf(queue[i]), err |-> Nil]]
    /\ queue' = [queue EXCEPT ![i] = RestOf(@)]
    /\ UNCHANGED <<output, phase, writer, owner, sent, fate, device, answers, dropped, overlapped>>

\* WritePoint returns: the command's fate, the point's value, and whether there is an error.
WritePoint(i, what, value, err) ==
    /\ writing[i] # Nil /\ writing[i].err = Nil
    /\ fate' = [fate EXCEPT ![writing[i].command.n] = what]
    /\ device' = value
    /\ writing' = [writing EXCEPT ![i].err = err]
    /\ UNCHANGED <<output, phase, writer, owner, queue, sent, answers, dropped, overlapped>>

Takes(i) == writing[i] # Nil /\ WritePoint(i, "taken", writing[i].command.n, FALSE)

\* The value cannot be encoded, the point is read-only, or the device refuses: the driver
\* notes it in its result, and returns no error.  (A Modbus request that fails is noted so,
\* too.)
Rejects(i) == WritePoint(i, "rejected", device, FALSE)

\* The device, its point or its connection is not there or cannot be opened ...
Fails(i) == WritePoint(i, "failed", device, TRUE)

\* ... or the answer of the device is lost: it may have taken the value.
Doubtful(i) == writing[i] # Nil /\ WritePoint(i, "taken", writing[i].command.n, TRUE)

\* replyRPC, and the response to a service call: only the error is known.
Reply(i) ==
    /\ writing[i] # Nil /\ writing[i].err # Nil
    /\ Published(i, Answer(i, writing[i].command, ~writing[i].err))
    /\ writing' = [writing EXCEPT ![i] = Nil]
    /\ UNCHANGED <<output, phase, writer, owner, queue, sent, fate, device, dropped, overlapped>>

-----------------------------------------------------------------------------
CommandInit ==
    /\ output \in Receivers
    /\ phase = [i \in Instances |-> "none"]
    /\ writer = [i \in Instances |-> FALSE]
    /\ owner = Nil
    /\ queue = [i \in Instances |-> <<>>]
    /\ writing = [i \in Instances |-> Nil]
    /\ sent = 0
    /\ fate = [n \in Commands |-> "none"]
    /\ device = 0
    /\ answers = {} /\ dropped = {} /\ overlapped = FALSE

CommandNext ==
    \E i \in Instances :
       \/ Build(i) \/ OnConnect(i) \/ Stop(i) \/ WriterExits(i) \/ Disconnect(i)
       \/ Attribute(i) \/ RPC(i) \/ Refuse(i) \/ ServiceCall(i)
       \/ Take(i) \/ Takes(i) \/ Rejects(i) \/ Fails(i) \/ Doubtful(i) \/ Reply(i)

CommandSpec == CommandInit /\ [][CommandNext]_commandVars
-----------------------------------------------------------------------------
(* Properties *)

\* The types of the variables.
CommandTypeOK ==
    /\ output \in Receivers
    /\ phase \in [Instances -> {"none", "run", "closing", "closed"}]
    /\ writer \in [Instances -> BOOLEAN]
    /\ owner \in Instances \cup {Nil}
    /\ \A i \in Instances :
          /\ ToSet(queue[i]) \subseteq CommandRecords
          /\ writing[i] = Nil \/ writing[i].command.n \in Commands
          /\ output = "thingsboard" => Len(queue[i]) <= QueueSize
    /\ sent \in 0..MaxCommands
    /\ fate \in [Commands -> {"none", "refused", "taken", "rejected", "failed"}]
    /\ device \in 0..MaxCommands
    /\ answers \subseteq [n : Commands, ok : BOOLEAN, by : Instances]
    /\ dropped \subseteq [n : Commands, why : {"full", "closed"}]
    /\ overlapped \in BOOLEAN

Waits(n) == \E i \in Instances : \E c \in ToSet(queue[i]) : c.n = n
InHand(n) ==
    \E i \in Instances : writing[i] # Nil /\ writing[i].err = Nil /\ writing[i].command.n = n

\* A command is in one place only: it waits, is being carried out, has met its fate, or was
\* dropped because the queue was full or its instance was closed; so it is carried out once
\* at most, and answered once at most.
CarriedOutOnce ==
    \A n \in 1..sent :
       /\ Cardinality({p \in {"waits", "in hand", "done", "dropped"} :
             \/ p = "waits" /\ Waits(n)
             \/ p = "in hand" /\ InHand(n)
             \/ p = "done" /\ fate[n] # "none"
             \/ p = "dropped" /\ \E d \in dropped : d.n = n}) = 1
       /\ Cardinality({a \in answers : a.n = n}) <= 1

\* The answer is about what happened: an "ok" says that the value was taken, or that the
\* driver rejected it and the callback of main.go:143 passed its result over.
AnsweredAsItWas == \A a \in answers : a.ok => fate[a.n] \in {"taken", "rejected"}

\* The point has the value of the last command that was taken: an instance carries commands
\* out in the order in which they came.  Only two instances of one output, side by side
\* while it is reloaded, may carry out an old command after a new one.
LastCommandWins ==
    ~overlapped => device = Max({0} \cup {n \in Commands : fate[n] = "taken"})

\* No command is carried out twice, forgotten, answered twice or with a success that is none,
\* and a command does not undo a later one (thingsboard.go:265-358, smardaten.go:459-552).
CommandsAreExact == CarriedOutOnce /\ AnsweredAsItWas /\ LastCommandWins
=============================================================================
