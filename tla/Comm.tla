------------------------------- MODULE Comm -------------------------------
(***************************************************************************)
(* The communication manager (src/src/comm.c).  Every connection has a     *)
(* user, in a ring from which comm_receive() takes one after the other,    *)
(* and an object that receives its input, line by line if it is a telnet   *)
(* connection.  What code writes to the object is kept in a buffer that    *)
(* belongs to the object's data, so that an error in atomic code takes it  *)
(* back; at the end of the thread the buffers of all users in the flush    *)
(* list are written, and the users whose objects are users no more are     *)
(* removed.                                                                *)
(*                                                                         *)
(* Bytes written are numbered, for each connection; a telnet option is one *)
(* negative number.  Datagrams, outbound connections and the go-ahead      *)
(* after a prompt are left out.                                            *)
(***************************************************************************)
EXTENDS Integers, FiniteSets, SequencesExt, FiniteSetsExt

CONSTANTS
    Telnet,         \* telnet connections, with one object each
    Binary,         \* binary connections
    NoConn,
    maxusers,
    INBUF_SIZE,
    MAX_STRLEN,
    Input,          \* what peers send on telnet connections
    MaxRead,        \* bound: what all peers send
    MaxSent,        \* bound: bytes written to one object
    MaxOps,         \* bound: operations of one thread
    Changed         \* bound: connections whose echo and blocking change

Conns == Telnet \cup Binary
Slots == 1 .. maxusers

ASSUME CommAssumption ==
    /\ NoConn \notin Conns
    /\ Telnet \cap Binary = {}
    /\ {maxusers, INBUF_SIZE, MAX_STRLEN} \subseteq Nat \ {0}
    /\ {MaxRead, MaxSent, MaxOps} \subseteq Nat
    /\ Changed \subseteq Conns

VARIABLES
    comm,           \* users and their objects
    net,            \* the peers
    pc              \* where the process is

vars == << comm, net, pc >>

(* Telnet options in the output: WILL ECHO, WONT ECHO and other answers.   *)
WILL == -1
WONT == -2
REPLY == -3
Output == REPLY .. MaxSent

(* What a peer got: the bytes up to upto, other bytes or not, and the last *)
(* of WILL and WONT.                                                       *)
Got == [upto : 0 .. MaxSent, wrong : BOOLEAN, echo : {WILL, WONT}]

NoneGot == [upto |-> 0, wrong |-> FALSE, echo |-> WILL]

States == {"TS_DATA", "TS_CRDATA", "TS_IAC", "TS_OPT", "TS_SB", "TS_SE"}

(* A user.  outbuf and first say that usr->outbuf is the buffer the object *)
(* had when it was put in the flush list, and that it is the same still.   *)
User == [oindex : Conns \cup {NoConn}, echo : BOOLEAN, blocked : BOOLEAN, flush : BOOLEAN,
         output : BOOLEAN, odone : BOOLEAN, state : States, newlines : Nat,
         inbuf : Seq({"char", "LF"}), outbuf : BOOLEAN, osdone : 0 .. MAX_STRLEN]

NoUser == [oindex |-> NoConn, echo |-> FALSE, blocked |-> FALSE, flush |-> FALSE,
           output |-> FALSE, odone |-> FALSE, state |-> "TS_DATA", newlines |-> 0,
           inbuf |-> << >>, outbuf |-> FALSE, osdone |-> 0]

(* The object of a connection, and its extra value.                        *)
Object == [slot : Slots \cup {0}, user : BOOLEAN, echo : BOOLEAN, blocked : BOOLEAN, buffer : Seq(Output), first : BOOLEAN,
           written : 0 .. MaxSent]

NoObject == [slot |-> 0, user |-> FALSE, echo |-> FALSE, blocked |-> FALSE,
             buffer |-> << >>, first |-> TRUE, written |-> 0]

Init ==
    /\ comm = [user |-> [s \in Slots |-> NoUser],
               ring |-> << >>,                      \* from lastuser on
               freeuser |-> [s \in Slots |-> s],
               flush |-> << >>,
               newlines |-> 0, odone |-> 0, nusers |-> 0,
               wait |-> {},                         \* until conn_select()
               obj |-> [c \in Conns |-> NoObject],
               got |-> [c \in Conns |-> NoneGot]]   \* what the peers got
    /\ net = [new |-> Conns, closed |-> {}, read |-> 0]
    /\ pc = [at |-> "loop", i |-> 0, usr |-> 0, next |-> "loop", ops |-> 0]

---------------------------------------------------------------------------
(* Operations on the users m.                                              *)

Conn(m, s) == m.user[s].oindex
Arr(m, s) == m.obj[Conn(m, s)]

AddToFlush(m, s) ==
    IF m.user[s].flush THEN m
    ELSE [m EXCEPT !.flush = << s >> \o @,
                   !.user[s].flush = TRUE,
                   !.user[s].outbuf = Arr(m, s).buffer # << >>]

(* comm_write(): what a peer already got of the first buffer is left out.  *)
IsFirst(m, s) == m.user[s].outbuf /\ Arr(m, s).first
Unsent(m, s) ==
    SubSeq(Arr(m, s).buffer, IF IsFirst(m, s) THEN m.user[s].osdone + 1 ELSE 1,
           Len(Arr(m, s).buffer))

HasRoom(m, s) == Len(Unsent(m, s)) < MAX_STRLEN

PutBuffer(m, s, bytes) ==
    [m EXCEPT !.obj[Conn(m, s)].buffer = bytes, !.obj[Conn(m, s)].first = FALSE]

NewBuffer(m, s, b) ==
    PutBuffer([m EXCEPT !.user[s].odone = FALSE,
                        !.odone = IF m.user[s].odone THEN @ - 1 ELSE @,
                        !.user[s].output = TRUE], s, << b >>)

Buffered(m, s, b) ==
    IF Arr(m, s).buffer = << >> THEN NewBuffer(m, s, b)
    ELSE IF HasRoom(m, s) THEN PutBuffer(m, s, Append(Unsent(m, s), b))
    ELSE m

Write(m, s, b) == Buffered(AddToFlush(m, s), s, b)
IsWritten(m, s) == HasRoom(AddToFlush(m, s), s)

(* The peer gets one byte more.                                            *)
Receives(g, b) ==
    IF b \in {WILL, WONT} THEN [g EXCEPT !.echo = b]
    ELSE IF b = REPLY THEN g
    ELSE IF b = g.upto + 1 THEN [g EXCEPT !.upto = b]
    ELSE [g EXCEPT !.wrong = TRUE]

Reads(g, bytes) ==
    LET after[k \in 0 .. Len(bytes)] ==
          IF k = 0 THEN g ELSE Receives(after[k - 1], bytes[k])
    IN after[Len(bytes)]

(* comm_uflush(): the connection takes the bytes up to n, or the write     *)
(* fails.  A connection that does not take all waits for conn_select() to  *)
(* find out whether it can be written again.                               *)
Sent(m, s, bytes, n) ==
    [m EXCEPT !.got[Conn(m, s)] = Reads(@, SubSeq(bytes, m.user[s].osdone + 1, n)),
              !.user[s].osdone = n]

Waiting(m, s) == [m EXCEPT !.wait = @ \cup {Conn(m, s)}]

Drained(m, s) ==
    [m EXCEPT !.user[s].osdone = 0, !.user[s].output = FALSE, !.user[s].odone = TRUE,
              !.odone = @ + 1, !.obj[Conn(m, s)].buffer = << >>]

UflushBuffer(m, s, bytes, n) ==
    IF n = Len(bytes) THEN Drained(Sent(m, s, bytes, n), s)
    ELSE Waiting(Sent(m, s, bytes, n), s)

UflushWaits(m, s, take, fails) ==
    IF Arr(m, s).buffer = << >> THEN [m EXCEPT !.user[s].output = FALSE]
    ELSE IF fails \/ Conn(m, s) \in m.wait THEN m
    ELSE UflushBuffer(m, s, Arr(m, s).buffer,
                      Min({m.user[s].osdone + take, Len(Arr(m, s).buffer)}))

Uflush(m, s, take, fails) ==
    IF Arr(m, s).buffer # << >> /\ Conn(m, s) \in m.wait THEN m
    ELSE IF Arr(m, s).buffer = << >> \/ fails THEN [m EXCEPT !.user[s].output = FALSE]
    ELSE UflushBuffer(m, s, Arr(m, s).buffer,
                      Min({m.user[s].osdone + take, Len(Arr(m, s).buffer)}))

(* comm_flush(), for one user                                              *)
FlushEchoUnwritten(m, s) ==
    IF Conn(m, s) \in Binary \/ Arr(m, s).echo = m.user[s].echo THEN m
    ELSE [Write(m, s, IF Arr(m, s).echo THEN WONT ELSE WILL)
            EXCEPT !.user[s].echo = Arr(m, s).echo]

FlushEcho(m, s) ==
    IF Conn(m, s) \in Binary \/ Arr(m, s).echo = m.user[s].echo \/ ~IsWritten(m, s) THEN m
    ELSE [Write(m, s, IF Arr(m, s).echo THEN WONT ELSE WILL)
            EXCEPT !.user[s].echo = Arr(m, s).echo]

SentOf(m, s) == IF m.user[s].outbuf /\ ~Arr(m, s).first THEN 0 ELSE m.user[s].osdone

FlushStateKept(m, s) ==
    [m EXCEPT !.user[s].blocked = Arr(m, s).blocked,
              !.user[s].outbuf = FALSE,
              !.obj[Conn(m, s)].first = TRUE]

FlushState(m, s) ==
    [m EXCEPT !.user[s].blocked = Arr(m, s).blocked,
              !.user[s].outbuf = FALSE,
              !.obj[Conn(m, s)].first = TRUE,
              !.user[s].osdone = SentOf(m, s)]

FlushOutput(m, s, take, fails) ==
    IF m.user[s].output THEN Uflush(m, s, take, fails) ELSE m

Unlinked(ring, s) == RemoveAt(ring, CHOOSE k \in DOMAIN ring : ring[k] = s)

DisconnectLines(m, s) ==
    IF Arr(m, s).user THEN m
    ELSE [m EXCEPT !.odone = IF m.user[s].odone THEN @ - 1 ELSE @,
                   !.obj[Conn(m, s)] = NoObject,
                   !.got[Conn(m, s)] = NoneGot,
                   !.user[s] = NoUser,
                   !.ring = Unlinked(@, s),
                   !.freeuser = << s >> \o @,
                   !.nusers = @ - 1]

Disconnect(m, s) ==
    IF Arr(m, s).user THEN m
    ELSE [m EXCEPT !.newlines = @ - m.user[s].newlines,
                   !.odone = IF m.user[s].odone THEN @ - 1 ELSE @,
                   !.obj[Conn(m, s)] = NoObject,
                   !.got[Conn(m, s)] = NoneGot,
                   !.user[s] = NoUser,
                   !.ring = Unlinked(@, s),
                   !.freeuser = << s >> \o @,
                   !.nusers = @ - 1]

FlushUser(m, s, takes) ==
    Disconnect([FlushOutput(FlushState(FlushEcho(m, s), s), s,
                            takes[Conn(m, s)], Conn(m, s) \in net.closed)
                  EXCEPT !.user[s].flush = FALSE], s)

FlushedHead(m, takes) ==
    IF m.flush = << >> THEN m
    ELSE FlushUser([m EXCEPT !.flush = Tail(@)], Head(m.flush), takes)

Flushed(m, takes) ==
    LET after[k \in 0 .. Len(m.flush)] ==
          IF k = 0 THEN [m EXCEPT !.flush = << >>]
          ELSE FlushUser(after[k - 1], m.flush[k], takes)
    IN after[Len(m.flush)]

(* How many bytes each connection takes now.                               *)
Takes == [Conns -> 0 .. MAX_STRLEN]

---------------------------------------------------------------------------
(* Where the process is: in a thread, which then goes on at next, or in a  *)
(* part of comm_receive().                                                 *)
Part(place) == [at |-> place, i |-> 0, usr |-> 0, next |-> "loop", ops |-> 0]

ThreadTo(place) == [Part("thread") EXCEPT !.next = place]

TurnsOf(n) == [Part("turns") EXCEPT !.i = n]

IsUser(c) == comm.obj[c].user

(* One operation of a thread leads to new.  If it is one of atomic code    *)
(* that fails, what it has done to the objects is undone.                  *)
Operation(new) ==
    /\ pc.at = "thread" /\ pc.ops < MaxOps
    /\ comm' \in {new, [new EXCEPT !.obj = comm.obj]}
    /\ pc' = [pc EXCEPT !.ops = @ + 1]
    /\ UNCHANGED net

(* send_message()                                                          *)
Written(m, c) ==
    [Write(m, m.obj[c].slot, m.obj[c].written + 1)
       EXCEPT !.obj[c].written = IF IsWritten(m, m.obj[c].slot) THEN @ + 1 ELSE @]

Send(c) == IsUser(c) /\ comm.obj[c].written < MaxSent /\ Operation(Written(comm, c))

Echo(c) ==
    /\ IsUser(c) /\ c \in Telnet \cap Changed
    /\ Operation([AddToFlush(comm, comm.obj[c].slot) EXCEPT !.obj[c].echo = ~@])

(* block_input()                                                           *)
Block(c) ==
    /\ IsUser(c) /\ c \in Changed
    /\ Operation([AddToFlush(comm, comm.obj[c].slot) EXCEPT !.obj[c].blocked = ~@])

(* destruct_object() of a user, which is comm_close().                     *)
Destruct(c) ==
    /\ IsUser(c)
    /\ Operation([AddToFlush(comm, comm.obj[c].slot) EXCEPT !.obj[c].user = FALSE])

(* endthread(), after an error by errhandler().                            *)
UserGone == pc.next = "input" /\ ~comm.obj[Conn(comm, pc.usr)].user

EndThread ==
    /\ pc.at = "thread"
    /\ \E takes \in Takes : comm' = Flushed(comm, takes)
    /\ \/ pc' = IF UserGone THEN Part("callouts")
                ELSE IF pc.next = "input" THEN [pc EXCEPT !.at = "input", !.next = "loop", !.ops = 0]
                ELSE Part(pc.next)
       \/ pc.next # "loop" /\ pc' = Part("callouts")
    /\ UNCHANGED net

---------------------------------------------------------------------------
(* co_call(), when comm_receive() has returned.                            *)
Callout ==
    /\ pc.at = "callouts"
    /\ pc' = ThreadTo("loop")
    /\ UNCHANGED << comm, net >>

(* comm_receive() begins with conn_select(), comm_taccept() and so         *)
(* comm_new(): the telnet connection is told that it echoes.               *)
Receiving == pc.at \in {"loop", "callouts", "accept"}

(* conn_select() finds out which connections can be written now.           *)
Selected == IF pc.at = "accept" THEN comm ELSE [comm EXCEPT !.wait = {}]

InRing(m) == [m EXCEPT !.ring = Append(@, Head(m.freeuser)), !.freeuser = Tail(@)]

Setup(m, c, s) ==
    [m EXCEPT !.user[s] = [NoUser EXCEPT !.oindex = c], !.nusers = @ + 1,
              !.obj[c] = [@ EXCEPT !.slot = s, !.user = TRUE]]

TelnetUser(m, c, s) ==
    AddToFlush([m EXCEPT !.user[s].echo = TRUE, !.user[s].output = TRUE,
                         !.obj[c].echo = TRUE, !.obj[c].buffer = << WONT >>], s)

New(m, c, s) == IF c \in Telnet THEN TelnetUser(Setup(m, c, s), c, s) ELSE Setup(m, c, s)

Accept(c) ==
    /\ Receiving
    /\ c \in net.new
    /\ comm.nusers < maxusers
    /\ net' = [net EXCEPT !.new = @ \ {c}]
    /\ comm' = New(InRing(Selected), c, Head(comm.freeuser))
    /\ pc' = ThreadTo("accept")

(* The next user: its output first.                                        *)
Rotated(m) == [m EXCEPT !.ring = Append(Tail(@), Head(@))]

(* "no input on this connection"                                           *)
InputOf(m, s, n) ==
    IF m.user[s].blocked THEN TurnsOf(n)
    ELSE [Part("input") EXCEPT !.i = n, !.usr = s]

MessageDone(m, s, n) ==
    IF ~m.user[s].odone THEN comm' = m /\ pc' = InputOf(m, s, n)
    ELSE /\ comm' = [m EXCEPT !.user[s].odone = FALSE, !.odone = @ - 1]
         /\ pc' = [ThreadTo("input") EXCEPT !.i = n, !.usr = s]

NextUser(m, n) ==
    LET s == Head(m.ring)
    IN \E take \in 0 .. MAX_STRLEN :
          MessageDone(FlushOutput(Rotated(m), s, take, Conn(m, s) \in net.closed), s, n)

FirstTurn ==
    Receiving /\ comm.nusers > 0 /\ NextUser(Selected, comm.nusers - 1) /\ UNCHANGED net

Turn == pc.at = "turns" /\ pc.i > 0 /\ NextUser(comm, pc.i - 1) /\ UNCHANGED net

NoTurn ==
    /\ \E takes \in Takes :
          \/ Receiving /\ comm.nusers = 0 /\ comm' = Flushed(Selected, takes)
          \/ pc.at = "turns" /\ pc.i = 0 /\ comm' = Flushed(comm, takes)
    /\ pc' = Part("callouts")
    /\ UNCHANGED net

(* Then its input, of connection c.                                        *)
InputFrom(c) == pc.at = "input" /\ Conn(comm, pc.usr) = c

(* The user that blocked its input in message_done().                      *)
Skip ==
    /\ pc.at = "input"
    /\ comm.user[pc.usr].blocked
    /\ pc' = TurnsOf(pc.i)
    /\ UNCHANGED << comm, net >>

(* comm_del(): the connection is closed; then close() is called.           *)
Close(c) ==
    /\ comm' = [AddToFlush(comm, pc.usr) EXCEPT !.obj[c].user = FALSE]
    /\ pc' = ThreadTo("callouts")

NextTurn == comm' = comm /\ pc' = TurnsOf(pc.i)

(* What is read at once.                                                   *)
Chunks(room) == BoundedSeq(Input, Min({MaxRead - net.read, room}))

(* The telnet machine, on p: state, input buffer, lines, answers.          *)
Step(p, b) ==
    LET to(state) == [p EXCEPT !.state = state]
        put(state) == [to(state) EXCEPT !.inbuf = Append(@, "char")]
        line(state) == [to(state) EXCEPT !.inbuf = Append(@, "LF"), !.lines = @ + 1]
        erase == IF p.inbuf # << >> /\ Last(p.inbuf) # "LF"
                 THEN [p EXCEPT !.inbuf = Front(@)] ELSE p
    IN CASE p.state = "TS_DATA" ->
              (CASE b = "IAC" -> to("TS_IAC") [] b = "BS" -> erase
                 [] b = "CR" -> line("TS_CRDATA") [] b = "LF" -> line("TS_DATA")
                 [] b = "NUL" -> p [] OTHER -> put("TS_DATA"))
         [] p.state = "TS_CRDATA" ->
              (CASE b = "IAC" -> to("TS_IAC") [] b = "CR" -> line("TS_CRDATA")
                 [] b \in {"NUL", "LF", "BS"} -> to("TS_DATA") [] OTHER -> put("TS_DATA"))
         [] p.state = "TS_IAC" ->
              (CASE b = "IAC" -> put("TS_DATA") [] b = "SB" -> to("TS_SB")
                 [] b = "DO" -> to("TS_OPT")
                 [] b = "AYT" -> [to("TS_DATA") EXCEPT !.answers = @ + 1]
                 [] OTHER -> to("TS_DATA"))
         [] p.state = "TS_OPT" ->
              [to("TS_DATA") EXCEPT !.answers = IF b = "OPTION" THEN @ + 1 ELSE @]
         [] p.state = "TS_SB" -> IF b = "IAC" THEN to("TS_SE") ELSE p
         [] p.state = "TS_SE" -> IF b = "SE" THEN to("TS_DATA") ELSE to("TS_SB")

Parsed(u, chunk) ==
    LET after[k \in 0 .. Len(chunk)] ==
          IF k = 0 THEN [state |-> u.state, inbuf |-> u.inbuf, lines |-> 0, answers |-> 0]
          ELSE Step(after[k - 1], chunk[k])
    IN after[Len(chunk)]

Answered(m, s, n) ==
    LET after[k \in 0 .. n] == IF k = 0 THEN m ELSE Write(after[k - 1], s, REPLY)
    IN after[n]

Taken(m, s, p) ==
    Answered([m EXCEPT !.user[s].state = p.state, !.user[s].inbuf = p.inbuf,
                       !.user[s].newlines = @ + p.lines, !.newlines = @ + p.lines],
             s, p.answers)

(* The first line goes to the object, if there is one.                     *)
LFs(inbuf) == {k \in DOMAIN inbuf : inbuf[k] = "LF"}

AfterLine(inbuf) == SubSeq(inbuf, Min(LFs(inbuf)) + 1, Len(inbuf))

GiveLine(m, s) ==
    /\ comm' = AddToFlush([m EXCEPT !.user[s].inbuf = AfterLine(@),
                                    !.user[s].newlines = @ - 1,
                                    !.newlines = @ - 1], s)
    /\ pc' = ThreadTo("callouts")

DeliverNew(m, s) ==
    IF m.user[s].newlines = comm.user[s].newlines
    THEN comm' = m /\ pc' = TurnsOf(pc.i)
    ELSE GiveLine(m, s)

Deliver(m, s) ==
    IF m.user[s].newlines = 0
    THEN comm' = m /\ pc' = TurnsOf(pc.i)
    ELSE GiveLine(m, s)

ReadTelnet(chunk) == Deliver(Taken(comm, pc.usr, Parsed(comm.user[pc.usr], chunk)), pc.usr)

(* "add a newline at the end"                                              *)
LastLine(inbuf) == IF Last(inbuf) # "LF" THEN << "LF" >> ELSE << >>

IsFull == Len(comm.user[pc.usr].inbuf) = INBUF_SIZE

MayRead(c) == InputFrom(c) /\ ~comm.user[pc.usr].blocked

TelnetInput(c) ==
    /\ MayRead(c) /\ ~IsFull
    /\ c \notin net.closed
    /\ \E chunk \in Chunks(INBUF_SIZE - Len(comm.user[pc.usr].inbuf)) :
          ReadTelnet(chunk) /\ net' = [net EXCEPT !.read = @ + Len(chunk)]

(* "input buffer full"                                                     *)
TelnetFull(c) ==
    /\ MayRead(c) /\ IsFull
    /\ comm' = AddToFlush([comm EXCEPT !.user[pc.usr].inbuf = << >>], pc.usr)
    /\ pc' = ThreadTo("callouts")
    /\ UNCHANGED net

TelnetClosed(c) ==
    /\ MayRead(c) /\ ~IsFull
    /\ c \in net.closed
    /\ LET u == comm.user[pc.usr]
       IN \/ u.inbuf # << >> /\ ReadTelnet(LastLine(u.inbuf))
          \/ u.inbuf = << >> /\ ~u.output /\ Close(c)
          \/ u.inbuf = << >> /\ u.output /\ NextTurn
    /\ UNCHANGED net

BinaryInput(c) ==
    /\ MayRead(c)
    /\ c \notin net.closed
    /\ \/ NextTurn /\ UNCHANGED net
       \/ /\ net.read < MaxRead
          /\ net' = [net EXCEPT !.read = @ + 1]
          /\ comm' = comm
          /\ pc' = ThreadTo("callouts")

BinaryClosed(c) ==
    /\ MayRead(c)
    /\ c \in net.closed
    /\ IF comm.user[pc.usr].output THEN NextTurn ELSE Close(c)
    /\ UNCHANGED net

---------------------------------------------------------------------------
(* A peer goes away.                                                       *)
HangUp(c) ==
    /\ IsUser(c)
    /\ c \notin net.closed
    /\ net' = [net EXCEPT !.closed = @ \cup {c}]
    /\ UNCHANGED << comm, pc >>

Process ==
    \/ \E c \in Conns : Send(c) \/ Echo(c) \/ Block(c) \/ Destruct(c)
    \/ EndThread \/ Callout
    \/ \E c \in Conns : Accept(c)
    \/ FirstTurn \/ Turn \/ NoTurn \/ Skip
    \/ \E c \in Telnet : TelnetInput(c) \/ TelnetFull(c) \/ TelnetClosed(c)
    \/ \E c \in Binary : BinaryInput(c) \/ BinaryClosed(c)

Next == Process \/ \E c \in Conns : HangUp(c)

Spec == Init /\ [][Next]_vars

(* dgd_main() never stops and threads end: there are steps of the process  *)
(* for ever.  Some step of it is always possible, so this is its weak      *)
(* fairness, said without ENABLED.                                         *)
FairSpec == Spec /\ []<><<Process>>_vars

---------------------------------------------------------------------------
(* Properties.                                                             *)

(* Every variable keeps its type.                                          *)
TypeOK ==
    /\ comm \in [user : [Slots -> User], ring : Seq(Slots), freeuser : Seq(Slots),
                 flush : Seq(Slots), newlines : Nat, odone : Nat, nusers : 0 .. maxusers,
                 wait : SUBSET Conns,
                 obj : [Conns -> Object], got : [Conns -> Got]]
    /\ net \in [new : SUBSET Conns, closed : SUBSET Conns, read : 0 .. MaxRead]

InUse == {s \in Slots : Conn(comm, s) # NoConn}

(* The lines that users m have in their input buffers.                     *)
Lines(m) ==
    LET sum[n \in 0 .. maxusers] == IF n = 0 THEN 0 ELSE sum[n - 1] + m.user[n].newlines
    IN sum[maxusers]

(* The counts that comm_receive() goes by, of the lines in all input       *)
(* buffers, of the users whose message_done() is due and of all users, are *)
(* right whatever becomes of the users that are counted.                   *)
Counted ==
    /\ comm.newlines = Lines(comm)
    /\ comm.odone = Cardinality({s \in Slots : comm.user[s].odone})
    /\ comm.nusers = Cardinality(InUse)
    /\ \A s \in Slots : comm.user[s].newlines = Cardinality(LFs(comm.user[s].inbuf))

(* The ring from lastuser on and the list from freeuser on share out the   *)
(* users, and a user object has the user that has it.                      *)
RingSound ==
    /\ IsInjective(comm.ring) /\ ToSet(comm.ring) = InUse
    /\ IsInjective(comm.freeuser) /\ ToSet(comm.freeuser) = Slots \ InUse
    /\ \A c \in Conns : comm.obj[c].user => Conn(comm, comm.obj[c].slot) = c

(* The lists and counts of users that comm_receive() goes by.              *)
UsersSound == TypeOK /\ Counted /\ RingSound

(* What the peer of a user is yet to get, from where comm_flush() will     *)
(* send the buffer, and what the peer has got in the end.                  *)
Pending(m, s) == SubSeq(Arr(m, s).buffer, SentOf(m, s) + 1, Len(Arr(m, s).buffer))

InTheEnd(m, s) == Reads(m.got[Conn(m, s)], Pending(m, s))

(* What a peer got and will get, of the buffer in the object and the       *)
(* osdone bytes of it that comm_uflush() has sent already, is all that was *)
(* written to the object, once and in order, but for what atomic code that *)
(* failed has written.                                                     *)
InOrder ==
    \A s \in InUse :
        ~InTheEnd(comm, s).wrong /\ InTheEnd(comm, s).upto = Arr(comm, s).written

(* The last telnet option sent, or about to be, agrees with the CF_ECHO    *)
(* flag of the user: comm_flush() changes it only with the option written. *)
EchoKnown ==
    \A s \in InUse : Conn(comm, s) \in Telnet =>
        InTheEnd(comm, s).echo = (IF comm.user[s].echo THEN WONT ELSE WILL)

(* When comm_receive() finds the input buffer full, and so gives all of it *)
(* to the object as one message, there is no line in it.                   *)
FullWithoutLine ==
    pc.at = "input" /\ IsFull => comm.user[pc.usr].newlines = 0

(* Once comm_receive() has returned, all that threads did is flushed: the  *)
(* blocking of input is that of the object, and objects that are no user   *)
(* any more have none.                                                     *)
Settled ==
    pc.at \in {"loop", "callouts"} =>
        /\ comm.flush = << >>
        /\ \A s \in InUse : /\ comm.user[s].blocked = Arr(comm, s).blocked
                            /\ Arr(comm, s).user

(* A user that blocks its input may wait.                                  *)
Blocked(c) == comm.obj[c].user => comm.obj[c].blocked

(* Every line in an input buffer is given to the object in the end: the    *)
(* users have their turns, although comm_receive() returns after the first *)
(* message.                                                                *)
Heard ==
    \A c \in Telnet :
        []<>(comm.obj[c].user => comm.user[comm.obj[c].slot].newlines = 0 \/ Blocked(c))

(* A connection that its peer has closed is closed here in the end, once   *)
(* the input buffer is empty and no output is pending.                     *)
Noticed ==
    \A c \in Conns : (c \in net.closed) ~> (~comm.obj[c].user \/ Blocked(c))
===========================================================================
