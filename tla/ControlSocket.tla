---------------------------- MODULE ControlSocket ----------------------------
(***************************************************************************)
(* The frontend's commands as bytes in a stream socket, and the backend    *)
(* reading them (comm.c): by the SIGIO handler, and by set_receive_sigio() *)
(* itself, which the handler can interrupt.                                *)
(*                                                                         *)
(* A message is "size|type|content".  Commands have no content, so their   *)
(* bytes are digits, here the numbers 0 to 9, and Bar.                     *)
(***************************************************************************)
EXTENDS Naturals, Sequences, SequencesExt

CONSTANTS
    Commands,       \* bound: the commands the user sends
    MaxMessages     \* bound: commands sent

CTRL_PAUSE == 9
CTRL_STOP  == 10

ASSUME SocketAssumption ==
    /\ Commands \subseteq {CTRL_PAUSE, CTRL_STOP}
    /\ MaxMessages \in Nat

VARIABLES
    stream,         \* bytes in the socket
    written,        \* commands sent
    acted,          \* commands the backend has acted upon
    pending,        \* SIGIO raised, its handler not run yet
    direct,         \* handle_ctrl_msg() called by set_receive_sigio()
    handler,        \* handle_ctrl_msg() called by signal_io()
    receiving,      \* whether a write to the socket raises SIGIO for the process
    exited          \* stop_ourselves()

reading == <<direct, handler>>
vars == <<stream, written, acted, pending, reading, receiving, exited>>

Bar  == 99
Byte == 0 .. 9 \cup {Bar}

\* size_len in do_read_ctrl_message()
SizeLen == 5

\* Digits as a number, and back.
Number(digits) ==
    LET number[n \in 0 .. Len(digits)] ==
            IF n = 0 THEN 0 ELSE 10 * number[n - 1] + digits[n]
    IN  number[Len(digits)]
Digits(n)      == IF n < 10 THEN <<n>> ELSE <<n \div 10, n % 10>>

\* comm_send_ctrl_msg(), without content.
Encoded(type) ==
    LET body == Digits(type) \o <<Bar>>
    IN  Digits(Len(body)) \o <<Bar>> \o body

\* A call of handle_ctrl_msg(): off, or in one of the system calls of
\* do_read_ctrl_message(): "poll" and "select" see whether there is something
\* to read, "size" and "read" read and wait for it if there is not.
Call == [pc : {"off", "poll", "size", "select", "read"},
         size : Seq(0 .. 9), want : Nat, body : Seq(Byte)]
Off  == [pc |-> "off", size |-> <<>>, want |-> 0, body |-> <<>>]
Poll == [Off EXCEPT !.pc = "poll"]

\* No call reads more into a buffer than fits, whoever else reads the stream.
TypeOK ==
    /\ stream \in Seq(Byte)
    /\ written \in Seq(Commands)
    /\ acted \in Seq(Nat)
    /\ pending \in BOOLEAN
    /\ direct \in Call /\ handler \in Call
    /\ \A c \in {direct, handler} :
         Len(c.size) < SizeLen /\ (c.pc # "off" => Len(c.body) <= c.want)
    /\ receiving \in BOOLEAN
    /\ exited \in BOOLEAN

Init ==
    /\ stream = <<>>
    /\ written = <<>>
    /\ acted = <<>>
    /\ pending = FALSE
    /\ direct = Off
    /\ handler = Off
    /\ receiving = FALSE
    /\ exited = FALSE

-----------------------------------------------------------------------------
\* One write() for the whole message; the kernel raises SIGIO.
comm_send_ctrl_msg(type) ==
    /\ Len(written) < MaxMessages
    /\ ~exited
    /\ stream' = stream \o Encoded(type)
    /\ written' = Append(written, type)
    /\ pending' = receiving
    /\ UNCHANGED <<acted, reading, receiving, exited>>

\* set_receive_sigio(): the handler is installed, then what came before is read.
set_receive_sigio ==
    /\ ~receiving
    /\ receiving' = TRUE
    /\ direct' = Poll
    /\ UNCHANGED <<stream, written, acted, pending, handler, exited>>

\* signal_io() interrupts whatever the process does, except itself.
signal_io ==
    /\ pending
    /\ handler.pc = "off"
    /\ ~exited
    /\ pending' = FALSE
    /\ handler' = Poll
    /\ UNCHANGED <<stream, written, acted, direct, receiving, exited>>

-----------------------------------------------------------------------------
(***************************************************************************)
(* The steps of a call c; it becomes new.  The process executes the        *)
(* handler as long as it is on.                                            *)
(***************************************************************************)
Becomes(isHandler, new) ==
    IF isHandler THEN handler' = new /\ UNCHANGED direct
    ELSE direct' = new /\ UNCHANGED handler

Running(isHandler) ==
    IF isHandler THEN handler ELSE IF handler.pc = "off" THEN direct ELSE Off

\* The answers of is_read_available(): a select() that a signal has interrupted
\* counts as one that has found something.
is_read_available == IF stream = <<>> THEN BOOLEAN ELSE {TRUE}

poll(isHandler) ==
    /\ Running(isHandler).pc = "poll"
    /\ \E available \in is_read_available :
           Becomes(isHandler, IF available THEN [Poll EXCEPT !.pc = "size"] ELSE Off)
    /\ UNCHANGED <<stream, written, acted, pending, receiving, exited>>

\* (mutant: the size is taken to include its own bar)
size_with_bar(digits) == Number(digits) + 1

\* What is to be read after a size.
size_of(digits) == Number(digits)

\* One byte of the size.  A size of zero, or one too long, ends the call.
read_size(isHandler) ==
    /\ Running(isHandler).pc = "size"
    /\ stream # <<>>
    /\ stream' = Tail(stream)
    /\ LET c    == Running(isHandler)
           byte == Head(stream)
           size == size_of(c.size)
       IN  Becomes(isHandler,
             IF byte # Bar
               THEN IF Len(c.size) + 1 = SizeLen THEN Off
                    ELSE [c EXCEPT !.size = Append(@, byte)]
             ELSE IF size = 0 THEN Off
             ELSE [Poll EXCEPT !.pc = "select", !.want = size])
    /\ UNCHANGED <<written, acted, pending, receiving, exited>>

\* (mutant: one message per signal)
first_only == Off

\* What handle_ctrl_msg() does after a message.
next_message == Poll

\* comm_read_ctrl_message() gets the body and returns a message, or NULL if
\* there is no type in it; handle_ctrl_msg() acts and goes on, or returns.
act_upon(isHandler, body) ==
    LET bars == {i \in DOMAIN body : body[i] = Bar}
        bar  == CHOOSE i \in bars : \A j \in bars : i <= j
        type == Number(SubSeq(body, 1, bar - 1))
    IN  IF bars = {}
          THEN Becomes(isHandler, Off) /\ UNCHANGED <<acted, exited>>
          ELSE /\ Becomes(isHandler, next_message)
               /\ acted' = IF type \in {CTRL_PAUSE, CTRL_STOP} THEN Append(acted, type)
                           ELSE acted
               /\ exited' = (type = CTRL_STOP)

\* The condition of the loop of socket_read_max(), and what follows it.
select_body(isHandler) ==
    /\ Running(isHandler).pc = "select"
    /\ LET c == Running(isHandler)
       IN  \/ /\ Len(c.body) < c.want /\ TRUE \in is_read_available
              /\ Becomes(isHandler, [c EXCEPT !.pc = "read"])
              /\ UNCHANGED <<acted, exited>>
           \/ /\ Len(c.body) < c.want => FALSE \in is_read_available
              /\ act_upon(isHandler, c.body)
    /\ UNCHANGED <<stream, written, pending, receiving>>

\* (mutant: the rest of the message is not what is asked for)
all_there_is(c) == Len(stream)

\* The read() in that loop takes what there is, up to what is wanted.
now_read(c) ==
    LET rest == c.want - Len(c.body)
    IN  IF Len(stream) < rest THEN Len(stream) ELSE rest

read_body(isHandler) ==
    /\ Running(isHandler).pc = "read"
    /\ stream # <<>>
    /\ LET c == Running(isHandler)
           n == now_read(c)
       IN  /\ Becomes(isHandler, [c EXCEPT !.pc = "select",
                                           !.body = @ \o SubSeq(stream, 1, n)])
           /\ stream' = SubSeq(stream, n + 1, Len(stream))
    /\ UNCHANGED <<written, acted, pending, receiving, exited>>

handle_ctrl_msg(isHandler) ==
    /\ ~exited
    /\ \/ poll(isHandler)
       \/ read_size(isHandler)
       \/ select_body(isHandler)
       \/ read_body(isHandler)

Next ==
    \/ \E type \in Commands : comm_send_ctrl_msg(type)
    \/ set_receive_sigio
    \/ signal_io
    \/ \E isHandler \in BOOLEAN : handle_ctrl_msg(isHandler)

Spec == Init /\ [][Next]_vars

\* A raised signal is delivered and the process goes on; nothing is assumed of
\* the user.
FairSpec ==
    /\ Spec
    /\ WF_vars(signal_io)
    /\ \A isHandler \in BOOLEAN : WF_vars(handle_ctrl_msg(isHandler))

-----------------------------------------------------------------------------
\* The handler has interrupted set_receive_sigio() while that reads.
Nested == direct.pc # "off" /\ handler.pc # "off"

\* As long as the handler has not done so, the backend acts upon the commands
\* that were sent, in that order, each of them once: however signals and writes
\* fall between the reads of a message, none is torn (what Execution takes for
\* granted).
CommandsIntact == []~Nested => []IsPrefix(acted, written)

\* Under the same condition every command is acted upon in the end, unless a
\* stop came before it: one that is written while another is read, or between
\* the last look at the socket and the return of the handler, is not left there.
AllActedUpon ==
    []~Nested => ((receiving /\ Len(acted) < Len(written)) ~> (acted = written \/ exited))

\* backend.c:99: handle_ctrl_msg() "Reads all available messages from the control
\* socket and acts upon them."
AllAvailableActedUpon ==
    (receiving /\ Len(acted) < Len(written)) ~> (acted = written \/ exited)

\* comm.c:268: socket_read_max() "Returns number of bytes read, or zero if there
\* is nothing on the socket for reading", and so set_receive_sigio() returns,
\* whatever the user does: nobody else looks after the child meanwhile.
DirectReadReturns == (direct.pc = "poll") ~> (direct.pc = "off" \/ exited)
=============================================================================
