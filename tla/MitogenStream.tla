---------------------------- MODULE MitogenStream ----------------------------
(***************************************************************************)
(* Messages on a stream: BufferedWriter, Side, Stream and MitogenProtocol  *)
(* of mitogen/core.py, one process sending and another receiving.  Writes  *)
(* and reads take whatever part of the bytes the pipe has room for or      *)
(* holds; the receiver keeps what it read in chunks, and takes messages    *)
(* from them as soon as they are whole.  A byte is <<message, position>>.  *)
(***************************************************************************)
EXTENDS Naturals, Sequences, SequencesExt, FiniteSetsExt

CONSTANTS
    Sizes,          \* sequences of message sizes, without the header
    Header,         \* Message.HEADER_LEN
    Joined,         \* a chunk is joined to one before when less than this is buffered
    MaxSize,        \* Router.max_message_size of the receiver
    Room            \* of the pipe

ASSUME StreamAssumption ==
    /\ Sizes \subseteq Seq(Nat) /\ MaxSize \in Nat /\ Room \in Nat
    /\ Header \in Nat \ {0} /\ Joined \in Nat /\ Header <= Joined

VARIABLES
    sizes, written,     \* the messages, and how many were given to the writer
    buf, len,           \* BufferedWriter._buf and _len
    writing,            \* the poller waits for writeability
    channel,            \* the pipe
    inputBuf, held,     \* _input_buf, in chunks, and _input_buf_len
    parsing,            \* on_receive() is in its loop
    arrived,            \* the data of the messages passed to _async_route()
    sender, receiver    \* "open", "closed" or "crashed"

streamVars == <<sizes, written, buf, len, writing, channel, inputBuf, held, parsing, arrived,
                sender, receiver>>

Bytes(m) == [k \in 1..(Header + sizes[m]) |-> <<m, k>>]
Data(m) == SubSeq(Bytes(m), Header + 1, Header + sizes[m])

StreamTypeOK ==
    /\ written \in 0..Len(sizes) /\ len \in Nat /\ writing \in BOOLEAN /\ parsing \in BOOLEAN
    /\ Len(channel) <= Room /\ held \in Nat
    /\ {sender, receiver} \subseteq {"open", "closed", "crashed"}

StreamInit ==
    /\ sizes \in Sizes /\ written = 0
    /\ buf = <<>> /\ len = 0 /\ writing = FALSE
    /\ channel = <<>> /\ inputBuf = <<>> /\ held = 0 /\ parsing = FALSE /\ arrived = <<>>
    /\ sender = "open" /\ receiver = "open"

From(s, n) == SubSeq(s, n + 1, Len(s))

----------------------------------------------------------------------------
(* The sender's broker.                                                    *)

Sender == sender = "open" /\ UNCHANGED <<sizes, inputBuf, held, parsing, arrived, receiver>>
\* Side.write(): how much the pipe takes; nothing when it is full, or broken.
Takes(s) == IF receiver # "open" \/ Len(channel) = Room THEN {0}
            ELSE 1..Min({Len(s), Room - Len(channel)})
Into(s, n) == channel' = channel \o SubSeq(s, 1, n)

\* MitogenProtocol._send() and BufferedWriter.write(): at once when nothing waits before it.
WriteMessage ==
    /\ Sender /\ written < Len(sizes)
    /\ LET s == Bytes(written + 1) IN
       \E n \in IF len = 0 THEN Takes(s) ELSE {0} :
          /\ Into(s, n)
          /\ IF n = Len(s) THEN UNCHANGED <<buf, len, writing>>
             ELSE buf' = Append(buf, From(s, n)) /\ len' = len + Len(s) - n /\ writing' = TRUE
    /\ written' = written + 1
    /\ UNCHANGED sender

\* Slip: what could not be written goes behind what waits.
RestLast(n) == IF n = Len(Head(buf)) THEN Tail(buf) ELSE Append(Tail(buf), From(Head(buf), n))
\* What on_transmit() leaves in the buffer.
Rest(n) == IF n = Len(Head(buf)) THEN Tail(buf) ELSE <<From(Head(buf), n)>> \o Tail(buf)
Transmit ==
    /\ Sender /\ writing /\ buf # <<>> /\ receiver = "open" /\ Len(channel) < Room
    /\ \E n \in Takes(Head(buf)) :
          /\ Into(Head(buf), n)
          /\ buf' = Rest(n) /\ len' = len - n
          /\ writing' = (Rest(n) # <<>>)
    /\ UNCHANGED <<written, sender>>
\* A disconnection is detected by the write; what was taken from the buffer is lost.
TransmitFails ==
    /\ Sender /\ writing /\ buf # <<>> /\ receiver # "open"
    /\ buf' = Tail(buf) /\ writing' = FALSE /\ sender' = "closed"
    /\ UNCHANGED <<written, len, channel>>
\* Stream.on_disconnect().
Hangup ==
    /\ Sender
    /\ sender' = "closed" /\ writing' = FALSE
    /\ UNCHANGED <<written, buf, len, channel>>

----------------------------------------------------------------------------
(* The receiver's broker.                                                  *)

Receiver == receiver = "open" /\ UNCHANGED <<sizes, written, buf, len, writing, sender>>

Buffered(s) ==
    IF inputBuf # <<>> /\ held < Joined THEN <<Head(inputBuf) \o s>> \o Tail(inputBuf)
    ELSE Append(inputBuf, s)
\* Stream.on_receive() and MitogenProtocol.on_receive().
Receive ==
    /\ Receiver /\ ~parsing /\ channel # <<>>
    /\ \E n \in 1..Len(channel) :
          /\ inputBuf' = Buffered(SubSeq(channel, 1, n)) /\ held' = held + n
          /\ channel' = From(channel, n)
    /\ parsing' = TRUE
    /\ UNCHANGED <<arrived, receiver>>
\* An empty read.
ReceiveEnd ==
    /\ Receiver /\ ~parsing /\ channel = <<>> /\ sender # "open"
    /\ receiver' = "closed"
    /\ UNCHANGED <<channel, inputBuf, held, parsing, arrived>>

\* The header is looked for in the first chunk alone.
First == Head(inputBuf)
Readable == Len(First) >= Header
Sound == First[1][2] = 1
Size == sizes[First[1][1]]
\* The chunks that a message of this length is in, in one; the rest of the last goes back.
Spanned(total) == CHOOSE n \in 1..Len(inputBuf) :
                      /\ Len(FlattenSeq(SubSeq(inputBuf, 1, n))) >= total
                      /\ Len(FlattenSeq(SubSeq(inputBuf, 1, n - 1))) < total
Taken(total) == FlattenSeq(SubSeq(inputBuf, 1, Spanned(total)))

ReceiveOne ==
    /\ Receiver /\ parsing /\ held >= Header
    /\ Readable /\ Sound /\ Size <= MaxSize /\ held >= Header + Size
    /\ LET total == Header + Size IN
       /\ arrived' = Append(arrived, SubSeq(Taken(total), Header + 1, total))
       /\ inputBuf' = <<From(Taken(total), total)>> \o From(inputBuf, Spanned(total))
       /\ held' = held - total
    /\ UNCHANGED <<channel, parsing, receiver>>
ReceivesMore ==
    /\ Receiver /\ parsing
    /\ held < Header \/ (Readable /\ Sound /\ Size <= MaxSize /\ held < Header + Size)
    /\ parsing' = FALSE
    /\ UNCHANGED <<channel, inputBuf, held, arrived, receiver>>
\* A message that is too large disconnects; so would a frame without its signature.  A
\* header that is not in one chunk raises, and Broker._call() disconnects the stream.
Refuse ==
    /\ Receiver /\ parsing /\ held >= Header
    /\ ~Readable \/ ~Sound \/ Size > MaxSize
    /\ parsing' = FALSE /\ receiver' = IF Readable /\ Sound THEN "closed" ELSE "crashed"
    /\ UNCHANGED <<channel, inputBuf, held, arrived>>

StreamNext == WriteMessage \/ Transmit \/ TransmitFails \/ Hangup
            \/ Receive \/ ReceiveEnd \/ ReceiveOne \/ ReceivesMore \/ Refuse
StreamSpec == StreamInit /\ [][StreamNext]_streamVars

----------------------------------------------------------------------------

Sum(ss) == Len(FlattenSeq(ss))

\* However the bytes are cut up on their way, messages arrive whole, once and in the order
\* they were sent, and the stream never crashes on what it reads.  While both ends are open
\* no byte is lost, what the writer holds is counted, as the file service relies on to limit
\* it, and the poller waits to write it.
StreamKeepsMessages ==
    /\ \A m \in DOMAIN arrived : arrived[m] = Data(m)
    /\ receiver # "crashed"
    /\ sender = "open" => (len = Sum(buf) /\ (buf # <<>> => writing))
    /\ sender = "open" /\ receiver = "open" =>
           FlattenSeq([m \in 1..written |-> Bytes(m)]) =
               FlattenSeq([m \in DOMAIN arrived |-> Bytes(m)])
                   \o FlattenSeq(inputBuf) \o channel \o FlattenSeq(buf)
=============================================================================
