----------------------------- MODULE NmeaReceive -----------------------------
(* The receivers: lines of any number of TCP connections and of one serial *)
(* port, messages of one NMEA 2000 interface.  What they decode they feed  *)
(* to the store.                                                           *)
EXTENDS Pgns

CONSTANTS Links,         \* the TCP connections there may be
          Lines,         \* what may be on a line
          Frames,        \* what may be on the bus
          Exclusive,     \* can the NMEA 2000 interface be opened only once
          Buffered,      \* messages between the bus thread and the reader
          MaxLines, MaxFrames, MaxUnplugs, MaxReceiveStarts

(* Sentences of several parts number them from one.                        *)
ASSUME ReceiveAssumption ==
  /\ \A s \in Lines : s.kind = "VDM" => s.part \in Nat \ {0} /\ s.of \in Nat \ {0}
  /\ "n2k" \notin Links /\ "serial" \notin Links

VARIABLES tcp,           \* "off", "listening", "failed"
          links,         \* connection -> "closed", "open"
          fragments,     \* reader -> what its AIS parser waits for
          serial,        \* the serial reader: "off", "opens", "reads", "waits", "ended"
          plugged,       \* device -> is it there
          n2k,           \* the NMEA 2000 reader: "off", "opens", "reads", "waits"
          holders,       \* the starts whose threads hold the interface
          readStart,     \* the start the reader's own thread and channel are of
          channel,       \* the messages in it
          fed,           \* the last delta fed, its reader and the reader's lines so far
          spoken,        \* reader -> the lines it was sent since it was opened
          lineCount, frameCount, unplugs, starts183, starts2000

tcpVars    == <<tcp, links>>
serialVars == <<serial>>
n2kVars    == <<n2k, holders, readStart, channel, frameCount>>
lineVars   == <<fragments, spoken, lineCount>>
receiveVars == <<tcpVars, serialVars, n2kVars, lineVars, plugged, fed, unplugs,
                 starts183, starts2000>>

Readers == Links \cup {"serial"}
NoFragments == [id |-> Blank, next |-> 1]

ReceiveInit ==
  /\ tcp = "off" /\ links = [l \in Links |-> "closed"]
  /\ fragments = [r \in Readers |-> NoFragments] /\ spoken = [r \in Readers |-> <<>>]
  /\ serial = "off" /\ n2k = "off" /\ holders = {} /\ readStart = 0 /\ channel = <<>>
  /\ plugged = [d \in {"port", "bus"} |-> TRUE]
  /\ fed = Blank
  /\ lineCount = 0 /\ frameCount = 0 /\ unplugs = 0 /\ starts183 = 0 /\ starts2000 = 0

-----------------------------------------------------------------------------
(* A line.                                                                 *)

(* Fragments have to come in order, and of one message.                    *)
parse(waiting, s) ==
  CASE s.part = 1 /\ s.of > 1 -> [waiting |-> [id |-> s.id, next |-> 2], complete |-> FALSE]
    [] s.part = 1 /\ s.of <= 1 -> [waiting |-> waiting, complete |-> TRUE]
    [] s.part # 1 /\ waiting # [id |-> s.id, next |-> s.part] ->
         [waiting |-> waiting, complete |-> FALSE]
    [] OTHER -> [waiting |-> IF s.part = s.of THEN NoFragments
                             ELSE [waiting EXCEPT !.next = @ + 1],
                 complete |-> s.part = s.of]

(* What the parser has found together is the message of its last fragment. *)
try_decode(waiting, s) ==
  IF s.kind # "VDM" \/ ~parse(waiting, s).complete THEN Blank
  ELSE Mapped(to_delta, message_to_contact(s.message))

(* AIS first, then DSC, then the rest.                                     *)
line_to_delta(waiting, s) ==
  CASE s.kind = "VDM" -> try_decode(waiting, s)
    [] s.kind = "DSC" -> try_decode_dsc(s)
    [] OTHER -> IF sentence_to_delta(s) = NoPaths THEN Blank
                ELSE DeltaFor(OwnVessel, sentence_to_delta(s))

Feeds(reader, delta, lines) ==
  fed' = IF delta = Blank THEN fed
         ELSE [reader |-> reader, delta |-> delta, lines |-> lines]

ReadLine(r) ==
  \E s \in Lines :
    /\ lineCount < MaxLines /\ lineCount' = lineCount + 1
    /\ Feeds(r, line_to_delta(fragments[r], s), Append(spoken[r], s))
    /\ fragments' = [fragments EXCEPT ![r] = IF s.kind = "VDM" THEN parse(@, s).waiting ELSE @]
    /\ spoken' = [spoken EXCEPT ![r] = Append(@, s)]

Fresh_shared(r) ==
  spoken' = [spoken EXCEPT ![r] = <<>>] /\ UNCHANGED <<fragments, lineCount>>

(* Every connection, every opening of the port, has a parser of its own.   *)
Fresh(r) ==
  /\ fragments' = [fragments EXCEPT ![r] = NoFragments]
  /\ spoken'    = [spoken EXCEPT ![r] = <<>>]
  /\ UNCHANGED lineCount

-----------------------------------------------------------------------------
(* NMEA 0183 over TCP.                                                     *)

(* An address that is taken ends the task; the plugin counts as started.   *)
StartTcp ==
  /\ tcp = "off" /\ starts183 < MaxReceiveStarts /\ starts183' = starts183 + 1
  /\ tcp' \in {"listening", "failed"}
  /\ UNCHANGED <<links, serialVars, n2kVars, lineVars, plugged, fed, unplugs, starts2000>>

(* The listener goes; the tasks of its connections do not.                 *)
StopTcp ==
  /\ tcp # "off" /\ tcp' = "off"
  /\ UNCHANGED <<links, serialVars, n2kVars, lineVars, plugged, fed, unplugs, starts183,
                 starts2000>>

Accept(l) ==
  /\ tcp = "listening" /\ links[l] = "closed" /\ links' = [links EXCEPT ![l] = "open"]
  /\ Fresh(l)
  /\ UNCHANGED <<tcp, serialVars, n2kVars, plugged, fed, unplugs, starts183, starts2000>>

ReadTcp(l) ==
  /\ links[l] = "open" /\ ReadLine(l)
  /\ UNCHANGED <<tcpVars, serialVars, n2kVars, plugged, unplugs, starts183, starts2000>>

(* By the other side, or by an error.                                      *)
Disconnect(l) ==
  /\ links[l] = "open" /\ links' = [links EXCEPT ![l] = "closed"]
  /\ UNCHANGED <<tcp, serialVars, n2kVars, lineVars, plugged, fed, unplugs, starts183,
                 starts2000>>

TcpNext ==
  StartTcp \/ StopTcp \/ \E l \in Links : Accept(l) \/ ReadTcp(l) \/ Disconnect(l)

-----------------------------------------------------------------------------
(* NMEA 0183 from a serial port.                                           *)

StartSerial ==
  /\ serial = "off" /\ starts183 < MaxReceiveStarts /\ starts183' = starts183 + 1
  /\ serial' = "opens"
  /\ UNCHANGED <<tcpVars, n2kVars, lineVars, plugged, fed, unplugs, starts2000>>

StopSerial ==
  /\ serial # "off" /\ serial' = "off"
  /\ UNCHANGED <<tcpVars, n2kVars, lineVars, plugged, fed, unplugs, starts183, starts2000>>

OpenSerial ==
  /\ serial = "opens"
  /\ IF plugged["port"] THEN serial' = "reads" /\ Fresh("serial")
                        ELSE serial' = "waits" /\ UNCHANGED lineVars
  /\ UNCHANGED <<tcpVars, n2kVars, plugged, fed, unplugs, starts183, starts2000>>

ReadSerial ==
  /\ serial = "reads" /\ plugged["port"] /\ ReadLine("serial")
  /\ UNCHANGED <<tcpVars, serialVars, n2kVars, plugged, unplugs, starts183, starts2000>>

(* An error is waited out; the end of the stream ends the reader for good. *)
SerialFails ==
  /\ serial = "reads" /\ ~plugged["port"]
  /\ serial' \in {"waits", "ended"}
  /\ UNCHANGED <<tcpVars, n2kVars, lineVars, plugged, fed, unplugs, starts183, starts2000>>
RetrySerial_once ==
  /\ serial = "waits" /\ serial' = "ended"
  /\ UNCHANGED <<tcpVars, n2kVars, lineVars, plugged, fed, unplugs, starts183, starts2000>>
RetrySerial ==
  /\ serial = "waits" /\ serial' = "opens"
  /\ UNCHANGED <<tcpVars, n2kVars, lineVars, plugged, fed, unplugs, starts183, starts2000>>

SerialNext ==
  StartSerial \/ StopSerial \/ OpenSerial \/ ReadSerial \/ SerialFails \/ RetrySerial

-----------------------------------------------------------------------------
(* NMEA 2000: a thread that blocks on the bus, and a reader.               *)

StartN2k ==
  /\ n2k = "off" /\ starts2000 < MaxReceiveStarts /\ starts2000' = starts2000 + 1
  /\ n2k' = "opens"
  /\ UNCHANGED <<tcpVars, serialVars, lineVars, holders, readStart, channel, frameCount,
                 plugged, fed, unplugs, starts183>>

(* The reader is gone at once, with its channel; the thread learns of it   *)
(* from the next message.                                                  *)
StopN2k ==
  /\ n2k # "off" /\ n2k' = "off" /\ readStart' = 0 /\ channel' = <<>>
  /\ UNCHANGED <<tcpVars, serialVars, lineVars, holders, frameCount, plugged, fed, unplugs,
                 starts183, starts2000>>

CanOpen == plugged["bus"] /\ (Exclusive => holders = {})
NextHolder == CHOOSE g \in 1 .. 1 + Cardinality(holders) : g \notin holders
OpenN2k ==
  /\ n2k = "opens"
  /\ IF CanOpen THEN /\ n2k' = "reads" /\ readStart' = NextHolder /\ channel' = <<>>
                     /\ holders' = holders \cup {NextHolder}
                ELSE n2k' = "waits" /\ UNCHANGED <<holders, readStart, channel>>
  /\ UNCHANGED <<tcpVars, serialVars, lineVars, frameCount, plugged, fed, unplugs, starts183,
                 starts2000>>

(* A message reaches every thread's interface: the one that is read passes *)
(* it on when there is room, the others find nobody there.                 *)
ThreadReads(g) ==
  /\ g \in holders /\ plugged["bus"]
  /\ IF g # readStart
     THEN holders' = holders \ {g} /\ UNCHANGED <<channel, frameCount>>
     ELSE /\ Len(channel) < Buffered /\ frameCount < MaxFrames /\ frameCount' = frameCount + 1
          /\ \E m \in Frames : channel' = Append(channel, m)
          /\ UNCHANGED holders
  /\ UNCHANGED <<tcpVars, serialVars, lineVars, n2k, readStart, plugged, fed, unplugs,
                 starts183, starts2000>>

(* An interface that is gone ends the thread; any other error is passed    *)
(* over.                                                                   *)
ThreadFails(g) ==
  /\ g \in holders /\ ~plugged["bus"] /\ holders' = holders \ {g}
  /\ UNCHANGED <<tcpVars, serialVars, lineVars, n2k, readStart, channel, frameCount, plugged,
                 fed, unplugs, starts183, starts2000>>

ReadN2k ==
  /\ n2k = "reads" /\ channel # <<>> /\ channel' = Tail(channel)
  /\ Feeds("n2k", decoded_to_delta(Head(channel)), <<>>)
  /\ UNCHANGED <<tcpVars, serialVars, lineVars, n2k, holders, readStart, frameCount, plugged,
                 unplugs, starts183, starts2000>>
ReaderLost ==
  /\ n2k = "reads" /\ channel = <<>> /\ readStart \notin holders
  /\ n2k' = "waits" /\ readStart' = 0
  /\ UNCHANGED <<tcpVars, serialVars, lineVars, holders, channel, frameCount, plugged, fed,
                 unplugs, starts183, starts2000>>
RetryN2k ==
  /\ n2k = "waits" /\ n2k' = "opens"
  /\ UNCHANGED <<tcpVars, serialVars, lineVars, holders, readStart, channel, frameCount,
                 plugged, fed, unplugs, starts183, starts2000>>

N2kNext ==
  \/ StartN2k \/ StopN2k \/ OpenN2k \/ ReadN2k \/ ReaderLost \/ RetryN2k
  \/ \E g \in holders : ThreadReads(g) \/ ThreadFails(g)

-----------------------------------------------------------------------------
(* Somebody pulls a plug, and puts it back.                                *)
Unplug(d) ==
  /\ plugged' = [plugged EXCEPT ![d] = ~@]
  /\ plugged[d] => unplugs < MaxUnplugs
  /\ unplugs' = IF plugged[d] THEN unplugs + 1 ELSE unplugs
  /\ UNCHANGED <<tcpVars, serialVars, n2kVars, lineVars, fed, starts183, starts2000>>

ReceiveSerialNext == SerialNext \/ Unplug("port")
ReceiveN2kNext    == N2kNext \/ Unplug("bus")

ReceiveSpec ==
  ReceiveInit /\ [][TcpNext \/ ReceiveSerialNext \/ ReceiveN2kNext]_receiveVars

(* The readers' own steps, and messages for a thread nobody listens to: a  *)
(* bus is not silent for good.                                             *)
ReceiveFairness ==
  /\ WF_receiveVars(OpenSerial \/ SerialFails \/ RetrySerial)
  /\ WF_receiveVars(OpenN2k \/ ReadN2k \/ ReaderLost \/ RetryN2k)
  /\ \A g \in 1 .. MaxReceiveStarts + MaxUnplugs + 1 :
       WF_receiveVars((g # readStart /\ ThreadReads(g)) \/ ThreadFails(g))

-----------------------------------------------------------------------------
(* A vessel is only ever told what one talker sent of one message, whole   *)
(* and in order: nothing is put together of two connections, nor of what   *)
(* was sent before and after a reconnection.                               *)
Whole(lines) ==
  LET last == lines[Len(lines)]
  IN  \A k \in 1 .. last.of - 1 :
        \E i \in 1 .. Len(lines) - 1 :
          lines[i].kind = "VDM" /\ lines[i].id = last.id /\ lines[i].part = k
OneTalkerPerMessage ==
  (fed # Blank /\ fed.reader \in Readers /\ fed.lines[Len(fed.lines)].kind = "VDM")
    => Whole(fed.lines)

(* A reader that runs gets back to what it reads once that is there again, *)
(* whatever was stopped, started or unplugged before, and whoever still    *)
(* holds the interface; but not a serial port that said it had ended.      *)
ReadersComeBack ==
  /\ serial \in {"opens", "waits"} ~> (serial \in {"reads", "off"} \/ ~plugged["port"])
  /\ n2k \in {"opens", "waits"} ~> (n2k \in {"reads", "off"} \/ ~plugged["bus"])
=============================================================================
