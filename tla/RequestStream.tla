--------------------------- MODULE RequestStream ----------------------------
(* The stream between a device and its service: the requests               *)
(* query_service sends (end-user/simulated_mobile_eu.py), each a length    *)
(* and as many bytes, the machine that finds them in the stream            *)
(* (docker_test_service/simple.py), and the answers, which have no length. *)
(*                                                                         *)
(* TCP keeps the order of the bytes and nothing else: a segment may hold a *)
(* part of a request, or more than one.  Bytes are counted, not told       *)
(* apart: all requests of a device are the same image.  A connection that  *)
(* is given up takes its bytes and its state at the service with it.       *)
EXTENDS Naturals

CONSTANTS
  HeaderSize,     \* bytes of a length (4)
  RequestSize,    \* bytes of a request after its length
  AnswerSize,     \* bytes of an answer
  RecvSize,       \* bytes the device reads at once (1024)
  Window,         \* requests sent before an answer is read (1: the device)
  Cut,            \* TRUE: a part of an answer may arrive before the rest
  MaxRequests,    \* bound: requests on a connection
  MaxConnections  \* bound: connections

(* What the sizes and the bounds are; the theorems of RequestStream_proofs  *)
(* name it as their assumption.                                            *)
StreamAssumption ==
  /\ {HeaderSize, RequestSize, AnswerSize, RecvSize, Window} \subseteq Nat \ {0}
  /\ AnswerSize <= RecvSize
  /\ Cut \in BOOLEAN
  /\ {MaxRequests, MaxConnections} \subseteq Nat

VARIABLES
  sent,         \* requests sent on the connection
  waiting,      \* those the device waits for an answer to
  read,         \* bytes of answers it has read
  upstream,     \* bytes on their way to the service
  data,         \* bytes of the segment that data_received works on
  buf,          \* length of the service's buffer
  byteToRead,   \* byte_to_read: bytes missing, or 0 while it waits for a length
  cnt,          \* requests found
  jobs,         \* of these, not answered yet
  downstream,   \* bytes on their way to the device
  ended,        \* an exception ended stream_request_thread
  connections   \* connections so far (for MaxConnections)

deviceVars == <<sent, waiting, read, ended>>
serviceVars == <<data, buf, byteToRead, cnt, jobs>>
vars == <<deviceVars, upstream, serviceVars, downstream, connections>>

Frame == HeaderSize + RequestSize

Init ==
  /\ sent = 0 /\ waiting = 0 /\ read = 0
  /\ upstream = 0 /\ downstream = 0
  /\ data = 0 /\ buf = 0 /\ byteToRead = 0 /\ cnt = 0 /\ jobs = 0
  /\ ended = FALSE
  /\ connections = 1

-----------------------------------------------------------------------------
(* The device.                                                             *)

(* send_data: sendall returns when all bytes are on their way.             *)
SendData ==
  /\ ~ended
  /\ waiting < Window
  /\ sent < MaxRequests
  /\ sent' = sent + 1
  /\ waiting' = waiting + 1
  /\ upstream' = upstream + Frame
  /\ UNCHANGED <<read, ended, serviceVars, downstream, connections>>

(* What one recv can return.                                               *)
Received == {n \in 1 .. downstream :
  n <= RecvSize /\ (Cut \/ \E k \in 1 .. downstream : n = k * AnswerSize)}

(* recv_data returned something: that is the answer.  A piece that begins  *)
(* inside of an answer can be a number or a string to the YAML parser,     *)
(* which has no 'general': a TypeError nothing catches.                    *)
RecvData ==
  /\ ~ended
  /\ waiting > 0
  /\ \E n \in Received :
       /\ read' = read + n
       /\ downstream' = downstream - n
  /\ waiting' = waiting - 1
  /\ ended' \in {FALSE, Cut /\ \A k \in 0 .. read : read # k * AnswerSize}
  /\ UNCHANGED <<sent, upstream, serviceVars, connections>>

(* Mutant: the device keeps its socket when it has timed out.              *)
TryConnectKept ==
  /\ ~ended
  /\ connections < MaxConnections
  /\ connections' = connections + 1
  /\ waiting' = 0
  /\ UNCHANGED <<sent, read, ended, upstream, serviceVars, downstream>>

(* recv_data timed out or the connection is closed, or send_data failed:   *)
(* query_service drops its socket for a new one.                           *)
TryConnect ==
  /\ ~ended
  /\ connections < MaxConnections
  /\ connections' = connections + 1
  /\ sent' = 0 /\ waiting' = 0 /\ read' = 0
  /\ upstream' = 0 /\ downstream' = 0
  /\ data' = 0 /\ buf' = 0 /\ byteToRead' = 0 /\ cnt' = 0 /\ jobs' = 0
  /\ UNCHANGED ended

-----------------------------------------------------------------------------
(* The service: data_received, and one step for each round of its loop.    *)

DataReceived ==
  /\ data = 0
  /\ \E n \in 1 .. upstream :
       /\ data' = n
       /\ upstream' = upstream - n
  /\ UNCHANGED <<deviceVars, buf, byteToRead, cnt, jobs, downstream, connections>>

(* Mutant: the bytes of the length that came before are not counted.       *)
ReadLengthAtOnce ==
  /\ byteToRead = 0
  /\ IF data < HeaderSize
     THEN /\ buf' = buf + data
          /\ data' = 0
          /\ UNCHANGED byteToRead
     ELSE /\ data' = data - HeaderSize
          /\ byteToRead' = RequestSize
          /\ buf' = 0
  /\ UNCHANGED <<cnt, jobs>>

ReadLength ==
  /\ byteToRead = 0
  /\ IF data < HeaderSize - buf
     THEN /\ buf' = buf + data
          /\ data' = 0
          /\ UNCHANGED byteToRead
     ELSE /\ data' = data - (HeaderSize - buf)
          /\ byteToRead' = RequestSize
          /\ buf' = 0
  /\ UNCHANGED <<cnt, jobs>>

ReadPart ==
  /\ data < byteToRead
  /\ buf' = buf + data
  /\ byteToRead' = byteToRead - data
  /\ data' = 0
  /\ UNCHANGED <<cnt, jobs>>

(* Mutant: what follows a request in its segment is dropped.               *)
ReadRequestOnly ==
  /\ byteToRead > 0 /\ data >= byteToRead
  /\ data' = 0
  /\ buf' = 0
  /\ byteToRead' = 0
  /\ cnt' = cnt + 1
  /\ jobs' = jobs + 1

ReadRequest ==
  /\ byteToRead > 0 /\ data >= byteToRead
  /\ data' = data - byteToRead
  /\ buf' = 0
  /\ byteToRead' = 0
  /\ cnt' = cnt + 1
  /\ jobs' = jobs + 1

Loop ==
  /\ data > 0
  /\ ReadLength \/ ReadPart \/ ReadRequest
  /\ UNCHANGED <<deviceVars, upstream, downstream, connections>>

(* done_cb, in the order of the requests: the loop of the service is busy  *)
(* until data_received is over.                                            *)
DoneCb ==
  /\ data = 0
  /\ jobs > 0
  /\ jobs' = jobs - 1
  /\ downstream' = downstream + AnswerSize
  /\ UNCHANGED <<deviceVars, upstream, data, buf, byteToRead, cnt, connections>>

-----------------------------------------------------------------------------
Next ==
  \/ SendData \/ RecvData \/ TryConnect
  \/ DataReceived \/ Loop \/ DoneCb

Spec == Init /\ [][Next]_vars

(* The network and the service go on, and the device reads.                *)
FairSpec ==
  Spec /\ WF_vars(RecvData) /\ WF_vars(DataReceived) /\ WF_vars(Loop) /\ WF_vars(DoneCb)

-----------------------------------------------------------------------------
(* Properties.                                                             *)

(* Types of all variables.                                                 *)
TypeOK ==
  /\ sent \in Nat /\ waiting \in Nat /\ read \in Nat
  /\ upstream \in Nat /\ downstream \in Nat
  /\ data \in Nat /\ buf \in Nat /\ byteToRead \in Nat
  /\ cnt \in Nat /\ jobs \in Nat
  /\ connections \in Nat
  /\ ended \in BOOLEAN
  /\ waiting <= Window
  /\ buf < Frame /\ byteToRead <= RequestSize

(* However the stream is cut into segments, the service has found the      *)
(* requests whose last byte it has got, and knows what is missing of the   *)
(* next one (simple.py:70-101).                                            *)
Got == sent * Frame - (upstream + data)
Parsed ==
  /\ upstream + data <= sent * Frame
  /\ cnt * Frame <= Got /\ Got < (cnt + 1) * Frame
  /\ IF byteToRead = 0 THEN Got = cnt * Frame + buf
                       ELSE Got + byteToRead = (cnt + 1) * Frame

(* What the device takes for the answer to a request is that request's     *)
(* answer and all of it: "Reports request information to the centralized   *)
(* server" (simulated_mobile_eu.py:379), of which processTime comes from   *)
(* the answer.  Answers carry neither a number nor a length                *)
(* (simple.py:43-49, simulated_mobile_eu.py:327,345).                      *)
InStep == read + waiting * AnswerSize = sent * AnswerSize

(* Device and service never wait for each other: a request whose           *)
(* connection stays is answered.                                           *)
Answered == (waiting > 0) ~> (waiting = 0)
=============================================================================
