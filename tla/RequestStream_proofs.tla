----------------------- MODULE RequestStream_proofs ------------------------
(* Proofs about RequestStream: for all sizes of lengths, requests and      *)
(* answers, all segments and any number of requests and connections.       *)
EXTENDS RequestStream, TLAPS

(* Facts of arithmetic on multiples.                                       *)
LEMMA OneMore ==
  ASSUME NEW n \in Nat, NEW F \in Nat
  PROVE  n * F \in Nat /\ (n + 1) * F = n * F + F
BY Z3

LEMMA FewerMultiples ==
  ASSUME NEW n \in Nat, NEW m \in Nat, NEW F \in Nat \ {0}, n * F <= m * F
  PROVE  n <= m
<1>1. SUFFICES ASSUME m + 1 <= n PROVE FALSE
  OBVIOUS
<1>2. PICK k \in Nat : n = (m + 1) + k
  <2>1. n - (m + 1) \in Nat
    BY <1>1
  <2> QED
    BY <2>1
<1>3. n * F = m * F + F + k * F
  BY <1>2, Z3
<1>4. k * F \in Nat /\ m * F \in Nat
  BY OneMore, <1>2
<1> QED
  BY <1>3, <1>4

LEMMA MoreMultiples ==
  ASSUME NEW n \in Nat, NEW m \in Nat, NEW F \in Nat \ {0}, n <= m
  PROVE  n * F <= m * F
<1>1. PICK k \in Nat : m = n + k
  <2>1. m - n \in Nat
    OBVIOUS
  <2> QED
    BY <2>1
<1>2. m * F = n * F + k * F
  BY <1>1, Z3
<1>3. k * F \in Nat /\ n * F \in Nat
  BY OneMore
<1> QED
  BY <1>2, <1>3

LEMMA FewestMultiples ==
  ASSUME NEW k \in Nat \ {0}, NEW F \in Nat
  PROVE  k * F >= F
<1>1. PICK j \in Nat : k = j + 1
  <2>1. k - 1 \in Nat
    OBVIOUS
  <2> QED
    BY <2>1
<1> QED
  BY <1>1, OneMore

(* Sizes are numbers of bytes, at least one.                               *)
LEMMA Sizes ==
  ASSUME StreamAssumption
  PROVE
  /\ HeaderSize \in Nat /\ HeaderSize > 0
  /\ RequestSize \in Nat /\ RequestSize > 0
  /\ AnswerSize \in Nat /\ AnswerSize > 0
  /\ Window \in Nat
  /\ Frame \in Nat /\ Frame > 0 /\ Frame = HeaderSize + RequestSize
BY StreamAssumption DEF StreamAssumption, Frame

-----------------------------------------------------------------------------
(* The service.                                                            *)

(* While it waits for a length, the buffer holds a part of one; while it   *)
(* waits for a request, the part it has got already.                       *)
Buffered ==
  IF byteToRead = 0 THEN buf < HeaderSize ELSE buf + byteToRead = RequestSize

IParsed == TypeOK /\ Buffered /\ Parsed

LEMMA InitParsed ==
  ASSUME StreamAssumption
  PROVE  Init => IParsed
<1> SUFFICES ASSUME Init PROVE IParsed
  OBVIOUS
<1>1. TypeOK /\ Buffered
  <2>1. ended \in BOOLEAN
    BY DEF Init
  <2> QED
    BY <2>1, Sizes DEF Init, TypeOK, Buffered
<1>2. 0 * Frame = 0 /\ (0 + 1) * Frame = Frame
  BY OneMore, Sizes
<1>3. Parsed
  BY <1>2, Sizes DEF Init, Parsed, Got
<1> QED
  BY <1>1, <1>3 DEF IParsed

LEMMA NextParsed ==
  ASSUME StreamAssumption
  PROVE  IParsed /\ [Next]_vars => IParsed'
<1> SUFFICES ASSUME IParsed, [Next]_vars PROVE IParsed'
  OBVIOUS
<1> USE DEF IParsed, TypeOK
<1>1. /\ sent * Frame \in Nat /\ (sent + 1) * Frame = sent * Frame + Frame
      /\ cnt * Frame \in Nat /\ (cnt + 1) * Frame = cnt * Frame + Frame
      /\ ((cnt + 1) + 1) * Frame = (cnt + 1) * Frame + Frame
  BY OneMore, Sizes
<1>2. CASE SendData
  BY <1>1, <1>2, Sizes DEF SendData, serviceVars, Buffered, Parsed, Got
<1>3. CASE RecvData
  <2>1. PICK n \in Received : read' = read + n /\ downstream' = downstream - n
    BY <1>3 DEF RecvData
  <2>2. n \in 1 .. downstream
    BY <2>1 DEF Received
  <2>3. ended' \in BOOLEAN
    BY <1>3 DEF RecvData
  <2>4. TypeOK'
    BY <1>3, <2>1, <2>2, <2>3, Sizes DEF RecvData, serviceVars
  <2>5. Buffered' /\ Parsed'
    BY <1>3 DEF RecvData, serviceVars, Buffered, Parsed, Got
  <2> QED
    BY <2>4, <2>5
<1>4. CASE TryConnect
  <2>1. 0 * Frame = 0 /\ (0 + 1) * Frame = Frame
    BY OneMore, Sizes
  <2> QED
    BY <1>4, <2>1, Sizes DEF TryConnect, Buffered, Parsed, Got
<1>5. CASE DataReceived
  BY <1>1, <1>5, Sizes DEF DataReceived, deviceVars, Buffered, Parsed, Got
<1>6. CASE Loop
  <2>1. CASE ReadLength
    <3>1. TypeOK' /\ Buffered'
      BY <1>6, <2>1, Sizes DEF Loop, ReadLength, deviceVars, Buffered
    <3>2. Parsed'
      BY <1>1, <1>6, <2>1, Sizes DEF Loop, ReadLength, deviceVars, Buffered, Parsed, Got
    <3> QED
      BY <3>1, <3>2
  <2>2. CASE ReadPart
    <3>1. TypeOK' /\ Buffered'
      BY <1>6, <2>2, Sizes DEF Loop, ReadPart, deviceVars, Buffered
    <3>2. Parsed'
      BY <1>1, <1>6, <2>2, Sizes DEF Loop, ReadPart, deviceVars, Buffered, Parsed, Got
    <3> QED
      BY <3>1, <3>2
  <2>3. CASE ReadRequest
    BY <1>1, <1>6, <2>3, Sizes DEF Loop, ReadRequest, deviceVars, Buffered, Parsed, Got
  <2> QED
    BY <1>6, <2>1, <2>2, <2>3 DEF Loop
<1>7. CASE DoneCb
  BY <1>7, Sizes DEF DoneCb, deviceVars, Buffered, Parsed, Got
<1>8. CASE UNCHANGED vars
  BY <1>8 DEF vars, deviceVars, serviceVars, Buffered, Parsed, Got
<1> QED
  BY <1>2, <1>3, <1>4, <1>5, <1>6, <1>7, <1>8 DEF Next

LEMMA ParsedInvariant ==
  ASSUME StreamAssumption
  PROVE  Spec => []IParsed
BY InitParsed, NextParsed, PTL DEF Spec

(* All variables keep their types, the buffer never holds more than a      *)
(* length and a request (simple.py:70-101).                                *)
THEOREM TypesHold ==
  ASSUME StreamAssumption
  PROVE  Spec => []TypeOK
<1>1. IParsed => TypeOK
  BY DEF IParsed
<1> QED
  BY <1>1, ParsedInvariant, PTL

(* The service finds the requests that were sent, however the stream is    *)
(* cut and however many requests are on their way (simple.py:64-113).      *)
THEOREM RequestsFound ==
  ASSUME StreamAssumption
  PROVE  Spec => []Parsed
<1>1. IParsed => Parsed
  BY DEF IParsed
<1> QED
  BY <1>1, ParsedInvariant, PTL

-----------------------------------------------------------------------------
(* The device.                                                             *)

(* Each request found is still computed, or its answer is on its way or    *)
(* has been read.                                                          *)
Accounted == read + downstream + jobs * AnswerSize = cnt * AnswerSize

IInStep == IParsed /\ Accounted /\ InStep

LEMMA InitInStep ==
  ASSUME StreamAssumption
  PROVE  Init => IInStep
<1> SUFFICES ASSUME Init PROVE IInStep
  OBVIOUS
<1>1. 0 * AnswerSize = 0
  BY OneMore, Sizes
<1>2. IParsed
  BY InitParsed
<1>3. Accounted /\ InStep
  BY <1>1 DEF Init, Accounted, InStep
<1> QED
  BY <1>2, <1>3 DEF IInStep

(* No more requests are found than were sent.                              *)
LEMMA FoundWereSent ==
  ASSUME StreamAssumption
  PROVE  IParsed => cnt <= sent
<1> SUFFICES ASSUME IParsed PROVE cnt <= sent
  OBVIOUS
<1>1. cnt * Frame \in Nat /\ sent * Frame \in Nat
  BY OneMore, Sizes DEF IParsed, TypeOK
<1>2. cnt * Frame <= sent * Frame
  BY <1>1 DEF IParsed, TypeOK, Parsed, Got
<1> QED
  BY <1>2, FewerMultiples, Sizes DEF IParsed, TypeOK

(* A device that has one request under way, and reads an answer that comes *)
(* whole, reads the answer to that request.                                *)
LEMMA ReadsItsAnswer ==
  ASSUME StreamAssumption, IInStep, Window = 1, ~Cut, waiting > 0, NEW n \in Received
  PROVE  n = AnswerSize
<1> USE DEF IInStep, IParsed, TypeOK
<1>1. n \in 1 .. downstream /\ \E k \in 1 .. downstream : n = k * AnswerSize
  BY DEF Received
<1>2. PICK k \in Nat \ {0} : n = k * AnswerSize
  BY <1>1
<1>3. n >= AnswerSize
  BY <1>2, FewestMultiples, Sizes
<1>4. waiting * AnswerSize = AnswerSize
  <2>1. waiting = 0 + 1
    OBVIOUS
  <2>2. 0 * AnswerSize = 0
    BY OneMore, Sizes
  <2> QED
    BY <2>1, <2>2, OneMore, Sizes
<1>5. cnt * AnswerSize <= sent * AnswerSize
  BY FoundWereSent, MoreMultiples, Sizes
<1>6. /\ jobs * AnswerSize \in Nat /\ cnt * AnswerSize \in Nat
      /\ sent * AnswerSize \in Nat
  BY OneMore, Sizes
<1>7. AnswerSize \in Nat /\ AnswerSize > 0
  BY Sizes
<1> QED
  BY <1>1, <1>3, <1>4, <1>5, <1>6, <1>7 DEF Accounted, InStep

LEMMA NextInStep ==
  ASSUME StreamAssumption, Window = 1, ~Cut
  PROVE  IInStep /\ [Next]_vars => IInStep'
<1> SUFFICES ASSUME IInStep, [Next]_vars PROVE Accounted' /\ InStep'
  BY NextParsed DEF IInStep
<1> USE DEF IInStep, IParsed, TypeOK
<1>1. \A k \in {sent, waiting, cnt, jobs} :
        k * AnswerSize \in Nat /\ (k + 1) * AnswerSize = k * AnswerSize + AnswerSize
  BY OneMore, Sizes
<1>2. CASE SendData
  BY <1>1, <1>2, Sizes DEF SendData, serviceVars, Accounted, InStep
<1>3. CASE RecvData
  <2>1. PICK n \in Received : read' = read + n /\ downstream' = downstream - n
    BY <1>3 DEF RecvData
  <2>2. n = AnswerSize /\ n \in 1 .. downstream
    BY <1>3, <2>1, ReadsItsAnswer DEF RecvData, Received
  <2>3. waiting - 1 \in Nat /\ waiting = (waiting - 1) + 1
    BY <1>3 DEF RecvData
  <2>4. waiting * AnswerSize = (waiting - 1) * AnswerSize + AnswerSize
        /\ (waiting - 1) * AnswerSize \in Nat
    BY <2>3, OneMore, Sizes
  <2> QED
    BY <1>1, <1>3, <2>1, <2>2, <2>4, Sizes DEF RecvData, serviceVars, Accounted, InStep
<1>4. CASE TryConnect
  <2>1. 0 * AnswerSize = 0
    BY OneMore, Sizes
  <2> QED
    BY <1>4, <2>1 DEF TryConnect, Accounted, InStep
<1>5. CASE DataReceived
  BY <1>5 DEF DataReceived, deviceVars, Accounted, InStep
<1>6. CASE Loop
  <2>1. \/ cnt' = cnt /\ jobs' = jobs
        \/ cnt' = cnt + 1 /\ jobs' = jobs + 1
    <3>1. CASE ReadLength
      BY <3>1 DEF ReadLength
    <3>2. CASE ReadPart
      BY <3>2 DEF ReadPart
    <3>3. CASE ReadRequest
      BY <3>3 DEF ReadRequest
    <3> QED
      BY <1>6, <3>1, <3>2, <3>3 DEF Loop
  <2> QED
    BY <1>1, <1>6, <2>1, Sizes DEF Loop, deviceVars, Accounted, InStep
<1>7. CASE DoneCb
  <2>1. jobs - 1 \in Nat /\ jobs = (jobs - 1) + 1
    BY <1>7 DEF DoneCb
  <2>2. jobs * AnswerSize = (jobs - 1) * AnswerSize + AnswerSize
        /\ (jobs - 1) * AnswerSize \in Nat
    BY <2>1, OneMore, Sizes
  <2> QED
    BY <1>1, <1>7, <2>2, Sizes DEF DoneCb, deviceVars, Accounted, InStep
<1>8. CASE UNCHANGED vars
  BY <1>8 DEF vars, deviceVars, serviceVars, Accounted, InStep
<1> QED
  BY <1>2, <1>3, <1>4, <1>5, <1>6, <1>7, <1>8 DEF Next

(* A device that waits for each answer before its next request, on a       *)
(* network that does not part an answer, takes the answer of each request  *)
(* for that request's, whatever times out (simulated_mobile_eu.py:332-371):*)
(* an answer that comes too late comes on a connection that is gone.       *)
THEOREM AnswersInStep ==
  ASSUME StreamAssumption, Window = 1, ~Cut
  PROVE  Spec => []InStep
<1>1. Init => IInStep
  BY InitInStep
<1>2. IInStep /\ [Next]_vars => IInStep'
  BY NextInStep
<1>3. IInStep => InStep
  BY DEF IInStep
<1> QED
  BY <1>1, <1>2, <1>3, PTL DEF Spec
=============================================================================
