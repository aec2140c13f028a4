------------------------ MODULE GatewayClientProofs ------------------------
(***************************************************************************)
(* Proofs about the poller and its HTTP client, for any number of          *)
(* descriptors, addresses, pieces and edge nodes.                          *)
(***************************************************************************)
EXTENDS GatewayClient, NetworkStateProofs

-----------------------------------------------------------------------------
(***************************************************************************)
(* Types, and where the pieces of a body are from.                         *)
(***************************************************************************)

\* The states of a poll in which the gateway has not answered yet, or its
\* answer has been parsed.
NoAnswer == {"rest", "socket", "connect", "closeAgain", "request", "line", "publish"}

\* All pieces of the body are of the one report that the gateway has answered
\* with, and none is left from another Get.
BodyInv ==
    /\ client.pc \in NoAnswer => client.body = <<>> /\ fetched = NoReport
    /\ client.pc \notin NoAnswer =>
          fetched \in Report /\ \A i \in DOMAIN client.body : client.body[i] = fetched

\* What the locals of a Get have to do with each other.
ClientInv == BodyInv /\ (Holding => client.sock \in Fd)

LEMMA RestingType == Resting \in Client
  BY GatewayAssumption DEF Resting, Client, Step, Socket, Status, Amount

\* The sets of values of the locals.
LEMMA LocalTypes ==
    /\ {"rest", "socket", "connect", "closeAgain", "request", "line", "headers", "length",
        "toEnd", "chunkSize", "chunk", "chunkEnd", "trailer", "parse", "publish"}
          \subseteq Step
    /\ Fd \subseteq Socket /\ -1 \in Socket
    /\ {-1, 200, 500} \subseteq Status
    /\ Amount = 0..Pieces
  BY DEF Step, Socket, Status, Amount

\* Going on to another place leaves the rest of the locals.
LEMMA GoToType ==
    ASSUME client \in Client,
           NEW pc \in {"request", "line", "chunk", "trailer", "chunkEnd", "closeAgain"},
           goTo(pc)
    PROVE  /\ client' \in Client /\ client'.pc = pc /\ client'.sock = client.sock
           /\ client'.body = client.body /\ client'.left = client.left
  BY LocalTypes DEF goTo, Client

\* A Get ends.
LEMMA RestingInv ==
    ASSUME client' = Resting, fetched' = NoReport
    PROVE  client' \in Client /\ ClientInv'
  <1>1. Resting.pc = "rest" /\ Resting.body = <<>>
    BY DEF Resting
  <1>. QED  BY <1>1, RestingType DEF ClientInv, BodyInv, NoAnswer, Holding

\* The next piece is of the same report as those before.
LEMMA PieceInv ==
    ASSUME client \in Client, ClientInv, client.pc \notin NoAnswer
    PROVE  /\ piece(client.body) \in Seq(Report)
           /\ \A i \in DOMAIN piece(client.body) : piece(client.body)[i] = fetched
  BY DEF piece, Client, ClientInv, BodyInv

\* From the body of a response to its parsing, or to the end.
LEMMA FinishInv ==
    ASSUME client \in Client, ClientInv, client.pc \notin NoAnswer, finish(client.body)
    PROVE  client' \in Client /\ ClientInv'
  <1>1. CASE giveUp
    BY <1>1, RestingInv DEF giveUp
  <1>2. CASE client' = [Resting EXCEPT !.pc = "parse", !.body = client.body] /\ SameReports
    <2>1. client'.pc = "parse" /\ client'.body = client.body
      BY <1>2 DEF Resting
    <2>2. client' \in Client
      <3>1. "parse" \in Step /\ client.body \in Seq(Report)
        BY LocalTypes DEF Client
      <3>. QED  BY <1>2, RestingType, <3>1 DEF Client
    <2>3. fetched' = fetched
      BY <1>2 DEF SameReports, networkVars
    <2>. QED  BY <2>1, <2>2, <2>3 DEF ClientInv, BodyInv, NoAnswer, Holding
  <1>. QED  BY <1>1, <1>2 DEF finish

\* The steps up to the request.
LEMMA ConnectClient ==
    ASSUME client \in Client, ClientInv,
           \/ resolve \/ resolveFails \/ socket \/ connected \/ connectFails
           \/ closeAgain \/ writeRequest
    PROVE  client' \in Client /\ ClientInv'
  <1>0. MaxAddresses \in Nat
    BY GatewayAssumption
  <1>. fetched' = fetched
    BY DEF resolve, resolveFails, socket, connected, connectFails, closeAgain, writeRequest,
           SameFiles, SameReports, networkVars
  <1>1. CASE resolve
    <2>1. PICK n \in 1..MaxAddresses :
             client' = [client EXCEPT !.pc = "socket", !.addresses = n]
      BY <1>1 DEF resolve
    <2>2. client' \in Client
      <3>1. "socket" \in Step /\ n \in 0..MaxAddresses
        BY <1>0, <2>1, LocalTypes
      <3>. QED  BY <1>0, <2>1, <3>1 DEF Client
    <2>3. client'.pc = "socket" /\ client'.body = client.body
      BY <2>1 DEF Client
    <2>. QED  BY <1>1, <2>2, <2>3 DEF resolve, At, ClientInv, BodyInv, NoAnswer, Holding
  <1>2. CASE resolveFails
    BY <1>2 DEF resolveFails, ClientInv, BodyInv, Holding
  <1>3. ASSUME client.pc \in {"socket", "closeAgain"}, nextAddress
        PROVE  client' \in Client /\ ClientInv'
    <2>1. CASE client' = Resting
      BY <1>3, <2>1, RestingInv DEF ClientInv, BodyInv, NoAnswer
    <2>2. CASE /\ client.addresses > 1
               /\ client' = [client EXCEPT !.pc = "socket", !.addresses = @ - 1, !.sock = -1]
      <3>1. client.addresses \in 0..MaxAddresses /\ client.addresses - 1 \in 0..MaxAddresses
        BY <1>0, <2>2 DEF Client
      <3>2. client' \in Client
        <4>1. "socket" \in Step /\ -1 \in Socket
          BY LocalTypes
        <4>. QED  BY <2>2, <3>1, <4>1 DEF Client
      <3>3. client'.pc = "socket" /\ client'.body = client.body
        BY <2>2 DEF Client
      <3>. QED  BY <1>3, <3>2, <3>3 DEF ClientInv, BodyInv, NoAnswer, Holding
    <2>. QED  BY <1>3, <2>1, <2>2 DEF nextAddress
  <1>4. CASE socket
    <2>1. CASE \E f \in lowestFree : client' = [client EXCEPT !.pc = "connect", !.sock = f]
      <3>1. PICK f \in Fd : client' = [client EXCEPT !.pc = "connect", !.sock = f]
        BY <2>1 DEF lowestFree
      <3>2. client' \in Client
        <4>1. "connect" \in Step /\ f \in Socket
          BY <3>1, LocalTypes
        <4>. QED  BY <3>1, <4>1 DEF Client
      <3>3. client'.pc = "connect" /\ client'.sock = f /\ client'.body = client.body
        BY <3>1 DEF Client
      <3>. QED  BY <1>4, <3>2, <3>3 DEF socket, At, ClientInv, BodyInv, NoAnswer, Holding
    <2>. QED  BY <1>3, <1>4, <2>1 DEF socket, At
  <1>5. CASE connected \/ connectFails \/ writeRequest
    BY <1>5, GoToType
    DEF connected, connectFails, writeRequest, At, ClientInv, BodyInv, NoAnswer, Holding
  <1>6. CASE closeAgain
    BY <1>3, <1>6 DEF closeAgain, At
  <1>. QED  BY <1>1, <1>2, <1>4, <1>5, <1>6

\* A step within an answer that keeps the body, or adds the next piece to it.
LEMMA AnswerInv ==
    ASSUME client \in Client, ClientInv, client.pc \notin NoAnswer, SameFiles,
           client' \in Client, client'.pc \notin NoAnswer, client'.sock = client.sock,
           Holding, client'.body = client.body \/ client'.body = piece(client.body)
    PROVE  ClientInv'
  <1>1. fetched' = fetched
    BY DEF SameFiles, SameReports, networkVars
  <1>2. \A i \in DOMAIN client'.body : client'.body[i] = fetched'
    BY <1>1, PieceInv DEF ClientInv, BodyInv
  <1>. QED  BY <1>1, <1>2 DEF ClientInv, BodyInv, Holding

\* The steps that read.
LEMMA ReadClient ==
    ASSUME client \in Client, ClientInv, gateway \in Report, readStep
    PROVE  client' \in Client /\ ClientInv'
  <1>1. CASE fail \/ throw
    BY <1>1, RestingInv DEF fail, throw, giveUp
  <1>2. CASE finish(client.body) /\ client.pc \notin NoAnswer
    BY <1>2, FinishInv
  <1>3. ASSUME readResponseLine, ~fail, ~throw
        PROVE  client' \in Client /\ ClientInv'
    <2>1. PICK status \in {-1, 200, 500} :
             client' = [client EXCEPT !.pc = "headers", !.status = status]
      BY <1>3 DEF readResponseLine
    <2>2. client' \in Client
      <3>1. "headers" \in Step /\ status \in Status
        BY <2>1, LocalTypes
      <3>. QED  BY <2>1, <3>1 DEF Client
    <2>3. /\ client'.pc = "headers" /\ client'.sock = client.sock
          /\ client'.body = client.body
      BY <2>1 DEF Client
    <2>4. client.pc = "line" /\ client.body = <<>> /\ fetched' = gateway
      BY <1>3 DEF readResponseLine, At, ClientInv, BodyInv, NoAnswer
    <2>. QED  BY <2>2, <2>3, <2>4 DEF ClientInv, BodyInv, NoAnswer, Holding
  <1>4. ASSUME readHeaders, ~fail, ~throw
        PROVE  client' \in Client /\ ClientInv'
    <2>1. PICK gzip \in BOOLEAN :
             /\ \/ \E n \in Amount :
                      client' = [[client EXCEPT !.gzip = gzip] EXCEPT !.pc = "length", !.left = n]
                \/ client' = [[client EXCEPT !.gzip = gzip] EXCEPT !.pc = "toEnd"]
                \/ client' = [[client EXCEPT !.gzip = gzip] EXCEPT !.pc = "chunkSize"]
             /\ SameFiles
      BY <1>4 DEF readHeaders, Amount
    <2>2. client.pc = "headers" /\ client.pc \notin NoAnswer /\ Holding
      BY <1>4 DEF readHeaders, At, NoAnswer, Holding
    <2>. DEFINE c == [client EXCEPT !.gzip = gzip]
    <2>3. c \in Client /\ c.body = client.body /\ c.sock = client.sock
      BY DEF Client
    <2>. HIDE DEF c
    <2>4. ASSUME NEW n \in Amount, client' = [c EXCEPT !.pc = "length", !.left = n]
          PROVE  client' \in Client /\ ClientInv'
      <3>1. client' \in Client
        <4>1. "length" \in Step
          BY LocalTypes
        <4>. QED  BY <2>3, <2>4, <4>1 DEF Client
      <3>2. client'.pc = "length" /\ client'.sock = client.sock /\ client'.body = client.body
        BY <2>3, <2>4 DEF Client
      <3>. QED  BY <2>1, <2>2, <3>1, <3>2, AnswerInv DEF NoAnswer
    <2>5. ASSUME NEW pc \in {"toEnd", "chunkSize"}, client' = [c EXCEPT !.pc = pc]
          PROVE  client' \in Client /\ ClientInv'
      <3>1. client' \in Client
        BY <2>3, <2>5, LocalTypes DEF Client
      <3>2. client'.pc = pc /\ client'.sock = client.sock /\ client'.body = client.body
        BY <2>3, <2>5 DEF Client
      <3>. QED  BY <2>1, <2>2, <3>1, <3>2, AnswerInv DEF NoAnswer
    <2>. QED  BY <2>1, <2>4, <2>5 DEF c
  <1>5. ASSUME readWithLength, ~fail, ~finish(client.body)
        PROVE  client' \in Client /\ ClientInv'
    <2>1. /\ client.pc = "length" /\ client.left # 0 /\ SameFiles
          /\ client' = [client EXCEPT !.left = @ - 1, !.body = piece(@)]
      BY <1>5 DEF readWithLength, At
    <2>2. client.left - 1 \in Amount
      BY <2>1, GatewayAssumption DEF Client, Amount
    <2>3. client.pc \notin NoAnswer /\ Holding
      BY <2>1 DEF NoAnswer, Holding
    <2>4. client' \in Client
      BY <2>1, <2>2, <2>3, PieceInv DEF Client
    <2>5. client'.pc = "length" /\ client'.sock = client.sock
          /\ client'.body = piece(client.body)
      BY <2>1 DEF Client
    <2>. QED  BY <2>1, <2>3, <2>4, <2>5, AnswerInv
  <1>6. ASSUME readToEnd, ~fail, ~finish(client.body)
        PROVE  client' \in Client /\ ClientInv'
    <2>1. client.pc = "toEnd" /\ SameFiles /\ client' = [client EXCEPT !.body = piece(@)]
      BY <1>6 DEF readToEnd, At
    <2>2. client.pc \notin NoAnswer /\ Holding
      BY <2>1 DEF NoAnswer, Holding
    <2>3. client' \in Client
      BY <2>1, <2>2, PieceInv DEF Client
    <2>4. client'.pc = "toEnd" /\ client'.sock = client.sock
          /\ client'.body = piece(client.body)
      BY <2>1 DEF Client
    <2>. QED  BY <2>1, <2>2, <2>3, <2>4, AnswerInv
  <1>7. ASSUME \/ readChunkSize /\ ~fail /\ ~throw /\ ~finish(client.body)
               \/ readChunk /\ ~fail
        PROVE  client' \in Client /\ ClientInv'
    <2>1. /\ client.pc \in {"chunkSize", "chunk"} /\ SameFiles
          /\ \E pc \in {"chunk", "trailer", "chunkEnd"} : goTo(pc)
      BY <1>7 DEF readChunkSize, readChunk, At
    <2>2. client.pc \notin NoAnswer /\ Holding
      BY <2>1 DEF NoAnswer, Holding
    <2>3. /\ client' \in Client /\ client'.pc \in {"chunk", "trailer", "chunkEnd"}
          /\ client'.sock = client.sock /\ client'.body = client.body
      BY <2>1, GoToType
    <2>. QED  BY <2>1, <2>2, <2>3, AnswerInv DEF NoAnswer
  <1>8. ASSUME readChunkEnd, ~fail, ~finish(client.body)
        PROVE  client' \in Client /\ ClientInv'
    <2>1. /\ client.pc = "chunkEnd" /\ SameFiles
          /\ client' = [client EXCEPT !.pc = "chunkSize", !.body = piece(@)]
      BY <1>8 DEF readChunkEnd, At
    <2>2. client.pc \notin NoAnswer /\ Holding
      BY <2>1 DEF NoAnswer, Holding
    <2>3. client' \in Client
      <3>1. "chunkSize" \in Step
        BY LocalTypes
      <3>. QED  BY <2>1, <2>2, <3>1, PieceInv DEF Client
    <2>4. client'.pc = "chunkSize" /\ client'.sock = client.sock
          /\ client'.body = piece(client.body)
      BY <2>1 DEF Client
    <2>. QED  BY <2>1, <2>2, <2>3, <2>4, AnswerInv DEF NoAnswer
  <1>9. CASE readTrailer
    BY <1>1, <1>2, <1>9 DEF readTrailer, At, NoAnswer
  <1>10. finish(client.body) /\ (readWithLength \/ readToEnd \/ readChunkSize \/ readChunkEnd)
           => client.pc \notin NoAnswer
    BY DEF readWithLength, readToEnd, readChunkSize, readChunkEnd, At, NoAnswer
  <1>. QED
    BY <1>1, <1>2, <1>3, <1>4, <1>5, <1>6, <1>7, <1>8, <1>9, <1>10 DEF readStep

\* The steps after the Get.
LEMMA ParseClient ==
    ASSUME client \in Client, ClientInv, parse \/ parseThrows \/ publish
    PROVE  client' \in Client /\ ClientInv'
  <1>1. fetched' = NoReport
    BY DEF parse, parseThrows, publish, parseStateUpdate, pollFails, swapEdgeNodes, At,
           ClientInv, BodyInv, NoAnswer
  <1>2. CASE client' = Resting
    BY <1>1, <1>2, RestingInv
  <1>3. CASE client' = [Resting EXCEPT !.pc = "publish"]
    <2>1. client'.pc = "publish" /\ client'.body = <<>>
      BY <1>3 DEF Resting
    <2>2. client' \in Client
      BY <1>3, RestingType, LocalTypes DEF Client
    <2>. QED  BY <1>1, <2>1, <2>2 DEF ClientInv, BodyInv, NoAnswer, Holding
  <1>. QED  BY <1>2, <1>3 DEF parse, parseThrows, publish

\* The steps of other threads and of the gateway leave the Get as it is.
LEMMA ClientStays ==
    ASSUME ClientInv, UNCHANGED <<client, fetched>>
    PROVE  ClientInv'
  BY DEF ClientInv, BodyInv, Holding

GatewayInv == GatewayTypeOK /\ ClientInv

\* What a Get does before its report is parsed does not touch the lists, and all
\* it does to the report is to take the gateway's or to drop it.
LEMMA GetLeavesLists ==
    ASSUME \/ resolve \/ resolveFails \/ socket \/ connected \/ connectFails
           \/ closeAgain \/ writeRequest \/ readStep
    PROVE  /\ UNCHANGED <<listVars, gateway>>
           /\ \/ fetched' \in {fetched, NoReport}
              \/ client.pc = "line" /\ fetched' = gateway
           /\ client.pc # "publish"
  <1>1. fail \/ throw \/ finish(client.body) \/ SameFiles \/ SameReports =>
            UNCHANGED <<listVars, gateway>> /\ fetched' \in {fetched, NoReport}
    BY DEF fail, throw, finish, giveUp, SameFiles, SameReports, networkVars
  <1>2. CASE readResponseLine
    BY <1>1, <1>2 DEF readResponseLine, At
  <1>3. CASE readStep /\ ~readResponseLine
    BY <1>1, <1>3
    DEF readStep, readHeaders, readWithLength, readToEnd, readChunkSize, readChunk,
        readChunkEnd, readTrailer, At
  <1>4. CASE ~readStep
    BY <1>1, <1>4
    DEF resolve, resolveFails, socket, connected, connectFails, closeAgain, writeRequest, At
  <1>. QED  BY <1>2, <1>3, <1>4

\* The lists are published by parse and publish, and by nothing else.
LEMMA NetworkSteps ==
    ASSUME GatewayTypeOK, GatewayNext
    PROVE  NetworkTypeOK' /\ gateway' \in Report /\ (newList' # NoList <=> client'.pc = "publish")
  <1>. USE DEF GatewayTypeOK
  <1>1. CASE parse
    <2>1. NetworkTypeOK' /\ gateway' = gateway
      BY <1>1, ParseKeepsTypes DEF parse
    <2>2. Resting.pc = "rest" /\ [Resting EXCEPT !.pc = "publish"].pc = "publish"
      BY DEF Resting
    <2>3. client' = IF newList' # NoList THEN [Resting EXCEPT !.pc = "publish"] ELSE Resting
      BY <1>1 DEF parse
    <2>. QED  BY <2>1, <2>2, <2>3
  <1>2. CASE publish
    <2>1. NetworkTypeOK' /\ gateway' = gateway
      BY <1>2, PollKeepsTypes DEF publish, NetworkNext
    <2>2. Resting.pc = "rest"
      BY DEF Resting
    <2>. QED  BY <1>2, <2>1, <2>2 DEF publish, swapEdgeNodes
  <1>3. CASE parseThrows
    <2>1. NetworkTypeOK' /\ gateway' = gateway
      BY <1>3, PollKeepsTypes DEF parseThrows, NetworkNext
    <2>2. Resting.pc = "rest"
      BY DEF Resting
    <2>. QED  BY <1>3, <2>1, <2>2 DEF parseThrows, pollFails, listVars, At
  <1>4. CASE gatewayChanges \/ othersOpen \/ othersClose
    BY <1>4
    DEF gatewayChanges, othersOpen, othersClose, NetworkTypeOK, networkVars, listVars
  <1>5. ASSUME \/ resolve \/ resolveFails \/ socket \/ connected \/ connectFails
               \/ closeAgain \/ writeRequest \/ readStep
        PROVE  /\ NetworkTypeOK' /\ gateway' \in Report
               /\ (newList' # NoList <=> client'.pc = "publish")
    <2>1. /\ UNCHANGED <<listVars, gateway>> /\ client.pc # "publish"
          /\ fetched' \in Report \cup {NoReport}
      BY <1>5, GetLeavesLists DEF NetworkTypeOK
    <2>2. client'.pc # "publish"
      <3>1. Resting.pc = "rest"
        BY DEF Resting
      <3>2. [Resting EXCEPT !.pc = "parse", !.body = client.body].pc = "parse"
        BY DEF Resting
      <3>3. (fail \/ throw \/ finish(client.body) \/ nextAddress) /\ client \in Client
              => client'.pc # "publish"
        BY <3>1, <3>2 DEF fail, throw, finish, giveUp, nextAddress, Client
      <3>4. ASSUME NEW pc, pc # "publish", goTo(pc), client \in Client
            PROVE  client'.pc # "publish"
        BY <3>4 DEF goTo, Client
      <3>5. CASE \/ resolve \/ resolveFails \/ socket \/ connected \/ connectFails
                 \/ closeAgain \/ writeRequest
        BY <2>1, <3>3, <3>4, <3>5
        DEF resolve, resolveFails, socket, connected, connectFails, closeAgain,
            writeRequest, Client
      <3>6. CASE readStep
        <4>1. CASE readResponseLine
          <5>1. ASSUME NEW status, client \in Client,
                       client' = [client EXCEPT !.pc = "headers", !.status = status]
                PROVE  client'.pc = "headers"
            BY <5>1 DEF Client
          <5>. QED  BY <3>3, <4>1, <5>1 DEF readResponseLine
        <4>2. CASE readHeaders
          BY <3>3, <4>2 DEF readHeaders, Client
        <4>3. CASE readChunkSize \/ readChunk
          BY <3>3, <3>4, <4>3 DEF readChunkSize, readChunk
        <4>4. CASE readChunkEnd \/ readTrailer
          BY <3>3, <4>4 DEF readChunkEnd, readTrailer, Client
        <4>5. CASE readWithLength \/ readToEnd
          BY <2>1, <3>3, <4>5 DEF readWithLength, readToEnd, Client
        <4>. QED  BY <3>6, <4>1, <4>2, <4>3, <4>4, <4>5 DEF readStep
      <3>. QED  BY <1>5, <3>5, <3>6
    <2>. QED  BY <2>1, <2>2 DEF listVars, NetworkTypeOK
  <1>. QED
    BY <1>1, <1>2, <1>3, <1>4, <1>5 DEF GatewayNext, clientStep

\* The descriptors.
LEMMA FileSteps ==
    ASSUME GatewayInv, GatewayNext
    PROVE  open' \subseteq Fd /\ others' \subseteq Fd /\ leaked' \subseteq Fd
  <1>. USE DEF GatewayInv, GatewayTypeOK
  <1>1. CASE gatewayChanges \/ othersOpen \/ othersClose
    BY <1>1 DEF gatewayChanges, othersOpen, othersClose, lowestFree, fileVars
  <1>2. CASE clientStep
    BY <1>2
    DEF clientStep, resolve, resolveFails, socket, connected, connectFails, closeAgain,
        writeRequest, parse, parseThrows, publish, SameFiles, fileVars, lowestFree
  <1>3. CASE readStep
    <2>1. fail \/ finish(client.body) \/ SameFiles \/ UNCHANGED fileVars =>
              UNCHANGED <<others, leaked>> /\ open' \subseteq open
      BY DEF fail, finish, SameFiles, fileVars
    <2>2. throw /\ Holding => /\ UNCHANGED <<others, open>> /\ leaked' \subseteq Fd
      BY DEF throw, ClientInv
    <2>3. Holding
      BY <1>3
      DEF readStep, readResponseLine, readHeaders, readWithLength, readToEnd,
          readChunkSize, readChunk, readChunkEnd, readTrailer, At, Holding
    <2>. QED
      BY <1>3, <2>1, <2>2, <2>3
      DEF readStep, readResponseLine, readHeaders, readWithLength, readToEnd,
          readChunkSize, readChunk, readChunkEnd, readTrailer
  <1>. QED  BY <1>1, <1>2, <1>3 DEF GatewayNext

LEMMA NextKeepsGatewayInv ==
    ASSUME GatewayInv, [GatewayNext]_gatewayVars
    PROVE  GatewayInv'
  <1>1. CASE UNCHANGED gatewayVars
    BY <1>1
    DEF gatewayVars, networkVars, listVars, fileVars, GatewayInv, GatewayTypeOK,
        NetworkTypeOK, ClientInv, BodyInv, Holding
  <1>2. CASE GatewayNext
    <2>1. client' \in Client /\ ClientInv'
      BY <1>2, ConnectClient, ReadClient, ParseClient, ClientStays
      DEF GatewayInv, GatewayTypeOK, GatewayNext, clientStep, gatewayChanges, othersOpen,
          othersClose, networkVars
    <2>2. hit' \in BOOLEAN
      BY <1>2 DEF GatewayNext, GatewayInv, GatewayTypeOK
    <2>. QED
      BY <1>2, <2>1, <2>2, NetworkSteps, FileSteps DEF GatewayInv, GatewayTypeOK
  <1>. QED  BY <1>1, <1>2

LEMMA AlwaysGatewayInv == GatewaySpec => []GatewayInv
  <1>1. GatewayInit => GatewayInv
    <2>. SUFFICES ASSUME GatewayInit
                  PROVE  GatewayInv
      OBVIOUS
    <2>1. client = Resting /\ newList = NoList /\ fetched = NoReport
      BY DEF GatewayInit, NetworkInit
    <2>2. Resting.pc = "rest" /\ Resting.body = <<>>
      BY DEF Resting
    <2>3. ClientInv
      BY <2>1, <2>2 DEF ClientInv, BodyInv, NoAnswer, Holding
    <2>4. GatewayTypeOK
      BY <2>1, <2>2, InitNetworkTypes, RestingType DEF GatewayInit, GatewayTypeOK
    <2>. QED  BY <2>3, <2>4 DEF GatewayInv
  <1>. QED  BY <1>1, NextKeepsGatewayInv, PTL DEF GatewaySpec

\* The state of the poller stays well formed; in particular, the list is waiting
\* to be published exactly while the poller is about to publish it.
THEOREM GatewayTypeCorrect == GatewaySpec => []GatewayTypeOK
  <1>1. GatewayInv => GatewayTypeOK
    BY DEF GatewayInv
  <1>. QED  BY <1>1, AlwaysGatewayInv, PTL

-----------------------------------------------------------------------------
(***************************************************************************)
(* The poller of NetworkState.                                             *)
(***************************************************************************)

\* A body that is all of a report is all of the one that the gateway answered
\* with.
LEMMA ParsedIsFetched ==
    ASSUME ClientInv, parse
    PROVE  parseFetched
  <1>1. PICK report \in Report : client.body = whole(report) /\ parseStateUpdate(report)
    BY DEF parse
  <1>2. /\ fetched \in Report
        /\ \A i \in DOMAIN client.body : client.body[i] = fetched
    BY DEF parse, At, ClientInv, BodyInv, NoAnswer
  <1>3. 1 \in DOMAIN client.body /\ client.body[1] = report
    BY <1>1, GatewayAssumption DEF whole
  <1>4. report = fetched /\ fetched # NoReport
    BY <1>2, <1>3, NetworkAssumption
  <1>. QED  BY <1>1, <1>4 DEF parseFetched

\* The client implements the poller: every step of it is one of the poller's, or
\* leaves all that the poller has.  What is parsed is the report the gateway has
\* answered with in this Get, whatever it has come to report since.
THEOREM PollsAreWholeReportsCorrect == GatewaySpec => PollsAreWholeReports
  <1>1. GatewayInit => NetworkInit
    BY DEF GatewayInit
  <1>2. GatewayInv /\ [GatewayNext]_gatewayVars => [NetworkNext]_networkVars
    <2>. SUFFICES ASSUME GatewayInv, [GatewayNext]_gatewayVars
                  PROVE  [NetworkNext]_networkVars
      OBVIOUS
    <2>1. CASE UNCHANGED gatewayVars
      BY <2>1 DEF gatewayVars
    <2>2. CASE parse
      BY <2>2, ParsedIsFetched DEF GatewayInv, NetworkNext
    <2>3. CASE parseThrows \/ publish
      BY <2>3 DEF parseThrows, publish, NetworkNext
    <2>4. CASE gatewayChanges \/ othersOpen \/ othersClose
      BY <2>4 DEF gatewayChanges, othersOpen, othersClose
    <2>5. CASE \/ resolve \/ resolveFails \/ socket \/ connected \/ connectFails
               \/ closeAgain \/ writeRequest \/ readStep
      <3>1. UNCHANGED listVars /\ newList = NoList
        BY <2>5, GetLeavesLists DEF GatewayInv, GatewayTypeOK
      <3>2. CASE fetched' = fetched
        BY <3>1, <3>2 DEF networkVars
      <3>3. CASE fetched' = NoReport
        BY <3>1, <3>3 DEF pollFails, NetworkNext
      <3>4. CASE client.pc = "line" /\ fetched' = gateway
        <4>1. fetched = NoReport /\ gateway \in Report
          BY <3>4 DEF GatewayInv, GatewayTypeOK, ClientInv, BodyInv, NoAnswer
        <4>. QED  BY <3>1, <3>4, <4>1 DEF fetch, NetworkNext
      <3>. QED  BY <2>5, <3>2, <3>3, <3>4, GetLeavesLists
    <2>. QED  BY <2>1, <2>2, <2>3, <2>4, <2>5 DEF GatewayNext, clientStep
  <1>. QED
    BY <1>1, <1>2, AlwaysGatewayInv, PTL DEF GatewaySpec, PollsAreWholeReports, NetworkSpec

-----------------------------------------------------------------------------
(***************************************************************************)
(* Descriptors.                                                            *)
(***************************************************************************)

\* The descriptor of the Get under way.
Held == IF Holding THEN {client.sock} ELSE {}

\* What the steps of a Get that read do to its descriptor.
LEMMA ReadFiles ==
    ASSUME GatewayInv, readStep
    PROVE  /\ Holding /\ others' = others
           /\ \/ open' = open /\ leaked' = leaked /\ Holding' /\ client'.sock = client.sock
              \/ open' = open \ {client.sock} /\ leaked' = leaked /\ ~Holding'
              \/ open' = open /\ leaked' = leaked \cup {client.sock} /\ ~Holding'
  <1>0. client \in Client
    BY DEF GatewayInv, GatewayTypeOK
  <1>1. Holding
    BY DEF readStep, readResponseLine, readHeaders, readWithLength, readToEnd,
           readChunkSize, readChunk, readChunkEnd, readTrailer, At, Holding
  <1>2. Resting.pc = "rest" /\ [Resting EXCEPT !.pc = "parse", !.body = client.body].pc = "parse"
    BY DEF Resting
  <1>3. CASE fail \/ throw \/ finish(client.body)
    BY <1>1, <1>2, <1>3 DEF fail, throw, finish, giveUp, Holding
  <1>4. ASSUME SameFiles \/ UNCHANGED fileVars,
               client'.pc \notin {"rest", "socket", "closeAgain", "parse", "publish"},
               client'.sock = client.sock
        PROVE  open' = open /\ leaked' = leaked /\ others' = others
               /\ Holding' /\ client'.sock = client.sock
    BY <1>4 DEF SameFiles, fileVars, Holding
  <1>5. ASSUME NEW pc, goTo(pc)
        PROVE  client'.pc = pc /\ client'.sock = client.sock
    BY <1>0, <1>5 DEF goTo, Client
  <1>6. CASE readResponseLine
    <2>1. CASE fail \/ throw
      BY <1>3, <2>1
    <2>2. CASE ~(fail \/ throw)
      <3>1. PICK status \in {-1, 200, 500} :
               client' = [client EXCEPT !.pc = "headers", !.status = status]
               /\ UNCHANGED fileVars
        BY <1>6, <2>2 DEF readResponseLine
      <3>2. client'.pc = "headers" /\ client'.sock = client.sock
        BY <1>0, <3>1 DEF Client
      <3>. QED  BY <1>1, <1>4, <3>1, <3>2
    <2>. QED  BY <2>1, <2>2
  <1>7. CASE readHeaders
    BY <1>0, <1>1, <1>3, <1>4, <1>7 DEF readHeaders, Client
  <1>8. CASE readWithLength
    BY <1>0, <1>1, <1>3, <1>4, <1>8 DEF readWithLength, At, Client
  <1>9. CASE readToEnd
    BY <1>0, <1>1, <1>3, <1>4, <1>9 DEF readToEnd, At, Client
  <1>10. CASE readChunkSize \/ readChunk
    BY <1>1, <1>3, <1>4, <1>5, <1>10 DEF readChunkSize, readChunk
  <1>11. CASE readChunkEnd \/ readTrailer
    BY <1>0, <1>1, <1>3, <1>4, <1>11 DEF readChunkEnd, readTrailer, Client
  <1>. QED  BY <1>6, <1>7, <1>8, <1>9, <1>10, <1>11 DEF readStep

\* What its other steps do.
LEMMA ClientFiles ==
    ASSUME GatewayInv, clientStep
    PROVE  /\ others' = others /\ leaked' = leaked
           /\ \/ open' = open /\ (Holding' => Holding /\ client'.sock = client.sock)
                             /\ (Holding => Holding')
              \/ /\ socket /\ Holding' /\ ~Holding
                 /\ client'.sock \notin open /\ open' = open \cup {client'.sock}
              \/ connectFails /\ Holding /\ ~Holding' /\ open' = open \ {client.sock}
              \/ closeAgain /\ ~Holding /\ ~Holding' /\ open' = open \ {client.sock}
  <1>0. client \in Client
    BY DEF GatewayInv, GatewayTypeOK
  <1>1. /\ Resting.pc = "rest"
        /\ [Resting EXCEPT !.pc = "publish"].pc = "publish"
    BY DEF Resting
  <1>2. ASSUME NEW pc, goTo(pc)
        PROVE  client'.pc = pc /\ client'.sock = client.sock
    BY <1>0, <1>2 DEF goTo, Client
  <1>3. CASE resolve \/ resolveFails
    BY <1>0, <1>3 DEF resolve, resolveFails, SameFiles, fileVars, At, Holding, Client
  <1>4. CASE connected \/ writeRequest
    BY <1>2, <1>4 DEF connected, writeRequest, SameFiles, fileVars, At, Holding
  <1>5. CASE connectFails
    BY <1>2, <1>5 DEF connectFails, At, Holding
  <1>6. nextAddress => ~Holding'
    BY <1>0, <1>1 DEF nextAddress, Holding, Client
  <1>7. CASE closeAgain
    BY <1>6, <1>7 DEF closeAgain, At, Holding
  <1>8. CASE socket
    <2>1. ~Holding /\ others' = others /\ leaked' = leaked
      BY <1>8 DEF socket, At, Holding
    <2>2. CASE nextAddress /\ UNCHANGED open
      BY <1>6, <2>1, <2>2
    <2>3. CASE \E f \in lowestFree :
                  /\ open' = open \cup {f}
                  /\ client' = [client EXCEPT !.pc = "connect", !.sock = f]
      <3>1. PICK f \in lowestFree :
               /\ open' = open \cup {f}
               /\ client' = [client EXCEPT !.pc = "connect", !.sock = f]
        BY <2>3
      <3>2. client'.pc = "connect" /\ client'.sock = f
        BY <1>0, <3>1 DEF Client
      <3>. QED  BY <1>8, <2>1, <3>1, <3>2 DEF Holding, lowestFree
    <2>. QED  BY <1>8, <2>2, <2>3 DEF socket
  <1>9. CASE parse \/ parseThrows \/ publish
    BY <1>1, <1>9 DEF parse, parseThrows, publish, fileVars, At, Holding
  <1>. QED  BY <1>3, <1>4, <1>5, <1>7, <1>8, <1>9 DEF clientStep

\* The steps of the other threads do not concern the Get.
LEMMA OthersFiles ==
    ASSUME othersOpen \/ othersClose \/ gatewayChanges
    PROVE  /\ leaked' = leaked /\ Held' = Held /\ (Holding' <=> Holding)
           /\ client' = client
           /\ \/ open' = open /\ others' = others
              \/ \E f : f \notin open /\ open' = open \cup {f} /\ others' = others \cup {f}
              \/ \E f \in others : open' = open \ {f} /\ others' = others \ {f}
  BY DEF othersOpen, othersClose, gatewayChanges, lowestFree, fileVars, Held, Holding

\* No descriptor is lost but those of Gets that threw past the close.
THEOREM OpenDescriptorsAccountedForCorrect == GatewaySpec => []OpenDescriptorsAccountedFor
  <1>. DEFINE Inv == open \subseteq others \cup leaked \cup Held
  <1>1. GatewayInit => Inv
    BY DEF GatewayInit
  <1>2. GatewayInv /\ Inv /\ [GatewayNext]_gatewayVars => Inv'
    <2>. SUFFICES ASSUME GatewayInv, Inv, [GatewayNext]_gatewayVars
                  PROVE  Inv'
      OBVIOUS
    <2>1. CASE UNCHANGED gatewayVars
      BY <2>1 DEF gatewayVars, fileVars, Held, Holding
    <2>2. CASE readStep
      BY <2>2, ReadFiles DEF Held
    <2>3. CASE clientStep
      BY <2>3, ClientFiles DEF Held
    <2>4. CASE othersOpen \/ othersClose \/ gatewayChanges
      BY <2>4, OthersFiles
    <2>. QED  BY <2>1, <2>2, <2>3, <2>4 DEF GatewayNext
  <1>3. Inv => OpenDescriptorsAccountedFor
    BY DEF OpenDescriptorsAccountedFor, Held
  <1>. QED  BY <1>1, <1>2, <1>3, AlwaysGatewayInv, PTL DEF GatewaySpec

\* As long as nobody has lost a descriptor, the other threads' are open, and the
\* one of the Get is not among them.
NobodyHit ==
    ~hit => others \subseteq open /\ (Holding => client.sock \in open \ others)

\* Every step but the second close leaves the other threads their descriptors.
LEMMA StepHitsNobody ==
    ASSUME GatewayInv, NobodyHit, ~hit, GatewayNext
    PROVE  /\ closeAgain \/ others' \subseteq open'
           /\ Holding' /\ others' \subseteq open' => client'.sock \in open' \ others'
  <1>1. others \subseteq open /\ (Holding => client.sock \in open \ others)
    BY DEF NobodyHit
  <1>2. CASE readStep
    BY <1>1, <1>2, ReadFiles
  <1>3. CASE clientStep
    BY <1>1, <1>3, ClientFiles
  <1>4. CASE othersOpen \/ othersClose \/ gatewayChanges
    BY <1>1, <1>4, OthersFiles
  <1>. QED  BY <1>2, <1>3, <1>4 DEF GatewayNext

\* The first close to take a descriptor from another thread is the second one
\* after a failed connect; all other ways for a Get to end close its own.
THEOREM OnlySecondCloseHitsOthersCorrect == GatewaySpec => OnlySecondCloseHitsOthers
  <1>1. GatewayInit => NobodyHit
    <2>1. Resting.pc = "rest"
      BY DEF Resting
    <2>. QED  BY <2>1 DEF GatewayInit, NobodyHit, Holding
  <1>2. GatewayInv /\ NobodyHit /\ [GatewayNext]_gatewayVars =>
          NobodyHit' /\ [~hit /\ hit' => closeAgain]_gatewayVars
    <2>. SUFFICES ASSUME GatewayInv, NobodyHit, [GatewayNext]_gatewayVars
                  PROVE  NobodyHit' /\ [~hit /\ hit' => closeAgain]_gatewayVars
      OBVIOUS
    <2>1. CASE UNCHANGED gatewayVars
      BY <2>1 DEF gatewayVars, fileVars, NobodyHit, Holding
    <2>2. CASE GatewayNext
      <3>1. hit' = (hit \/ ~(others' \subseteq open'))
        BY <2>2 DEF GatewayNext
      <3>2. CASE hit
        BY <3>1, <3>2 DEF NobodyHit
      <3>3. CASE ~hit
        BY <2>2, <3>1, <3>3, StepHitsNobody DEF NobodyHit
      <3>. QED  BY <3>2, <3>3
    <2>. QED  BY <2>1, <2>2
  <1>. QED
    BY <1>1, <1>2, AlwaysGatewayInv, PTL DEF GatewaySpec, OnlySecondCloseHitsOthers
=============================================================================
