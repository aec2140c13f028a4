---------------------------- MODULE GatewayClient ----------------------------
(***************************************************************************)
(* The poller of the network state with the HTTP client it uses            *)
(* (NetworkState::beginPollingGateway, httplib::Client::Get in             *)
(* libs/httplib.h): one Get is name lookup, connect, request, status line, *)
(* header fields and body, each of which may fail on its own, and then the *)
(* parsing of the report.                                                  *)
(*                                                                         *)
(* The client has descriptors in common with the rest of the process: the  *)
(* system gives out the lowest number that is free, to whichever thread    *)
(* asks, and close takes a number, whoever has it.  What it reads is       *)
(* reduced to what it can tell apart: a line that is there, that does not  *)
(* match or that does not convert, the end of the stream, an error.  What  *)
(* the gateway reports may change at any time; an answer is the report of  *)
(* the moment it is given.  A report is Pieces long, and what Get returns  *)
(* as the body is the pieces it has read.                                  *)
(***************************************************************************)
EXTENDS NetworkState, Integers

CONSTANTS
    Fd,            \* the descriptor numbers the process may have open
    MaxAddresses,  \* bound: addresses a name has
    Pieces         \* bound: pieces a report comes in

ASSUME GatewayAssumption ==
    /\ Fd \subseteq Nat
    /\ IsFiniteSet(Fd)
    /\ MaxAddresses \in Nat
    /\ Pieces \in Nat \ {0}

VARIABLES
    gateway, \* what the gateway reports when it is asked
    open,    \* the descriptors that are open
    others,  \* the descriptors the other threads have opened and use
    client,  \* the locals of the Get under way
    leaked,  \* history: the descriptors of Gets that threw
    hit      \* history: another thread has lost a descriptor it uses

fileVars == <<open, others, leaked>>
gatewayVars == <<networkVars, gateway, fileVars, client, hit>>

-----------------------------------------------------------------------------
\* Where a Get is, from one poll to the next.
Step == {"rest", "socket", "connect", "closeAgain", "request", "line", "headers",
         "length", "toEnd", "chunkSize", "chunk", "chunkEnd", "trailer",
         "parse", "publish"}

Socket == Fd \cup {-1}
Status == {-1, 200, 500}
Amount == 0..Pieces

\* addresses: those left to try.  status: of the response, -1 for none.  left:
\* what is left of the Content-Length.  body: its pieces so far, each by the
\* report it is of.
Client == [pc : Step, sock : Socket, addresses : 0..MaxAddresses, status : Status,
           gzip : BOOLEAN, left : Amount, body : Seq(Report)]

Resting == [pc |-> "rest", sock |-> -1, addresses |-> 0, status |-> -1,
            gzip |-> FALSE, left |-> 0, body |-> <<>>]

GatewayInit ==
    /\ NetworkInit
    /\ gateway \in Report
    /\ open = {} /\ others = {} /\ leaked = {} /\ hit = FALSE
    /\ client = Resting

At(pc) == client.pc = pc
goTo(pc) == client' = [client EXCEPT !.pc = pc]

\* Descriptors and reports stay as they are.
SameReports == UNCHANGED <<networkVars, gateway>>
SameFiles == SameReports /\ UNCHANGED fileVars

\* The lowest free number is the one that open, socket and accept return.
lowestFree == {f \in Fd \ open : \A g \in Fd \ open : f <= g}

-----------------------------------------------------------------------------
(***************************************************************************)
(* The end of a Get.                                                       *)
(***************************************************************************)

\* Back to the scheduler without a report.
giveUp ==
    /\ client' = Resting
    /\ fetched' = NoReport
    /\ UNCHANGED <<listVars, gateway>>

\* close_socket, and no response.
fail_NoClose == giveUp /\ UNCHANGED fileVars

fail ==
    /\ open' = open \ {client.sock}
    /\ giveUp
    /\ UNCHANGED <<others, leaked>>

\* std::stoi, or an assignment of a negative length, throws past the close.
\* The scheduler catches it.
throw ==
    /\ leaked' = leaked \cup {client.sock}
    /\ giveUp
    /\ UNCHANGED <<open, others>>

\* The body has been read: close, refuse what is compressed, and take a
\* response of status 200 for a report.
finish(body) ==
    /\ open' = open \ {client.sock}
    /\ IF client.gzip \/ client.status # 200 THEN giveUp
       ELSE /\ client' = [Resting EXCEPT !.pc = "parse", !.body = body]
            /\ SameReports
    /\ UNCHANGED <<others, leaked>>

(***************************************************************************)
(* create_client_socket: try the addresses of the gateway's name in turn.  *)
(***************************************************************************)
resolve ==
    /\ At("rest")
    /\ \E n \in 1..MaxAddresses :
          client' = [client EXCEPT !.pc = "socket", !.addresses = n]
    /\ SameFiles

\* The name does not resolve.
resolveFails == At("rest") /\ SameFiles /\ UNCHANGED client

\* The same address is tried over and over.
nextAddress_NoAdvance ==
    client' = IF client.addresses > 1 THEN [client EXCEPT !.pc = "socket", !.sock = -1]
              ELSE Resting

\* The next address is tried on the socket that has just been closed.
nextAddress_SameSocket ==
    client' = IF client.addresses > 1
              THEN [client EXCEPT !.pc = "connect", !.addresses = @ - 1]
              ELSE Resting

nextAddress ==
    client' = IF client.addresses > 1
              THEN [client EXCEPT !.pc = "socket", !.addresses = @ - 1, !.sock = -1]
              ELSE Resting

socket ==
    /\ At("socket")
    /\ IF open = Fd THEN nextAddress /\ UNCHANGED open
       ELSE \E f \in lowestFree :
               /\ open' = open \cup {f}
               /\ client' = [client EXCEPT !.pc = "connect", !.sock = f]
    /\ SameReports /\ UNCHANGED <<others, leaked>>

\* At once, or in time to become writable.
connected == At("connect") /\ goTo("request") /\ SameFiles

\* Refused, or not in time: the socket is closed where the connect failed.
connectFails ==
    /\ At("connect")
    /\ open' = open \ {client.sock}
    /\ goTo("closeAgain")
    /\ SameReports /\ UNCHANGED <<others, leaked>>

\* create_socket closes the number once more.
closeAgain ==
    /\ At("closeAgain")
    /\ open' = open \ {client.sock}
    /\ nextAddress
    /\ SameReports /\ UNCHANGED <<others, leaked>>

(***************************************************************************)
(* process_request.  The result of sending is not looked at.  Every read   *)
(* blocks until the gateway sends something or hangs up.                   *)
(***************************************************************************)
writeRequest == At("request") /\ goTo("line") /\ SameFiles

\* The status line: matched, of another form (the status stays -1),
\* with a status that is no int, or none.  The gateway has made its answer by
\* then, and all that follows is of this one answer.
readResponseLine ==
    /\ At("line")
    /\ \/ /\ \E status \in {-1, 200, 500} :
                client' = [client EXCEPT !.pc = "headers", !.status = status]
          /\ fetched' = gateway
          /\ UNCHANGED <<listVars, gateway, fileVars>>
       \/ throw
       \/ fail

\* The header fields, to their end, and with them how the body is delimited.
\* Content-Length wins over chunks unless it is zero.
readHeaders ==
    /\ At("headers")
    /\ \/ fail
       \/ throw
       \/ \E gzip \in BOOLEAN :
             LET c == [client EXCEPT !.gzip = gzip]
             IN /\ \/ \E n \in 0..Pieces : client' = [c EXCEPT !.pc = "length", !.left = n]
                   \/ client' = [c EXCEPT !.pc = "toEnd"]
                   \/ client' = [c EXCEPT !.pc = "chunkSize"]
                /\ SameFiles

\* The next piece of the answer.
piece(body) == Append(body, fetched)

\* read_content_with_length.
readWithLength ==
    /\ At("length")
    /\ IF client.left = 0 THEN finish(client.body)
       ELSE \/ client' = [client EXCEPT !.left = @ - 1, !.body = piece(@)] /\ SameFiles
            \/ fail

\* read_content_without_length: the end of the stream is the end of the body.
readToEnd ==
    /\ At("toEnd")
    /\ \/ Len(client.body) < Pieces /\ client' = [client EXCEPT !.body = piece(@)] /\ SameFiles
       \/ finish(client.body)
       \/ fail

\* read_content_chunked: the size of a chunk, which may be negative and then
\* ends the body, or zero, or no number.
readChunkSize ==
    /\ At("chunkSize")
    /\ \/ Len(client.body) < Pieces /\ goTo("chunk") /\ SameFiles
       \/ goTo("trailer") /\ SameFiles
       \/ finish(client.body)
       \/ throw
       \/ fail

readChunk ==
    /\ At("chunk")
    /\ (goTo("chunkEnd") /\ SameFiles) \/ fail

\* A chunk that does not end with an end of line ends the body, without it.
readChunkEnd ==
    /\ At("chunkEnd")
    /\ \/ client' = [client EXCEPT !.pc = "chunkSize", !.body = piece(@)] /\ SameFiles
       \/ finish(client.body)
       \/ fail

readTrailer ==
    /\ At("trailer")
    /\ finish(client.body) \/ fail

(***************************************************************************)
(* beginPollingGateway, after the Get.                                     *)
(***************************************************************************)

\* The body of a response that holds all of a report, and nothing else.
whole(report) == [i \in 1..Pieces |-> report]

\* The list is forgotten once the tree is published.
parse_NoSwap ==
    /\ At("parse")
    /\ \E report \in Report : client.body = whole(report) /\ parseStateUpdate(report)
    /\ client' = Resting
    /\ UNCHANGED <<gateway, fileVars>>

\* A parser that makes do with the entries that have come.
parse_Lenient ==
    /\ At("parse")
    /\ client.body # <<>>
    /\ \E missing \in SUBSET Node :
          /\ Len(client.body) = Pieces => missing = {}
          /\ parseStateUpdate([n \in Node |-> IF n \in missing THEN "absent"
                                              ELSE Head(client.body)[n]])
    /\ client' = IF newList' # NoList THEN [Resting EXCEPT !.pc = "publish"] ELSE Resting
    /\ UNCHANGED <<gateway, fileVars>>

\* parseStateUpdate, with what is in the body, whatever the gateway would report
\* by now.
parse ==
    /\ At("parse")
    /\ \E report \in Report : client.body = whole(report) /\ parseStateUpdate(report)
    /\ client' = IF newList' # NoList THEN [Resting EXCEPT !.pc = "publish"] ELSE Resting
    /\ UNCHANGED <<gateway, fileVars>>

\* A part of a report is not a report: parseJson throws.  So does the whole of
\* something else.
parseThrows ==
    /\ At("parse")
    /\ pollFails
    /\ client' = Resting
    /\ UNCHANGED <<gateway, fileVars>>

publish ==
    /\ At("publish")
    /\ swapEdgeNodes
    /\ client' = Resting
    /\ UNCHANGED <<gateway, fileVars>>

-----------------------------------------------------------------------------
(***************************************************************************)
(* The rest of the process: connections and files.                         *)
(***************************************************************************)
othersOpen ==
    /\ \E f \in lowestFree : open' = open \cup {f} /\ others' = others \cup {f}
    /\ UNCHANGED <<networkVars, gateway, leaked, client>>

othersClose ==
    /\ \E f \in others : open' = open \ {f} /\ others' = others \ {f}
    /\ UNCHANGED <<networkVars, gateway, leaked, client>>

gatewayChanges ==
    /\ gateway' \in Report
    /\ UNCHANGED <<networkVars, fileVars, client>>

clientStep ==
    \/ resolve \/ resolveFails \/ socket \/ connected \/ connectFails \/ closeAgain
    \/ writeRequest \/ parse \/ parseThrows \/ publish

\* What the gateway has to do something for.
readStep ==
    \/ readResponseLine \/ readHeaders \/ readWithLength \/ readToEnd
    \/ readChunkSize \/ readChunk \/ readChunkEnd \/ readTrailer

GatewayNext ==
    /\ clientStep \/ readStep \/ othersOpen \/ othersClose \/ gatewayChanges
    /\ hit' = (hit \/ ~(others' \subseteq open'))

GatewaySpec == GatewayInit /\ [][GatewayNext]_gatewayVars

\* The scheduler runs the poller's function every few seconds, whatever came
\* of the last run.  A connection attempt is over in time; a read may not be.
FairGatewaySpec == GatewaySpec /\ WF_gatewayVars(clientStep /\ GatewayNext)

-----------------------------------------------------------------------------
\* The state of the poller is well formed.
GatewayTypeOK ==
    /\ NetworkTypeOK
    /\ gateway \in Report
    /\ open \subseteq Fd /\ others \subseteq Fd /\ leaked \subseteq Fd
    /\ client \in Client /\ hit \in BOOLEAN
    /\ newList # NoList <=> client.pc = "publish"

\* The Get under way holds a socket from socket() to the close.
Holding == client.pc \notin {"rest", "socket", "closeAgain", "parse", "publish"}

\* The first close that takes a descriptor from another thread is the second
\* one after a failed connect, when the number may have been given out again.
\* (After that a number may have two users, either of which closes it.)
OnlySecondCloseHitsOthers == [][~hit /\ hit' => closeAgain]_gatewayVars

\* No descriptor is lost but those of Gets that threw: each open one belongs
\* to another thread, to the Get under way, or to one that ended with an
\* exception from a number that does not convert.
OpenDescriptorsAccountedFor ==
    open \subseteq others \cup leaked \cup (IF Holding THEN {client.sock} ELSE {})

\* However a Get goes, the lists and the tree only ever get a report that the
\* gateway gave, in one answer and as a whole: an answer that is cut short or
\* that fails in any other way is a failed poll and leaves what was published,
\* nothing of one Get gets into the next, and what the gateway has come to
\* report while the answer was read waits for the next poll.
PollsAreWholeReports == NetworkSpec

\* A Get comes to an end unless the gateway keeps it waiting in a read for
\* ever: the timeout is one for connecting only.
GetEndsUnlessGatewaySilent ==
    ~At("rest") ~> (At("rest") \/ [](Holding /\ ~At("connect") /\ ~At("request")))

\* Once the gateway reports the same nodes all the time, and is heard to the
\* end again and again, the list holds just these: a node that comes is used,
\* and one that has gone is forgotten, also the last.
ListFollowsGateway ==
    \A nodes \in SUBSET Node :
        <>[](accepted(gateway) = nodes) /\ []<><<parse>>_gatewayVars
            => <>[]({edgeNodes_[i] : i \in DOMAIN edgeNodes_} = nodes)
=============================================================================
