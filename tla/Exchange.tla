------------------------------ MODULE Exchange ------------------------------
(***************************************************************************)
(* What the proxy promises the clients that share it, without connections, *)
(* buffers or files.  A GET of a published page is answered with that page *)
(* at once; any other request with a 503 or with the whole of one response *)
(* of an origin that has not failed, which may cut the answer short later. *)
(* A request that has run its course publishes what its own origin sent,   *)
(* but only a GET of a page that is not published yet and that there is    *)
(* room for.  One that was answered with content must publish it; one that *)
(* was cut while it waited may publish the part that came before.          *)
(***************************************************************************)
EXTENDS Content, FiniteSets

CONSTANTS
    Handler,    \* the requests that may be under way, one for each handler
    Url,
    NoRequest,
    MaxRoutes   \* the pages there is room for

VARIABLES
    request,    \* request[h]: what its client asked for
    phase,      \* phase[h]: new, waiting, answered, cut or over
    reply,      \* reply[h]: what it was answered with
    failed,     \* the requests whose origin has failed
    published   \* what every later GET is answered with: a page for each of its URLs

exchangeVars == <<request, phase, reply, failed, published>>

NoReply == [status |-> 0, from |-> NoResponse, body |-> <<>>]
Unavailable == [status |-> 503, from |-> NoResponse, body |-> <<>>]
Ok(page) == [status |-> 200, from |-> page.from, body |-> page.body]

Page(r, n) == [from |-> r, body |-> Body(r, n)]

Init ==
    /\ request = [h \in Handler |-> NoRequest]
    /\ phase = [h \in Handler |-> "new"]
    /\ reply = [h \in Handler |-> NoReply]
    /\ failed = {}
    /\ published = [u \in {} |-> Page(NoResponse, 0)]

Answer(h, r) ==
    /\ phase' = [phase EXCEPT ![h] = "answered"]
    /\ reply' = [reply EXCEPT ![h] = r]

Wait(h) ==
    /\ phase' = [phase EXCEPT ![h] = "waiting"]
    /\ UNCHANGED reply

Ask(h, q) ==
    /\ phase[h] = "new"
    /\ request' = [request EXCEPT ![h] = q]
    /\ IF q.get /\ q.url \in DOMAIN published
       THEN Answer(h, Ok(published[q.url]))
       ELSE Wait(h) \/ Answer(h, Unavailable)
    /\ UNCHANGED <<failed, published>>

Respond(h) ==
    /\ phase[h] = "waiting"
    /\ \/ Answer(h, Unavailable)
       \/ \E r \in Response : h \notin failed /\ r.len > 0 /\ Answer(h, Ok(Page(r, r.len)))
    /\ UNCHANGED <<request, failed, published>>

\* The origin fails, and the client that waits for it or reads its answer is cut
\* off.
Fail(h) ==
    /\ phase[h] # "new" /\ h \notin failed
    /\ failed' = failed \cup {h}
    /\ phase' = [phase EXCEPT ![h] = IF @ \in {"waiting", "answered"} THEN "cut" ELSE @]
    /\ UNCHANGED <<request, reply, published>>

\* A page that is to be published, and that there is room for.
Wanted(h) ==
    /\ request[h].get
    /\ request[h].url \notin DOMAIN published
    /\ Cardinality(DOMAIN published) < MaxRoutes

Publish(u, page) ==
    published' = [v \in DOMAIN published \cup {u} |->
                    IF v = u THEN page ELSE published[v]]

\* What the origin sent: the answer, or what came before it was cut.
Sent(h, r, n) ==
    IF reply[h].status = 200 THEN reply[h] = Ok(Page(r, n)) ELSE phase[h] = "cut"

Finish(h) ==
    /\ phase[h] \in {"answered", "cut"}
    /\ phase' = [phase EXCEPT ![h] = "over"]
    /\ \/ /\ Wanted(h)
          /\ \E r \in Response : \E n \in 1..r.len :
                /\ Sent(h, r, n)
                /\ Publish(request[h].url, Page(r, n))
       \/ /\ Wanted(h) => reply[h].status # 200
          /\ UNCHANGED published
    /\ UNCHANGED <<request, reply, failed>>

\* The client goes away before its request has run its course.
Leave(h) ==
    /\ phase[h] \in {"waiting", "answered"}
    /\ phase' = [phase EXCEPT ![h] = "over"]
    /\ UNCHANGED <<request, reply, failed, published>>

\* The end of the process, at any time.
Restart == Init'

Next ==
    \/ \E h \in Handler :
          \/ \E q \in [url : Url, get : BOOLEAN] : Ask(h, q)
          \/ Respond(h) \/ Fail(h) \/ Finish(h) \/ Leave(h)
    \/ Restart

Spec == Init /\ [][Next]_exchangeVars
=============================================================================
