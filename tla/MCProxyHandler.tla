--------------------------- MODULE MCProxyHandler ---------------------------
(***************************************************************************)
(* TLC instances of ProxyHandler.  The responses are a page of two chunks, *)
(* which may be cut short and may get a service worker, a plain body of    *)
(* three, which may also be reordered, and one without a body.             *)
(***************************************************************************)
EXTENDS ProxyHandler, TLC

page == [status |-> 200, html |-> TRUE, len |-> 2]
asset == [status |-> 200, html |-> FALSE, len |-> 3]
noContent == [status |-> 204, html |-> FALSE, len |-> 0]

PageOnly == {page}
PageAndEmpty == {page, noContent}
AnyBody == {page, asset, noContent}

HandlerSymmetry == Permutations(Handler)
Symmetry == HandlerSymmetry \cup Permutations(Url)
=============================================================================
