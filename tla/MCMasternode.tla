---------------------------- MODULE MCMasternode ----------------------------
(***************************************************************************)
(* The TLC instance of Masternode: all configurations of a server for one  *)
(* site, or for the empty domain, and requests for the site on each of the *)
(* ports, for another host or for none, with URLs in either form.          *)
(***************************************************************************)
EXTENDS Masternode

CONSTANTS site, other, w1

MCConfig ==
    {c \in ConfigType : /\ c.protected_domain # other
                        /\ c.upgrade_insecure => c.ssl_enabled}

MCHost == {h \in Host : h.name = site \/ h.port = "none"}

MCUrl == {[host |-> NoHost, path |-> "page"], [host |-> NoHost, path |-> "worker"],
          [host |-> other, path |-> "page"], [host |-> site, path |-> "none"]}

MCMessage == {m \in MessageType : m.host \in MCHost /\ m.url \in MCUrl}
=============================================================================
