-------------------------- MODULE MCWebserverSocket --------------------------
(* Instances of WebserverSocket for TLC. *)
EXTENDS WebserverSocket

CONSTANTS client, proxy, forged, good, short

\* A client behind a proxy, with no remote address and a bad cookie before the good
\* one; and the proxy itself, on a line that leaves X-Forwarded-For out, with a cookie
\* after the good one that is no whole block.  A line with an address that is no string.
MCLines ==
    {[ip |-> NoIP, xff |-> <<proxy, client>>, cookies |-> <<forged, good>>],
     [ip |-> proxy, xff |-> Omitted, cookies |-> <<good, short>>],
     [ip |-> Mistyped, xff |-> <<client>>, cookies |-> Omitted]}

\* Only good holds the secret.
MCCookieOf ==
    [k \in {forged, good, short} |-> [secret |-> k = good, uneven |-> k = short, ips |-> {client}]]
=============================================================================
