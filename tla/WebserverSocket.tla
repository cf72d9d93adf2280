--------------------------- MODULE WebserverSocket ---------------------------
(***************************************************************************)
(* The socket a web server asks whether to let a request through: the      *)
(* goroutine that accepts connections, one goroutine per connection that   *)
(* reads lines, hands each request to Botex.HandleRequest and answers OK or *)
(* BLOCK, and one goroutine per address of a line that looks into the      *)
(* block list.  The list changes meanwhile, as BlockList lets it, cookies  *)
(* expire, look-ups fail, and the process may be told to end, or dies.     *)
(***************************************************************************)
EXTENDS Naturals, Sequences, FiniteSets

CONSTANTS
    IPs,        \* addresses
    Private,    \* those in privateIPBlocks, if config.IgnorePrivateIPs is set
    NoIP,       \* what is not an address (an empty or broken field)
    Cookies,    \* values of the captcha cookie
    CookieOf,   \* CookieOf[k]: whether it holds the secret, its addresses, and
                \* whether it is so short or uneven that decrypt panics
    KeyIs32,    \* config.CookieKey has the 32 bytes it needs
    Lines,      \* bound: the lines a web server may send
    Omitted,    \* a field that a line leaves out
    Mistyped,   \* a field of another JSON type, or the fault of a line that is not JSON
    TooLong,    \* a line that exceeds the scanner's buffer
    Conns,      \* connections
    MaxLines,   \* bound: lines in all
    InboxCap,   \* bound: lines sent on a connection and not yet read
    BlockTTL    \* config.BlockTTL, in ticks

ASSUME PrivateAssumption == Private \subseteq IPs /\ NoIP \notin IPs
ASSUME CookieAssumption == CookieOf \in [Cookies -> [secret : BOOLEAN, uneven : BOOLEAN, ips : SUBSET IPs]]
ASSUME LineAssumption ==
    /\ Lines \subseteq [ip : IPs \cup {NoIP, Omitted, Mistyped},
                       xff : Seq(IPs \cup {NoIP}) \cup {Omitted, Mistyped},
                       cookies : Seq(Cookies) \cup {Omitted, Mistyped}]
    /\ TooLong \notin Lines
    /\ {Omitted, Mistyped} \cap (IPs \cup {NoIP} \cup Seq(IPs \cup {NoIP}) \cup Seq(Cookies)) = {}
ASSUME BoundAssumption == MaxLines \in Nat /\ InboxCap \in Nat \ {0} /\ BlockTTL \in Nat \ {0}

VARIABLES
    ttl,        \* the block list: remaining time of each address, 0: not listed
    lapsed,     \* cookies whose timestamp is in the past
    cancelled,  \* ctx is done
    storeOpen,  \* the store has not been closed
    listener,   \* wss.run: about to select, in Accept, or closed; dead: no process
    late,       \* connections accepted since ctx is done
    sent,       \* lines sent so far
    inbox,      \* lines sent on each connection and not yet read
    conn,       \* what the goroutine of each connection is doing
    seen        \* history: what each decision could know (properties only)

vars == <<ttl, lapsed, cancelled, storeOpen, listener, late, sent, inbox,
          conn, seen>>
worldVars == <<ttl, lapsed, cancelled, storeOpen>>
acceptVars == <<listener, late>>
clientVars == <<sent, inbox>>

-----------------------------------------------------------------------------
(* Data. *)

NoData == [ip |-> NoIP, xff |-> <<>>, cookies |-> <<>>]
NoLookups == [i \in {} |-> "done"]

\* pc of a connection: none, dialled, reading, decide, collect, write
Closed == [pc |-> "none", data |-> NoData, lookups |-> NoLookups, left |-> 0, decision |-> "OK"]

Unseen == [named |-> {}, listed |-> {}, free |-> {}, failed |-> {}, valid |-> {}]

\* What a web server may send.
Inputs == Lines \cup {TooLong}

Elems(s) == {s[i] : i \in 1..Len(s)}

Missing(v) == v \in {Omitted, Mistyped}

Taken(old, new) == IF Missing(new) THEN old ELSE new

\* json.Unmarshal returns an error for such a line, after taking what it can.  A
\* line that is not JSON at all is one that has nothing else.
Broken(line) == line.ip = Mistyped \/ line.xff = Mistyped \/ line.cookies = Mistyped

\* The addresses of a line that may matter (history).
Named(line) ==
    ({line.ip} \cap IPs)
        \cup (IF Missing(line.xff) THEN {} ELSE Elems(line.xff) \cap (IPs \ Private))

\* A slip: a field that is left out is taken as it is.
Overwritten(data, line) == line

\* Unmarshalling into the variable of the connection leaves the fields alone
\* that the line leaves out or cannot fill.
Unmarshalled(data, line) ==
    [ip |-> Taken(data.ip, line.ip), xff |-> Taken(data.xff, line.xff),
     cookies |-> Taken(data.cookies, line.cookies)]

Public(ip) == ip \in IPs \ Private

\* decide: the remote address (at position 0), private or not, and the public ones of
\* X-Forwarded-For, which may name one twice.
Positions(data) ==
    {i \in 0..Len(data.xff) : IF i = 0 THEN data.ip \in IPs ELSE Public(data.xff[i])}

AddressAt(data, i) == IF i = 0 THEN data.ip ELSE data.xff[i]

\* The addresses that are looked up for c's line.
Asked(c) == {AddressAt(conn[c].data, i) : i \in DOMAIN conn[c].lookups}

\* A cookie that ends the search: another secret, or its time is over.
Refused(k) == ~CookieOf[k].secret \/ k \in lapsed

Names(k, asked) == CookieOf[k].ips \cap asked # {}

\* hasValidCaptchaCookie: the first cookie that is refused, or names an address.
HasValidCookie(cookies, asked) ==
    IF ~KeyIs32 THEN cookies # <<>>
    ELSE \E i \in 1..Len(cookies) :
            /\ \A j \in 1..i : ~Refused(cookies[j])
            /\ Names(cookies[i], asked)

\* decrypt slices and decrypts what it is given, of any length: the search comes to
\* a cookie that is no whole number of blocks.
Panics(cookies, asked) ==
    /\ KeyIs32
    /\ \E i \in 1..Len(cookies) :
          /\ CookieOf[cookies[i]].uneven
          /\ \A j \in 1..(i - 1) : ~CookieOf[cookies[j]].uneven /\ ~Refused(cookies[j])
                                   /\ ~Names(cookies[j], asked)

-----------------------------------------------------------------------------
(* The world: the block list, the clock of the cookies, the end of the process. *)

\* The list: its entries come, grow older and go as BlockPipeline implements it.
BlockedIPs == INSTANCE BlockList WITH suspects <- IPs, rules <- {}, ClearBlocked <- FALSE

\* What the decisions under way could have seen of the list (history).
Seen ==
    seen' = [c \in Conns |->
        IF conn[c].pc # "collect" THEN seen[c]
        ELSE [seen[c] EXCEPT !.listed = @ \cup {ip \in Asked(c) : ttl'[ip] > 0},
                             !.free = @ \cup {ip \in Asked(c) : ttl'[ip] = 0}]]

ListChanges ==
    /\ storeOpen
    /\ BlockedIPs!Elapse \/ \E ip \in IPs : BlockedIPs!Enter(ip) \/ BlockedIPs!Remove(ip)
    /\ Seen
    /\ UNCHANGED <<lapsed, cancelled, storeOpen, acceptVars, clientVars, conn>>

Lapse(k) ==
    /\ k \notin lapsed /\ CookieOf[k].secret /\ listener # "dead"
    /\ lapsed' = lapsed \cup {k}
    /\ UNCHANGED <<ttl, cancelled, storeOpen, acceptVars, clientVars, conn, seen>>

Cancel ==
    /\ ~cancelled /\ listener # "dead"
    /\ cancelled' = TRUE
    /\ UNCHANGED <<ttl, lapsed, storeOpen, acceptVars, clientVars, conn, seen>>

\* New's last goroutine closes the store; look-ups fail from then on.
CloseStore ==
    /\ cancelled /\ storeOpen
    /\ storeOpen' = FALSE
    /\ UNCHANGED <<ttl, lapsed, cancelled, acceptVars, clientVars, conn, seen>>

\* The process dies, and every connection with it.
Exit ==
    /\ listener' = "dead"
    /\ storeOpen' = FALSE
    /\ conn' = [c \in Conns |-> Closed]
    /\ inbox' = [c \in Conns |-> <<>>]
    /\ seen' = [c \in Conns |-> Unseen]
    /\ UNCHANGED <<ttl, lapsed, cancelled, late, sent>>

-----------------------------------------------------------------------------
(* The web server. *)

Dial(c) ==
    /\ conn[c].pc = "none"
    /\ listener \notin {"closed", "dead"}
    /\ conn' = [conn EXCEPT ![c].pc = "dialled"]
    /\ UNCHANGED <<worldVars, acceptVars, clientVars, seen>>

SendLine(c, line) ==
    /\ conn[c].pc # "none"
    /\ sent < MaxLines /\ Len(inbox[c]) < InboxCap
    /\ sent' = sent + 1
    /\ inbox' = [inbox EXCEPT ![c] = Append(@, line)]
    /\ UNCHANGED <<worldVars, acceptVars, conn, seen>>

-----------------------------------------------------------------------------
(* run: the goroutine that accepts connections.  It looks at ctx only between *)
(* two connections.                                                          *)

StartAccept ==
    /\ listener = "select" /\ ~cancelled
    /\ listener' = "accept"
    /\ UNCHANGED <<worldVars, late, clientVars, conn, seen>>

\* A slip: accept until there is an error.
AfterAcceptAgain == "accept"

AfterAccept == "select"

Accept(c) ==
    /\ listener = "accept"
    /\ conn[c].pc = "dialled"
    /\ conn' = [conn EXCEPT ![c].pc = "reading"]
    /\ listener' = AfterAccept
    /\ late' = IF cancelled THEN late + 1 ELSE late
    /\ UNCHANGED <<worldVars, clientVars, seen>>

\* An error of Accept is fatal.
AcceptFails == listener = "accept" /\ Exit

\* The connections that nobody has accepted are refused.
CloseListener ==
    /\ listener = "select" /\ cancelled
    /\ listener' = "closed"
    /\ conn' = [c \in Conns |-> IF conn[c].pc = "dialled" THEN Closed ELSE conn[c]]
    /\ inbox' = [c \in Conns |-> IF conn[c].pc = "dialled" THEN <<>> ELSE inbox[c]]
    /\ UNCHANGED <<worldVars, late, sent, seen>>

-----------------------------------------------------------------------------
(* serve and decide. *)

\* The scanner stops at a line that is too long, as at the end of the input: the
\* connection is closed, and what else was sent on it stays unread.
HangUp(c) ==
    /\ conn[c].pc = "reading"
    /\ inbox[c] # <<>> /\ Head(inbox[c]) = TooLong
    /\ inbox' = [inbox EXCEPT ![c] = <<>>]
    /\ conn' = [conn EXCEPT ![c] = Closed]
    /\ seen' = [seen EXCEPT ![c] = Unseen]
    /\ UNCHANGED <<worldVars, acceptVars, sent>>

\* A broken line is answered OK at once, but what it said stays.  Any other is a
\* request for HandleRequest (BlockPipeline), which comes back, and is decided on.
Read(c) ==
    /\ conn[c].pc = "reading"
    /\ inbox[c] # <<>> /\ Head(inbox[c]) # TooLong
    /\ inbox' = [inbox EXCEPT ![c] = Tail(@)]
    /\ LET line == Head(inbox[c])
       IN  /\ conn' = [conn EXCEPT ![c] =
                         [@ EXCEPT !.pc = IF Broken(line) THEN "write" ELSE "decide",
                                   !.data = Unmarshalled(conn[c].data, line)]]
           /\ seen' = [seen EXCEPT ![c].named = @ \cup Named(line)]
    /\ UNCHANGED <<worldVars, acceptVars, sent>>

\* A slip: an answer is awaited for the remote address even if it is none.
AwaitedAlways(data) == 1 + Cardinality(Positions(data) \ {0})

\* The answers decide waits for.
Awaited(data) == Cardinality(Positions(data))

\* decide starts a goroutine for each address.
StartLookups(c) ==
    /\ conn[c].pc = "decide"
    /\ conn' = [conn EXCEPT ![c] =
                  [@ EXCEPT !.pc = "collect", !.left = Awaited(conn[c].data),
                            !.lookups = [i \in Positions(conn[c].data) |-> "looking"]]]
    /\ seen' = [seen EXCEPT ![c] =
                  [@ EXCEPT !.listed = {ip \in Asked(c)' : ttl[ip] > 0},
                            !.free = {ip \in Asked(c)' : ttl[ip] = 0},
                            !.valid = Cookies \ lapsed]]
    /\ UNCHANGED <<worldVars, acceptVars, clientVars>>

\* A slip: only an address that is certainly not listed is let through.
VerdictClosed(ip, fails) == IF ~fails /\ ttl[ip] = 0 THEN "OK" ELSE "BLOCK"

\* lookup: GetIP returns an error for an address that is not listed, and for every
\* other failure: of the store, or of the entry, which it cannot read.
Verdict(ip, fails) == IF ~fails /\ ttl[ip] > 0 THEN "BLOCK" ELSE "OK"

\* A closed store always fails.
Lookup(c, i) ==
    /\ i \in DOMAIN conn[c].lookups
    /\ conn[c].lookups[i] = "looking"
    /\ \E fails \in BOOLEAN :
          LET ip == AddressAt(conn[c].data, i)
          IN  /\ storeOpen \/ fails
              /\ conn' = [conn EXCEPT ![c].lookups[i] = Verdict(ip, fails)]
              /\ seen' = IF fails THEN [seen EXCEPT ![c].failed = @ \cup {ip}] ELSE seen
    /\ UNCHANGED <<worldVars, acceptVars, clientVars>>

\* A slip: the last answer counts.
LastAnswer(decision, verdict) == verdict

OneBlocks(decision, verdict) == IF verdict = "BLOCK" THEN "BLOCK" ELSE decision

\* decide receives an answer from the channel without a buffer.
Collect(c, i) ==
    /\ conn[c].pc = "collect" /\ conn[c].left > 0
    /\ i \in DOMAIN conn[c].lookups
    /\ conn[c].lookups[i] \in {"OK", "BLOCK"}
    /\ conn' = [conn EXCEPT ![c] =
                  [@ EXCEPT !.lookups[i] = "done", !.left = conn[c].left - 1,
                            !.decision = OneBlocks(conn[c].decision, conn[c].lookups[i])]]
    /\ UNCHANGED <<worldVars, acceptVars, clientVars, seen>>

\* A slip: the first BLOCK is enough.
EnoughAtBlock(left, decision) == left = 0 \/ decision = "BLOCK"

Enough(left, decision) == left = 0

\* The cookies are looked at for a request that would be blocked.
PanicsIn(c) == conn[c].decision = "BLOCK" /\ Panics(conn[c].data.cookies, Asked(c))

\* The channel is closed, and a cookie may still let the request through.
Conclude(c) ==
    /\ conn[c].pc = "collect"
    /\ Enough(conn[c].left, conn[c].decision) /\ ~PanicsIn(c)
    /\ LET ok == conn[c].decision = "OK" \/ HasValidCookie(conn[c].data.cookies, Asked(c))
       IN  conn' = [conn EXCEPT ![c] = [@ EXCEPT !.pc = "write",
                                                 !.decision = IF ok THEN "OK" ELSE "BLOCK"]]
    /\ UNCHANGED <<worldVars, acceptVars, clientVars, seen>>

\* Nothing recovers from a panic.
Panic(c) ==
    /\ conn[c].pc = "collect"
    /\ Enough(conn[c].left, conn[c].decision) /\ PanicsIn(c)
    /\ Exit

\* The answer is written; what the line said stays in the variable.
Write(c) ==
    /\ conn[c].pc = "write"
    /\ conn' = [conn EXCEPT ![c] = [@ EXCEPT !.pc = "reading", !.lookups = NoLookups,
                                             !.left = 0, !.decision = "OK"]]
    /\ seen' = [seen EXCEPT ![c] = [Unseen EXCEPT !.named = seen[c].named]]
    /\ UNCHANGED <<worldVars, acceptVars, clientVars>>

\* The web server has closed the connection, which shows when all lines are read:
\* the goroutine closes its end.
EndOfInput(c) ==
    /\ conn[c].pc = "reading"
    /\ inbox[c] = <<>>
    /\ conn' = [conn EXCEPT ![c] = Closed]
    /\ seen' = [seen EXCEPT ![c] = Unseen]
    /\ UNCHANGED <<worldVars, acceptVars, clientVars>>

-----------------------------------------------------------------------------

Init ==
    /\ ttl \in [IPs -> {0, BlockTTL}]
    /\ lapsed = {}
    /\ cancelled = FALSE
    /\ storeOpen = TRUE
    /\ listener = "select"
    /\ late = 0
    /\ sent = 0
    /\ inbox = [c \in Conns |-> <<>>]
    /\ conn = [c \in Conns |-> Closed]
    /\ seen = [c \in Conns |-> Unseen]

World == ListChanges \/ (\E k \in Cookies : Lapse(k)) \/ Cancel \/ CloseStore

\* A connection is over when the web server says so.
WebServer(c) == Dial(c) \/ EndOfInput(c) \/ \E line \in Inputs : SendLine(c, line)

Accepting == StartAccept \/ AcceptFails \/ CloseListener \/ \E c \in Conns : Accept(c)

Lookups(c) == \E i \in DOMAIN conn[c].lookups : Lookup(c, i)

Serve(c) ==
    \/ Read(c) \/ HangUp(c) \/ StartLookups(c) \/ Conclude(c) \/ Panic(c) \/ Write(c)
    \/ \E i \in DOMAIN conn[c].lookups : Collect(c, i)

Next == World \/ Accepting \/ \E c \in Conns : WebServer(c) \/ Serve(c) \/ Lookups(c)

Spec == Init /\ [][Next]_vars

\* The goroutines of a connection go on; HandleRequest returns (SendersProgress,
\* AddReturns), and a web server reads its answers.  Nothing is assumed of the list,
\* the cookies, the clients and the end of the process.
FairSpec == Spec /\ \A c \in Conns : WF_vars(Serve(c) \/ Lookups(c))

-----------------------------------------------------------------------------
(* Properties. *)

\* The types of the variables; no field is ever a missing one.
TypeOK ==
    /\ ttl \in [IPs -> 0..BlockTTL]
    /\ lapsed \subseteq Cookies
    /\ cancelled \in BOOLEAN /\ storeOpen \in BOOLEAN
    /\ listener \in {"select", "accept", "closed", "dead"}
    /\ late \in Nat /\ sent \in 0..MaxLines
    /\ \A c \in Conns : inbox[c] \in Seq(Inputs) /\ Len(inbox[c]) <= InboxCap
    /\ \A c \in Conns :
          /\ conn[c].pc \in {"none", "dialled", "reading", "decide", "collect", "write"}
          /\ conn[c].data.ip \in IPs \cup {NoIP}
          /\ conn[c].data.xff \in Seq(IPs \cup {NoIP}) /\ conn[c].data.cookies \in Seq(Cookies)
          /\ DOMAIN conn[c].lookups \subseteq Positions(conn[c].data)
          /\ \A i \in DOMAIN conn[c].lookups : conn[c].lookups[i] \in {"looking", "OK", "BLOCK", "done"}
          /\ conn[c].left \in Nat /\ conn[c].decision \in {"OK", "BLOCK"}

\* BLOCK is answered only on account of an address that was listed at some moment
\* of this decision, and that some line of this connection named: as the remote
\* address or as a public one.  Answers of other connections, of earlier lines and
\* failures of the store never block (lookup, decide).
BlocksJustified ==
    \A c \in Conns : conn[c].pc = "write" /\ conn[c].decision = "BLOCK" =>
        seen[c].listed \cap seen[c].named # {}

\* OK means that each address was free at some moment of the decision, or that its
\* own look-up failed, or that the line came with a cookie that was good when the
\* decision began (no address is asked for on a broken line).
PassesJustified ==
    \A c \in Conns : conn[c].pc = "write" /\ conn[c].decision = "OK" =>
        \/ Asked(c) \subseteq seen[c].free \cup seen[c].failed
        \/ \E k \in Elems(conn[c].data.cookies) :
              ~KeyIs32 \/ (k \in seen[c].valid /\ CookieOf[k].secret /\ Names(k, Asked(c)))

\* When decide closes its channel every look-up has delivered its answer: none is
\* left that would send on a closed channel.
NoLookupLeftBehind ==
    \A c \in Conns : conn[c].pc # "collect" =>
        \A i \in DOMAIN conn[c].lookups : conn[c].lookups[i] = "done"

\* Once the process is told to end, at most one more connection is taken on (run).
OneMoreConnection == late <= 1

\* A line that the scanner takes, sent on a connection that is served, is answered,
\* even while the process is ending: unless a line before it was too long, or the
\* process dies (serve).
LinesAnswered ==
    \A c \in Conns :
        (\/ conn[c].pc = "reading" /\ inbox[c] # <<>> /\ Head(inbox[c]) # TooLong
         \/ conn[c].pc \in {"decide", "collect"})
            ~> (conn[c].pc = "write" \/ listener = "dead")
=============================================================================
