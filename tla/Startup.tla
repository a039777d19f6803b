-------------------------------- MODULE Startup --------------------------------
(***************************************************************************)
(* How main.go turns the command line into listeners.  The main goroutine  *)
(* checks the options, loads the specification and the fixtures, opens the *)
(* HTTP listener and hands it to a goroutine that serves it, only then     *)
(* opens the HTTPS one, and blocks in `select {}`.  Other processes bind   *)
(* addresses meanwhile, and either serving goroutine may end the program.  *)
(***************************************************************************)
EXTENDS Integers, FiniteSets

CONSTANTS
    Port, Socket,                 \* TCP ports and Unix sockets
    DefaultHTTP, DefaultHTTPS,    \* the ports 12111 and 12112
    Asked,                        \* the ports given on the command line and in PORT
    None,                         \* an option that is not given, no listener
    Garbage,                      \* a PORT variable that is not a number
    Contended                     \* addresses that other processes use at times

ASSUME StartupAssumption ==
    /\ DefaultHTTP \in Port /\ DefaultHTTPS \in Port /\ Asked \subseteq Port
    /\ Port \cap Socket = {} /\ None \notin Port \cup Socket
    /\ Garbage \notin Port \cup Socket /\ Garbage # None
    /\ Contended \subseteq Port \cup Socket

Address == Port \cup Socket
Protocol == {"HTTP", "HTTPS"}

(* The fields of main.go's struct that decide where to listen.             *)
Options ==
    [http : BOOLEAN, httpAddr : Asked \cup {None}, httpPort : Asked \cup {None},
     httpUnixSocket : Socket \cup {None},
     https : BOOLEAN, httpsAddr : Asked \cup {None}, httpsPort : Asked \cup {None},
     httpsUnixSocket : Socket \cup {None},
     port : Asked \cup {None}, unixSocket : Socket \cup {None}]

VARIABLES
    options, env,    \* the command line, and the variable PORT
    pc,              \* where the main goroutine is, or why the process ended
    listener,        \* listener[p]: the address that protocol p listens at
    taken,           \* the addresses that other processes hold
    left             \* socket files that an earlier instance left behind

vars == <<options, env, pc, listener, taken, left>>

Stopped == {"rejected", "unloadable", "unbound", "unserved", "deadlocked"}

----------------------------------------------------------------------------
(* checkConflictingOptions.                                                *)

Given(values) == {v \in values : v # None}

HTTPFlags(o) == {f \in {"httpAddr", "httpPort", "httpUnixSocket"} : o[f] # None}
HTTPSFlags(o) == {f \in {"httpsAddr", "httpsPort", "httpsUnixSocket"} : o[f] # None}

Legacy(o) == o.port # None \/ o.unixSocket # None

(* Mutant: the options of one protocol are not counted.                    *)
OnlyMixedConflicts(o) ==
    \/ o.port # None /\ o.unixSocket # None
    \/ (o.http \/ Legacy(o)) /\ HTTPFlags(o) # {}
    \/ o.https /\ HTTPSFlags(o) # {}
    \/ Legacy(o) /\ (o.httpsUnixSocket # None \/ o.httpAddr # None \/ o.httpsPort # None)

(* The third line from the end tests httpAddr, as main.go:248 does.        *)
Conflicts(o) ==
    \/ o.port # None /\ o.unixSocket # None
    \/ (o.http \/ Legacy(o)) /\ HTTPFlags(o) # {}
    \/ Cardinality(HTTPFlags(o)) > 1
    \/ o.https /\ HTTPSFlags(o) # {}
    \/ Legacy(o) /\ (o.httpsUnixSocket # None \/ o.httpAddr # None \/ o.httpsPort # None)
    \/ Cardinality(HTTPSFlags(o)) > 1

CheckConflictingOptions ==
    /\ pc = "flags"
    /\ pc' = IF Conflicts(options) THEN "rejected" ELSE "load"
    /\ UNCHANGED <<options, env, listener, taken, left>>

(* LoadSpec, LoadFixtures and NewStubServer succeed, or the process ends.  *)
Load ==
    /\ pc = "load"
    /\ pc' \in {"http", "unloadable"}
    /\ UNCHANGED <<options, env, listener, taken, left>>

----------------------------------------------------------------------------
(* The listeners.                                                          *)

PortDefault(default) == IF env # None THEN env ELSE default

FirstGiven(a, b, c) == IF a # None THEN a ELSE IF b # None THEN b ELSE c

(* getHTTPListener: where to listen for HTTP, or None.                     *)
HTTPAddress(o) ==
    LET own == FirstGiven(o.httpAddr, o.httpPort, o.httpUnixSocket)
    IN  IF own # None THEN own
        ELSE IF o.https \/ o.httpsPort # None \/ o.httpsUnixSocket # None THEN None
        ELSE FirstGiven(o.port, o.unixSocket, PortDefault(DefaultHTTP))

(* Mutant: HTTPS stays on when HTTP is asked for with the old -port.       *)
HTTPSBesidePort(o) ==
    LET own == FirstGiven(o.httpsAddr, o.httpsPort, o.httpsUnixSocket)
    IN  IF own # None THEN own
        ELSE IF o.http \/ o.httpPort # None \/ o.httpUnixSocket # None THEN None
        ELSE FirstGiven(o.port, o.unixSocket, PortDefault(DefaultHTTPS))

(* getNonSecureHTTPSListener.  It cannot get as far as -port.              *)
HTTPSAddress(o) ==
    LET own == FirstGiven(o.httpsAddr, o.httpsPort, o.httpsUnixSocket)
    IN  IF own # None THEN own
        ELSE IF o.http \/ o.httpPort # None \/ o.httpUnixSocket # None \/ o.port # None
             THEN None
        ELSE FirstGiven(o.unixSocket, None, PortDefault(DefaultHTTPS))

(* Mutant: the addresses of other processes are taken for free.           *)
InUseByMe == left \cup Given({listener[p] : p \in Protocol})

InUse == taken \cup left \cup Given({listener[p] : p \in Protocol})

(* Mutant: a listener that cannot be opened is tried again.                *)
Retry(p, address, next) ==
    /\ address # Garbage /\ address \notin InUse
    /\ pc' = next /\ listener' = [listener EXCEPT ![p] = address]
    /\ UNCHANGED <<options, env, taken, left>>

(* One of the two getters, and what main does with its result: with an     *)
(* address that can be bound, start the goroutine that serves it.          *)
Listen(p, address, next) ==
    /\ IF address = Garbage \/ address \in InUse
       THEN pc' = "unbound" /\ UNCHANGED listener
       ELSE pc' = next /\ listener' = [listener EXCEPT ![p] = address]
    /\ UNCHANGED <<options, env, taken, left>>

GetHTTPListener == pc = "http" /\ Listen("HTTP", HTTPAddress(options), "https")

GetHTTPSListener == pc = "https" /\ Listen("HTTPS", HTTPSAddress(options), "blocked")

Deaf == \A p \in Protocol : listener[p] = None

(* Serve returns an error in one of the goroutines: it aborts the process, *)
(* whatever main is doing.                                                 *)
ServeFails ==
    /\ pc \notin Stopped
    /\ ~Deaf
    /\ pc' = "unserved"
    /\ UNCHANGED <<options, env, listener, taken, left>>

(* `select {}` with no goroutine left: "all goroutines are asleep".        *)
Deadlock ==
    /\ pc = "blocked" /\ Deaf
    /\ pc' = "deadlocked"
    /\ UNCHANGED <<options, env, listener, taken, left>>

Main == CheckConflictingOptions \/ Load \/ GetHTTPListener \/ GetHTTPSListener \/ Deadlock

----------------------------------------------------------------------------
(* Another process binds an address or lets go of it.                      *)
Others ==
    /\ \/ \E a \in Contended \ InUse : taken' = taken \cup {a}
       \/ \E a \in taken : taken' = taken \ {a}
    /\ UNCHANGED <<options, env, pc, listener, left>>

(* The process, which has no other end than abort or a signal, is started  *)
(* again.  Neither removes the files of its Unix sockets.                  *)
Restart ==
    /\ pc \in Stopped \/ (pc = "blocked" /\ ~Deaf)
    /\ pc' = "flags"
    /\ listener' = [p \in Protocol |-> None]
    /\ left' = left \cup ({listener[p] : p \in Protocol} \cap Socket)
    /\ UNCHANGED <<options, env, taken>>

Init ==
    /\ options \in Options
    /\ env \in Asked \cup {None, Garbage}
    /\ pc = "flags"
    /\ listener = [p \in Protocol |-> None]
    /\ taken = {}
    /\ left = {}

Next == Main \/ ServeFails \/ Others \/ Restart

(* The main goroutine is scheduled; nothing else has to happen.            *)
Spec == Init /\ [][Next]_vars /\ WF_vars(Main)

----------------------------------------------------------------------------
(* Properties.                                                             *)

TypeOK ==
    /\ options \in Options /\ env \in Asked \cup {None, Garbage}
    /\ pc \in {"flags", "load", "http", "https", "blocked"} \cup Stopped
    /\ listener \in [Protocol -> Address \cup {None}]
    /\ taken \cap Given({listener[p] : p \in Protocol}) = {}
    /\ left \subseteq Socket

(* main.go:207-269: the checks refuse every command line in which one      *)
(* option would silently win over another.  Once the process blocks, each  *)
(* address that was given is listened at, by the protocol it was given for *)
(* (-port and -unix name none).  A bare -http or -https says nothing of    *)
(* addresses, but it does switch the other protocol off.                   *)
AddressesHonoured ==
    pc = "blocked" /\ ~options.http /\ ~options.https =>
        /\ \A f \in HTTPFlags(options) : listener["HTTP"] = options[f]
        /\ \A f \in HTTPSFlags(options) : listener["HTTPS"] = options[f]
        /\ Given({options.port, options.unixSocket}) \subseteq {listener[p] : p \in Protocol}

(* main.go:115-116, 137-139 and 323-326: asking for one protocol only, in  *)
(* any of the ways the code looks at (not with -http-addr or -https-addr), *)
(* leaves the other one off throughout.                                    *)
UnaskedProtocolOff ==
    /\ HTTPSFlags(options) \ {"httpsAddr"} # {} /\ HTTPFlags(options) = {} =>
          listener["HTTP"] = None
    /\ (HTTPFlags(options) \ {"httpAddr"} # {} \/ options.port # None)
       /\ HTTPSFlags(options) = {} => listener["HTTPS"] = None

(* Whatever the options and the other processes do, a start comes to an    *)
(* end: the process listens somewhere, or it has stopped.  In particular   *)
(* no process is left that blocks without a listener (-http -https).       *)
Settles ==
    (pc = "flags") ~> (pc \in Stopped \/ (pc = "blocked" /\ ~Deaf))

(* main.go:60, "Unix socket to listen on": with -unix and a socket that    *)
(* nobody uses, the process does not fail to bind.                         *)
UnixSocketWorks ==
    pc = "unbound" /\ options.unixSocket # None /\ HTTPSFlags(options) = {} =>
        options.unixSocket \in taken \cup left

----------------------------------------------------------------------------
(* Why the first three hold: nothing is listened at but what the getters   *)
(* return, and main has not got past a check that fails, nor past a getter *)
(* without the listener that it returned.                                  *)
Checked == pc \in {"load", "http", "https", "blocked"} => ~Conflicts(options)

Opened ==
    /\ listener["HTTP"] \in {None, HTTPAddress(options)}
    /\ listener["HTTPS"] \in {None, HTTPSAddress(options)}
    /\ pc \in {"https", "blocked"} => listener["HTTP"] = HTTPAddress(options)
    /\ pc = "blocked" => listener["HTTPS"] = HTTPSAddress(options)

(* main.go:71-172, the invariant that the first three follow from: at each *)
(* point of main the checks before it have been passed, and the listeners  *)
(* that are open are those that the getters return for the options.        *)
IInv == TypeOK /\ Checked /\ Opened
=============================================================================
