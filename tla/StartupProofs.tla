----------------------------- MODULE StartupProofs -----------------------------
(***************************************************************************)
(* Proofs about Startup, for any ports and sockets, any command line and   *)
(* any PORT variable, whatever addresses other processes hold.             *)
(***************************************************************************)
EXTENDS Startup, FiniteSetTheorems, TLAPS

(* The getters return an address that can be bound, Garbage from PORT, or  *)
(* None (main.go:271-340).                                                 *)
LEMMA AddressType ==
    ASSUME options \in Options, env \in Asked \cup {None, Garbage}
    PROVE  /\ HTTPAddress(options) \in Address \cup {None, Garbage}
           /\ HTTPSAddress(options) \in Address \cup {None, Garbage}
BY StartupAssumption DEF Options, Address, HTTPAddress, HTTPSAddress, FirstGiven, PortDefault

(* What checkConflictingOptions concludes from counting the options of a   *)
(* protocol (main.go:224-234, 252-262): there are no two of them.          *)
LEMMA AtMostOne ==
    ASSUME NEW S, NEW T, S \subseteq T, IsFiniteSet(T), ~(Cardinality(S) > 1),
           NEW x \in S, NEW y \in S
    PROVE  x = y
<1>1. IsFiniteSet(S) /\ Cardinality(S) \in Nat
  BY FS_Subset, FS_CardinalityType
<1>2. Cardinality({x}) = 1 /\ IsFiniteSet({x})
  BY FS_Singleton
<1>3. Cardinality({x}) <= Cardinality(S) /\ (Cardinality(S) = Cardinality({x}) => S = {x})
  BY <1>1, FS_Subset
<1> QED BY <1>1, <1>2, <1>3

(* The options of a protocol can be counted.                               *)
LEMMA TripleFinite == \A a, b, c : IsFiniteSet({a, b, c})
<1> TAKE a, b, c
<1>1. IsFiniteSet({a} \cup {b})
  BY FS_Singleton, FS_AddElement
<1>2. IsFiniteSet(({a} \cup {b}) \cup {c})
  BY <1>1, FS_AddElement
<1>3. ({a} \cup {b}) \cup {c} = {a, b, c}
  OBVIOUS
<1> QED BY <1>2, <1>3

(* Of the options of one protocol at most one is given.                    *)
LEMMA OneFlagEach ==
    ASSUME NEW o, ~Conflicts(o)
    PROVE  /\ \A f, g \in HTTPFlags(o) : f = g
           /\ \A f, g \in HTTPSFlags(o) : f = g
<1>1. /\ IsFiniteSet({"httpAddr", "httpPort", "httpUnixSocket"})
      /\ IsFiniteSet({"httpsAddr", "httpsPort", "httpsUnixSocket"})
  BY TripleFinite
<1>2. /\ HTTPFlags(o) \subseteq {"httpAddr", "httpPort", "httpUnixSocket"}
      /\ HTTPSFlags(o) \subseteq {"httpsAddr", "httpsPort", "httpsUnixSocket"}
  BY DEF HTTPFlags, HTTPSFlags
<1>3. ~(Cardinality(HTTPFlags(o)) > 1) /\ ~(Cardinality(HTTPSFlags(o)) > 1)
  BY DEF Conflicts
<1> QED BY <1>1, <1>2, <1>3, AtMostOne

----------------------------------------------------------------------------
(* The process starts without listeners (main.go:29-64).                   *)
LEMMA InitInvariant == Init => IInv
BY StartupAssumption DEF Init, IInv, TypeOK, Checked, Opened, Given, Protocol, Stopped

(* A getter and what main does with its result keep the types.             *)
LEMMA ListenType ==
    ASSUME TypeOK, NEW p \in Protocol, NEW address \in Address \cup {None, Garbage},
           NEW next \in {"https", "blocked"},
           Listen(p, address, next)
    PROVE  TypeOK'
<1>1. CASE address = Garbage \/ address \in InUse
  BY <1>1 DEF Listen, TypeOK, Given, Stopped
<1>2. CASE ~(address = Garbage \/ address \in InUse)
  <2>1. listener' = [listener EXCEPT ![p] = address] /\ pc' = next
        /\ UNCHANGED <<options, env, taken, left>>
    BY <1>2 DEF Listen
  <2>2. address \notin taken /\ address \in Address \cup {None}
    BY <1>2 DEF InUse
  <2>3. Given({listener'[q] : q \in Protocol}) \subseteq
           Given({listener[q] : q \in Protocol}) \cup {address}
    BY <2>1 DEF Given, TypeOK, Protocol
  <2> QED BY <2>1, <2>2, <2>3 DEF TypeOK, Stopped
<1> QED BY <1>1, <1>2

(* Every step of main, of the goroutines that serve, of other processes    *)
(* and of whoever restarts the process keeps the invariant.                *)
LEMMA NextInvariant == IInv /\ [Next]_vars => IInv'
<1> SUFFICES ASSUME IInv, [Next]_vars PROVE IInv'
  OBVIOUS
<1>1. CASE CheckConflictingOptions
  BY <1>1 DEF CheckConflictingOptions, IInv, TypeOK, Checked, Opened, Stopped, Given,
       HTTPAddress, HTTPSAddress, PortDefault
<1>2. CASE Load
  BY <1>2 DEF Load, IInv, TypeOK, Checked, Opened, Stopped, Given,
       HTTPAddress, HTTPSAddress, PortDefault
<1>3. CASE GetHTTPListener
  <2>1. TypeOK'
    BY <1>3, AddressType, ListenType DEF GetHTTPListener, IInv, TypeOK, Protocol
  <2>2. Checked'
    BY <1>3 DEF GetHTTPListener, Listen, IInv, Checked
  <2>3. Opened'
    BY <1>3 DEF GetHTTPListener, Listen, IInv, TypeOK, Opened, Protocol,
         HTTPAddress, HTTPSAddress, PortDefault
  <2> QED BY <2>1, <2>2, <2>3 DEF IInv
<1>4. CASE GetHTTPSListener
  <2>1. TypeOK'
    BY <1>4, AddressType, ListenType DEF GetHTTPSListener, IInv, TypeOK, Protocol
  <2>2. Checked'
    BY <1>4 DEF GetHTTPSListener, Listen, IInv, Checked
  <2>3. Opened'
    BY <1>4 DEF GetHTTPSListener, Listen, IInv, TypeOK, Opened, Protocol,
         HTTPAddress, HTTPSAddress, PortDefault
  <2> QED BY <2>1, <2>2, <2>3 DEF IInv
<1>5. CASE Deadlock \/ ServeFails
  BY <1>5 DEF Deadlock, ServeFails, IInv, TypeOK, Checked, Opened, Stopped, Given,
       HTTPAddress, HTTPSAddress, PortDefault
<1>6. CASE Others
  <2>1. taken' \cap Given({listener[p] : p \in Protocol}) = {}
    BY <1>6 DEF Others, InUse, IInv, TypeOK
  <2> QED
    BY <1>6, <2>1 DEF Others, IInv, TypeOK, Checked, Opened,
         HTTPAddress, HTTPSAddress, PortDefault, Given
<1>7. CASE Restart
  <2>1. Given({listener'[p] : p \in Protocol}) = {}
    BY <1>7 DEF Restart, Given
  <2> QED
    BY <1>7, <2>1 DEF Restart, IInv, TypeOK, Checked, Opened, Protocol,
         HTTPAddress, HTTPSAddress, PortDefault
<1>8. CASE UNCHANGED vars
  BY <1>8 DEF vars, IInv, TypeOK, Checked, Opened, Given, HTTPAddress, HTTPSAddress, PortDefault
<1> QED BY <1>1, <1>2, <1>3, <1>4, <1>5, <1>6, <1>7, <1>8 DEF Next, Main

----------------------------------------------------------------------------
(* Nothing is listened at but what a getter returned, and no getter is     *)
(* called with options that conflict.                                      *)
THEOREM Listeners == Spec => []IInv
BY InitInvariant, NextInvariant, PTL DEF Spec

(* Every variable keeps its type, and no address is held both by this      *)
(* process and by another one.                                             *)
THEOREM TypeCorrect == Spec => []TypeOK
<1>1. IInv => TypeOK
  BY DEF IInv
<1> QED BY <1>1, Listeners, PTL

(* main.go:115-116, 137-139 and 323-326: the protocol that was not asked   *)
(* for stays off, for every command line.                                  *)
THEOREM ProtocolOff == Spec => []UnaskedProtocolOff
<1>1. IInv => UnaskedProtocolOff
  BY DEF IInv, TypeOK, Options, Opened, UnaskedProtocolOff, HTTPFlags, HTTPSFlags,
       HTTPAddress, HTTPSAddress, FirstGiven
<1> QED BY <1>1, Listeners, PTL

(* main.go:207-269: once the process blocks, every address that was given  *)
(* is listened at, by the protocol it was given for.                       *)
THEOREM AddressesListenedAt == Spec => []AddressesHonoured
<1>1. ASSUME IInv PROVE AddressesHonoured
  <2> SUFFICES ASSUME pc = "blocked", ~options.http, ~options.https
               PROVE  /\ \A f \in HTTPFlags(options) : listener["HTTP"] = options[f]
                      /\ \A f \in HTTPSFlags(options) : listener["HTTPS"] = options[f]
                      /\ Given({options.port, options.unixSocket}) \subseteq
                            {listener[p] : p \in Protocol}
    BY DEF AddressesHonoured
  <2>1. /\ ~Conflicts(options)
        /\ listener["HTTP"] = HTTPAddress(options)
        /\ listener["HTTPS"] = HTTPSAddress(options)
    BY <1>1 DEF IInv, Checked, Opened
  <2>2. /\ \A f, g \in HTTPFlags(options) : f = g
        /\ \A f, g \in HTTPSFlags(options) : f = g
    BY <2>1, OneFlagEach
  <2>3. ASSUME NEW f \in HTTPFlags(options) PROVE listener["HTTP"] = options[f]
    BY <2>1, <2>2, <2>3 DEF HTTPAddress, FirstGiven, HTTPFlags
  <2>4. ASSUME NEW f \in HTTPSFlags(options) PROVE listener["HTTPS"] = options[f]
    BY <2>1, <2>2, <2>4 DEF HTTPSAddress, FirstGiven, HTTPSFlags
  <2>5. Given({options.port, options.unixSocket}) \subseteq {listener["HTTP"]}
    BY <2>1 DEF Conflicts, Legacy, Given, HTTPAddress, FirstGiven, HTTPFlags
  <2> QED BY <2>3, <2>4, <2>5 DEF Protocol
<1> QED BY <1>1, Listeners, PTL
=============================================================================
