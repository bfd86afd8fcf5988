---------------------------- MODULE XClientProofs ----------------------------
(***************************************************************************)
(* Proofs about XClient for any number of addresses, goroutines and dials. *)
(***************************************************************************)
EXTENDS XClient, TLAPS

(* A connection made for an address is a Client of that address. *)
LEMMA ClientOfAddr ==
  ASSUME NEW g \in Goroutines, NEW n \in 1..MaxDials
  PROVE  /\ <<AddrOf[g], n>> \in Clients /\ <<AddrOf[g], n>>[1] = AddrOf[g]
         /\ AddrOf[g] \in Addrs /\ <<AddrOf[g], n>> # NoClient
BY XClientAssumption DEF Clients

LEMMA InitInv == Init => ClientInv /\ CastInv
<1> SUFFICES ASSUME Init PROVE ClientInv /\ CastInv
  OBVIOUS
<1>1. NoOne \notin Goroutines /\ Casters \subseteq Goroutines /\ Callers \subseteq Goroutines
  BY XClientAssumption DEF Goroutines
<1>2. TypeOK
  <2>1. \A g \in Goroutines : mu = g <=> pc[g] = "dialling"
    BY <1>1 DEF Init
  <2>2. \A g \in Callers : pc[g] # "report"
    BY <1>1 DEF Init
  <2>3. {cancelled, returned, abandoned} \subseteq BOOLEAN
    BY DEF Init
  <2> QED BY <2>1, <2>2, <2>3 DEF Init, TypeOK
<1>3. ClientInv
  BY <1>2 DEF Init, ClientInv
<1>4. CastInv
  BY <1>1 DEF Init, CastInv
<1> QED BY <1>3, <1>4

LEMMA ClientInvKept == ClientInv /\ [Next]_vars => ClientInv'
<1> SUFFICES ASSUME ClientInv, [Next]_vars PROVE ClientInv'
  OBVIOUS
<1>0. TypeOK /\ NoOne \notin Goroutines /\ Callers \subseteq Goroutines /\ Casters \subseteq Goroutines
  BY XClientAssumption DEF ClientInv, Goroutines
<1>a. \A g \in Callers : g \notin Casters
  BY XClientAssumption
(* The end of a call is of the right type. *)
<1>b. ASSUME NEW g \in Goroutines, NEW r \in {"nil", "dial", "call", "context"},
             EndsWith(g, r), UNCHANGED <<clients, dialled, available, my, cast>>,
             \/ pc[g] = "call" /\ mu' = mu
             \/ pc[g] = "dialling" /\ mu' = NoOne
      PROVE  TypeOK'
  <2>1. /\ err' = [err EXCEPT ![g] = r]
        /\ pc' = [pc EXCEPT ![g] = IF g \in Casters THEN "report" ELSE "returned"]
    BY <1>b DEF EndsWith, Goto
  <2>2. pc' \in [Goroutines -> {"dial", "dialling", "call", "report", "returned"}]
    BY <1>0, <2>1 DEF TypeOK
  <2>3. \A h \in Callers : pc'[h] # "report"
    BY <1>0, <1>a, <2>1 DEF TypeOK
  <2>4. \A h \in Goroutines : mu' = h <=> pc'[h] = "dialling"
    BY <1>0, <1>b, <2>1 DEF TypeOK
  <2>5. err' \in [Goroutines -> {"nil", "dial", "call", "context"}]
    BY <1>0, <2>1 DEF TypeOK
  <2>6. mu' \in Goroutines \cup {NoOne}
    BY <1>0, <1>b DEF TypeOK
  <2> QED BY <1>0, <1>b, <2>2, <2>3, <2>4, <2>5, <2>6 DEF TypeOK, cast
<1>1. ASSUME NEW g \in Goroutines, Reuse(g) PROVE ClientInv'
  <2>1. TypeOK'
    BY <1>0, <1>1, XClientAssumption DEF Reuse, Free, Goto, TypeOK, cache, cast
  <2> QED BY <1>1, <2>1 DEF Reuse, ClientInv, cache
<1>2. ASSUME NEW g \in Goroutines, BeginDial(g) PROVE ClientInv'
  <2>1. AddrOf[g] \in Addrs
    BY XClientAssumption
  <2>2. TypeOK'
    BY <1>0, <1>2, <2>1 DEF BeginDial, Free, Goto, TypeOK, cast
  <2>3. ASSUME NEW c \in available' PROVE clients'[c[1]] = c
    BY <1>0, <1>2, <2>1 DEF BeginDial, ClientInv, TypeOK
  <2>4. mu' = g /\ clients'[AddrOf[g]] = NoClient
    BY <1>0, <1>2, <2>1 DEF BeginDial, TypeOK
  <2> QED BY <2>2, <2>3, <2>4 DEF ClientInv
<1>3. ASSUME NEW g \in Goroutines, DialSucceeds(g) PROVE ClientInv'
  <2>1. PICK n \in 1..MaxDials :
          /\ dialled' = dialled \cup {<<AddrOf[g], n>>}
          /\ available' = available \cup {<<AddrOf[g], n>>}
          /\ clients' = [clients EXCEPT ![AddrOf[g]] = <<AddrOf[g], n>>]
          /\ my' = [my EXCEPT ![g] = <<AddrOf[g], n>>]
    BY <1>3 DEF DialSucceeds
  <2> DEFINE new == <<AddrOf[g], n>>
  <2>2. new \in Clients /\ new[1] = AddrOf[g] /\ AddrOf[g] \in Addrs /\ new # NoClient
    BY ClientOfAddr
  <2>3. /\ pc[g] = "dialling" /\ mu = g /\ mu' = NoOne /\ pc' = [pc EXCEPT ![g] = "call"]
        /\ UNCHANGED <<err, cast>>
    BY <1>0, <1>3 DEF DialSucceeds, Goto, TypeOK
  <2> HIDE DEF new
  <2>4. TypeOK'
    BY <1>0, <2>1, <2>2, <2>3 DEF TypeOK, cast, new
  <2>5. clients[AddrOf[g]] = NoClient
    BY <1>0, <2>3 DEF ClientInv
  <2>6. ASSUME NEW c \in available' PROVE clients'[c[1]] = c
    <3>1. CASE c = new
      BY <1>0, <2>1, <2>2, <3>1 DEF TypeOK, new
    <3>2. CASE c \in available
      <4>1. c \in Clients /\ c[1] \in Addrs /\ clients[c[1]] = c
        BY <1>0, <3>2 DEF TypeOK, ClientInv, Clients
      <4>2. c # NoClient
        BY <4>1, XClientAssumption DEF Clients
      <4>3. c[1] # AddrOf[g]
        BY <2>5, <4>1, <4>2
      <4> QED BY <1>0, <2>1, <4>1, <4>3 DEF TypeOK
    <3> QED BY <2>1, <3>1, <3>2 DEF new
  <2> QED BY <2>3, <2>4, <2>6 DEF ClientInv
<1>4. ASSUME NEW g \in Goroutines, DialFails(g) PROVE ClientInv'
  <2>1. TypeOK'
    BY <1>b, <1>4 DEF DialFails, cast
  <2> QED BY <1>4, <2>1 DEF DialFails, ClientInv
<1>5. ASSUME NEW g \in Goroutines, CallEnds(g) PROVE ClientInv'
  <2>1. PICK r \in {"nil", "call"} : EndsWith(g, r)
    BY <1>5 DEF CallEnds
  <2>2. TypeOK'
    BY <1>b, <1>5, <2>1 DEF CallEnds, cache
  <2> QED BY <1>5, <2>2 DEF CallEnds, ClientInv, cache
<1>6. ASSUME NEW g \in Goroutines, CallCancelled(g) PROVE ClientInv'
  <2>1. TypeOK'
    BY <1>b, <1>6 DEF CallCancelled, cache
  <2> QED BY <1>6, <2>1 DEF CallCancelled, ClientInv, cache
<1>7. ASSUME NEW g \in Goroutines, Report(g) PROVE ClientInv'
  <2>1. pc[g] = "report" /\ pc' = [pc EXCEPT ![g] = "returned"]
    BY <1>7 DEF Report, Goto
  <2>2. g \in Casters
    BY <1>0, <2>1 DEF TypeOK, Goroutines
  <2>3. TypeOK'
    <3>1. /\ cancelled' \in BOOLEAN /\ e' \in {"nil", "dial", "call", "context"}
          /\ replyOf' \in Casters \cup {NoOne}
      BY <1>0, <1>7, <2>2 DEF Report, Cancel, TypeOK
    <3>2. /\ pc' \in [Goroutines -> {"dial", "dialling", "call", "report", "returned"}]
          /\ \A h \in Callers : pc'[h] # "report"
          /\ \A h \in Goroutines : mu = h <=> pc'[h] = "dialling"
      BY <1>0, <2>1 DEF TypeOK
    <3>3. UNCHANGED <<cache, my, err, returned, abandoned>>
      BY <1>7 DEF Report
    <3> QED BY <1>0, <3>1, <3>2, <3>3 DEF TypeOK, cache
  <2> QED BY <1>7, <2>3 DEF Report, ClientInv, cache
<1>8. ASSUME NEW c \in Clients, Lose(c) PROVE ClientInv'
  <2>1. TypeOK'
    BY <1>0, <1>8 DEF Lose, TypeOK, cast
  <2> QED BY <1>8, <2>1 DEF Lose, ClientInv
<1>9. CASE Close
  <2>1. TypeOK'
    BY <1>0, <1>9 DEF Close, TypeOK, cast
  <2>2. available' = {}
    <3>1. ASSUME NEW c \in available PROVE c \in {clients[a] : a \in Addrs}
      BY <1>0 DEF TypeOK, ClientInv, Clients
    <3> QED BY <1>9, <3>1 DEF Close
  <2> QED BY <1>9, <2>1, <2>2 DEF Close, ClientInv
<1>10. CASE BroadcastReturns
  BY <1>0, <1>10 DEF BroadcastReturns, ClientInv, TypeOK, cache
<1>11. CASE Abandon
  BY <1>0, <1>11 DEF Abandon, ClientInv, TypeOK, cache
<1>12. CASE UNCHANGED vars
  BY <1>0, <1>12 DEF vars, cache, cast, ClientInv, TypeOK
<1> QED BY <1>1, <1>2, <1>3, <1>4, <1>5, <1>6, <1>7, <1>8, <1>9, <1>10, <1>11, <1>12
        DEF Next, DialEnds

-----------------------------------------------------------------------------
(* Broadcast.                                                              *)

LEMMA CastInvKept == TypeOK /\ CastInv /\ [Next]_vars => CastInv'
<1> SUFFICES ASSUME TypeOK, CastInv, [Next]_vars PROVE CastInv'
  OBVIOUS
<1>0. NoOne \notin Goroutines /\ Casters \subseteq Goroutines /\ NoOne \notin Casters
  BY XClientAssumption DEF Goroutines
<1>1. ASSUME NEW g \in Goroutines, Reuse(g) PROVE CastInv'
  BY <1>0, <1>1 DEF Reuse, Goto, CastInv, TypeOK, cast
<1>2. ASSUME NEW g \in Goroutines, BeginDial(g) PROVE CastInv'
  BY <1>0, <1>2 DEF BeginDial, Goto, CastInv, TypeOK, cast
<1>3. ASSUME NEW g \in Goroutines, DialSucceeds(g) PROVE CastInv'
  BY <1>0, <1>3 DEF DialSucceeds, Goto, CastInv, TypeOK, cast
(* The end of a call concerns the Broadcast only when it is reported. *)
<1>4. ASSUME NEW g \in Goroutines, NEW r \in {"nil", "dial", "call", "context"},
             pc[g] \in {"dialling", "call"}, EndsWith(g, r), r = "context" => cancelled,
             UNCHANGED cast
      PROVE  CastInv'
  <2>1. /\ err' = [err EXCEPT ![g] = r]
        /\ pc' = [pc EXCEPT ![g] = IF g \in Casters THEN "report" ELSE "returned"]
        /\ UNCHANGED <<cancelled, e, replyOf, returned, abandoned>>
    BY <1>4 DEF EndsWith, Goto, cast
  <2>2. pc[g] # "returned"
    BY <1>4
  <2>3. \A h \in Casters : /\ pc'[h] = "returned" <=> pc[h] = "returned"
                           /\ pc[h] = "returned" => err'[h] = err[h]
    BY <1>0, <2>1, <2>2 DEF TypeOK
  <2>4. e' = "nil" <=> \A h \in Casters : pc'[h] = "returned" => err'[h] = "nil"
    BY <2>1, <2>3 DEF CastInv
  <2>5. replyOf' = NoOne <=> \A h \in Casters : pc'[h] = "returned" => err'[h] # "nil"
    BY <2>1, <2>3 DEF CastInv
  <2>6. replyOf' # NoOne => pc'[replyOf'] = "returned" /\ err'[replyOf'] = "nil"
    BY <2>1, <2>3 DEF CastInv, TypeOK
  <2>7. \A h \in Casters : err'[h] = "context" => cancelled'
    BY <1>0, <1>4, <2>1 DEF CastInv, TypeOK
  <2>8. \A h \in Goroutines : pc'[h] \in {"dial", "dialling", "call"} => err'[h] = "nil"
    BY <2>1 DEF CastInv, TypeOK
  <2>9. returned' => \A h \in Casters : pc'[h] = "returned"
    BY <2>1, <2>3 DEF CastInv
  <2> QED BY <2>1, <2>4, <2>5, <2>6, <2>7, <2>8, <2>9 DEF CastInv
<1>5. ASSUME NEW g \in Goroutines, DialFails(g) \/ CallEnds(g) \/ CallCancelled(g) PROVE CastInv'
  <2>1. CASE DialFails(g)
    BY <1>4, <2>1 DEF DialFails
  <2>2. CASE CallEnds(g)
    <3>1. PICK r \in {"nil", "call"} : EndsWith(g, r)
      BY <2>2 DEF CallEnds
    <3> QED BY <1>4, <2>2, <3>1 DEF CallEnds
  <2>3. CASE CallCancelled(g)
    BY <1>4, <2>3 DEF CallCancelled
  <2> QED BY <1>5, <2>1, <2>2, <2>3
<1>6. ASSUME NEW g \in Goroutines, Report(g) PROVE CastInv'
  <2>1. /\ pc[g] = "report" /\ pc' = [pc EXCEPT ![g] = "returned"]
        /\ UNCHANGED <<err, returned, abandoned>>
        /\ replyOf' = IF err[g] = "nil" /\ replyOf = NoOne THEN g ELSE replyOf
        /\ IF err[g] # "nil" /\ e = "nil" THEN e' = err[g] /\ cancelled' = TRUE
                                          ELSE UNCHANGED <<e, cancelled>>
    BY <1>6 DEF Report, Goto, FirstError, FirstReply, Cancel
  <2>2. g \in Casters /\ \A h \in Casters : h # g => pc'[h] = pc[h]
    BY <1>0, <2>1 DEF TypeOK, Goroutines
  <2>3. pc'[g] = "returned" /\ \A h \in Casters : err'[h] = err[h]
    BY <2>1, <2>2 DEF TypeOK
  <2>4. e' = "nil" <=> \A h \in Casters : pc'[h] = "returned" => err'[h] = "nil"
    <3>1. CASE err[g] = "nil"
      BY <2>1, <2>2, <2>3, <3>1 DEF CastInv
    <3>2. CASE err[g] # "nil"
      BY <2>1, <2>2, <2>3, <3>2
    <3> QED BY <3>1, <3>2
  <2>5. replyOf' = NoOne <=> \A h \in Casters : pc'[h] = "returned" => err'[h] # "nil"
    <3>1. CASE err[g] = "nil"
      BY <1>0, <2>1, <2>2, <2>3, <3>1
    <3>2. CASE err[g] # "nil"
      BY <2>1, <2>2, <2>3, <3>2 DEF CastInv
    <3> QED BY <3>1, <3>2
  <2>6. replyOf' # NoOne => pc'[replyOf'] = "returned" /\ err'[replyOf'] = "nil"
    BY <2>1, <2>2, <2>3 DEF CastInv, TypeOK
  <2>7. /\ \A h \in Casters : err'[h] = "context" => cancelled'
        /\ cancelled' => abandoned' \/ e' # "nil"
    BY <2>1, <2>3 DEF CastInv
  <2>8. \A h \in Goroutines : pc'[h] \in {"dial", "dialling", "call"} => err'[h] = "nil"
    BY <2>1 DEF CastInv, TypeOK
  <2>9. e' = "context" => abandoned'
    BY <2>1, <2>2 DEF CastInv
  <2>10. returned' => \A h \in Casters : pc'[h] = "returned"
    BY <2>1, <2>2, <2>3 DEF CastInv
  <2> QED BY <2>4, <2>5, <2>6, <2>7, <2>8, <2>9, <2>10 DEF CastInv
<1>7. ASSUME UNCHANGED <<pc, err, cancelled, e, replyOf, returned, abandoned>> PROVE CastInv'
  BY <1>7 DEF CastInv
<1>8. CASE UNCHANGED vars \/ Close \/ \E c \in Clients : Lose(c)
  BY <1>7, <1>8 DEF vars, cast, Close, Lose
<1>9. CASE BroadcastReturns
  BY <1>9 DEF BroadcastReturns, CastInv
<1>10. CASE Abandon
  BY <1>10 DEF Abandon, CastInv
<1> QED BY <1>1, <1>2, <1>3, <1>5, <1>6, <1>8, <1>9, <1>10 DEF Next, DialEnds

-----------------------------------------------------------------------------

(* There is never more than one usable Client for an address. *)
THEOREM OneClient == Spec => []Inv
<1>1. Init => ClientInv
  BY InitInv
<1>2. ClientInv => Inv
  BY DEF ClientInv, Inv, OneUsableClient
<1> QED BY <1>1, <1>2, ClientInvKept, PTL DEF Spec

(* What Broadcast returns, whichever of its goroutines fails first. *)
THEOREM CastReturnsFirstError == Spec => []AllOrError
<1>1. Init => CastInv
  BY InitInv
<1>2. Inv /\ CastInv /\ [Next]_vars => CastInv'
  BY CastInvKept DEF Inv
<1>3. CastInv => AllOrError
  BY DEF CastInv, AllOrError
<1> QED BY <1>1, <1>2, <1>3, OneClient, PTL DEF Spec
=============================================================================
