------------------------ MODULE NrPdcpEntityProofs ------------------------
(***************************************************************************)
(* Proofs about NrPdcpEntity, for every window size, number of HFNs and    *)
(* bound.  The argument: as long as the lower layers stay within the       *)
(* reordering window (Reach <= WindowSize), the inferred COUNT is the one  *)
(* the PDU was sent with; hence rx_list is ordered by the sending order,   *)
(* everything delivered lies below RX_DELIV, and delivery is in order.     *)
(***************************************************************************)
EXTENDS NrPdcpEntity, SequenceLemmas

\* Euclidean division, as `>> sn_size` and `& sn_max` of recv_pdu compute it.
LEMMA DivMod ==
  ASSUME NEW n \in Nat, NEW N \in Nat \ {0}
  PROVE  /\ n = (n \div N) * N + (n % N)
         /\ n % N \in 0..(N - 1)
         /\ n \div N \in Nat
OBVIOUS

\* A COUNT below the modulus is left alone by the 32-bit arithmetic of recv_pdu.
LEMMA ModSmall ==
  ASSUME NEW n \in Nat, NEW N \in Nat \ {0}, n < N
  PROVE  n % N = n
OBVIOUS

\* Two numbers less than 2 * W apart have HFNs at most one apart.
LEMMA HfnNeighbours ==
  ASSUME NEW N \in Nat \ {0}, NEW h \in Int, NEW g \in Int, NEW s \in 0..(N - 1), NEW r \in 0..(N - 1),
         h * N + s < g * N + r + N, g * N + r < h * N + s + N
  PROVE  h \in {g - 1, g, g + 1}
<1>1. ASSUME h >= g + 2 PROVE FALSE
  <2>1. h * N >= (g + 2) * N
    BY <1>1
  <2>2. (g + 2) * N = g * N + 2 * N
    OBVIOUS
  <2> QED BY <2>1, <2>2
<1>2. ASSUME g >= h + 2 PROVE FALSE
  <2>1. g * N >= (h + 2) * N
    BY <1>2
  <2>2. (h + 2) * N = h * N + 2 * N
    OBVIOUS
  <2> QED BY <2>1, <2>2
<1> QED BY <1>1, <1>2

\* The derived constants are positive and every COUNT sent fits them.
LEMMA ConstantFacts ==
  /\ SnCount \in Nat \ {0} /\ CountMod \in Nat \ {0} /\ WindowSize \in Nat \ {0}
  /\ SnCount = 2 * WindowSize
BY WindowAssumption DEF SnCount, CountMod

\* The HFN inference of recv_pdu: a COUNT less than a window away from RX_DELIV is recovered
\* from its SN alone, at every position of the SN and across every wrap-around.
THEOREM HfnInference ==
  ASSUME rx_deliv \in Nat, NEW c \in Nat, c < CountMod,
         rx_deliv - WindowSize <= c, c < rx_deliv + WindowSize
  PROVE  RcvdCount(c % SnCount) = c
<1> DEFINE d == rx_deliv
           N == SnCount
           sd == d % N
           hd == d \div N
           sc == c % N
           hc == c \div N
<1>1. N \in Nat \ {0} /\ N = 2 * WindowSize /\ WindowSize \in Nat \ {0} /\ CountMod \in Nat \ {0}
  BY ConstantFacts
<1>2. d = hd * N + sd /\ sd \in 0..(N - 1) /\ hd \in Nat
  BY <1>1, DivMod
<1>3. c = hc * N + sc /\ sc \in 0..(N - 1) /\ hc \in Nat
  BY <1>1, DivMod
<1> HIDE DEF d, N, sd, hd, sc, hc
<1>4. d - WindowSize <= c /\ c < d + WindowSize
  BY DEF d
<1>5. hc * N + sc < hd * N + sd + N /\ hd * N + sd < hc * N + sc + N
  BY <1>1, <1>2, <1>3, <1>4
<1>6. hc \in {hd - 1, hd, hd + 1}
  BY <1>1, <1>2, <1>3, <1>5, HfnNeighbours
<1> DEFINE hfn == IF sc < sd - WindowSize THEN hd + 1
                  ELSE IF sc >= sd + WindowSize THEN hd - 1 ELSE hd
<1>7. hfn = hc
  <2>1. CASE hc = hd
    <3>1. c - d = sc - sd
      BY <2>1, <1>1, <1>2, <1>3
    <3> QED BY <3>1, <2>1, <1>1, <1>2, <1>3, <1>4
  <2>2. CASE hc = hd + 1
    <3>1. hc * N = hd * N + N
      BY <2>2, <1>1, <1>2
    <3>2. c - d = sc - sd + N
      BY <3>1, <1>1, <1>2, <1>3
    <3> QED BY <3>2, <2>2, <1>1, <1>2, <1>3, <1>4
  <2>3. CASE hc = hd - 1
    <3>1. hc * N = hd * N - N
      BY <2>3, <1>1, <1>2
    <3>2. c - d = sc - sd - N
      BY <3>1, <1>1, <1>2, <1>3
    <3> QED BY <3>2, <2>3, <1>1, <1>2, <1>3, <1>4
  <2> QED BY <1>6, <2>1, <2>2, <2>3
<1>8. (hfn * N + sc) % CountMod = c
  BY <1>7, <1>3, <1>1, ModSmall
<1>9. RcvdCount(sc) = (hfn * N + sc) % CountMod
  BY DEF RcvdCount, d, N, sd, hd
<1> QED BY <1>8, <1>9 DEF sc, N

---------------------------------------------------------------------------
(* Sequences: what nr_pdcp_sdu_list_add and the delivery loops build.      *)

\* nr_pdcp_sdu_list_add keeps the elements and puts the new one after the first k.
LEMMA ListAddElements ==
  ASSUME NEW S, NEW l \in Seq(S), NEW k \in 0..Len(l), NEW e \in S
  PROVE  /\ ListAdd(l, k, e) \in Seq(S)
         /\ Len(ListAdd(l, k, e)) = Len(l) + 1
         /\ \A i \in 1..(Len(l) + 1) :
              ListAdd(l, k, e)[i] = IF i <= k THEN l[i] ELSE IF i = k + 1 THEN e ELSE l[i - 1]
<1>1. /\ SubSeq(l, 1, k) \in Seq(S) /\ Len(SubSeq(l, 1, k)) = k
      /\ \A i \in 1..k : SubSeq(l, 1, k)[i] = l[i]
  OBVIOUS
<1>2. /\ SubSeq(l, k + 1, Len(l)) \in Seq(S) /\ Len(SubSeq(l, k + 1, Len(l))) = Len(l) - k
      /\ \A i \in 1..(Len(l) - k) : SubSeq(l, k + 1, Len(l))[i] = l[k + i]
  OBVIOUS
<1> DEFINE a == SubSeq(l, 1, k)
           b == SubSeq(l, k + 1, Len(l))
           c == a \o <<e>>
<1> HIDE DEF a, b
<1>3. /\ c \in Seq(S) /\ Len(c) = k + 1 /\ c[k + 1] = e
      /\ \A i \in 1..k : c[i] = l[i]
  BY <1>1 DEF a
<1> HIDE DEF c
<1>4. /\ c \o b \in Seq(S) /\ Len(c \o b) = Len(l) + 1
      /\ \A i \in 1..(Len(l) + 1) : (c \o b)[i] = IF i <= k + 1 THEN c[i] ELSE b[i - (k + 1)]
  BY <1>2, <1>3 DEF b
<1>5. \A i \in 1..(Len(l) + 1) : i > k + 1 => b[i - (k + 1)] = l[i - 1]
  <2> SUFFICES ASSUME NEW i \in 1..(Len(l) + 1), i > k + 1 PROVE b[i - (k + 1)] = l[i - 1]
    OBVIOUS
  <2>1. i - (k + 1) \in 1..(Len(l) - k) /\ k + (i - (k + 1)) = i - 1
    OBVIOUS
  <2> QED BY <2>1, <1>2 DEF b
<1>6. ListAdd(l, k, e) = c \o b
  BY DEF ListAdd, a, b, c
<1> QED BY <1>3, <1>4, <1>5, <1>6

\* The same by position: a is l with e inserted behind its first k elements.
Insertion(S, a, l, k, e) ==
  /\ a \in Seq(S) /\ Len(a) = Len(l) + 1
  /\ \A i \in 1..k : a[i] = l[i]
  /\ a[k + 1] = e
  /\ \A i \in (k + 2)..Len(a) : a[i] = l[i - 1]

\* ListAdd inserts.
LEMMA ListAddParts ==
  ASSUME NEW S, NEW l \in Seq(S), NEW k \in 0..Len(l), NEW e \in S
  PROVE  Insertion(S, ListAdd(l, k, e), l, k, e)
<1> DEFINE a == ListAdd(l, k, e)
<1>1. a \in Seq(S) /\ Len(a) = Len(l) + 1
  BY ListAddElements
<1>2. \A i \in 1..(Len(l) + 1) : a[i] = IF i <= k THEN l[i] ELSE IF i = k + 1 THEN e ELSE l[i - 1]
  BY ListAddElements
<1>3. Len(l) \in Nat
  OBVIOUS
<1> HIDE DEF a
<1>4. a[k + 1] = e
  <2>1. k + 1 \in 1..(Len(l) + 1) /\ ~(k + 1 <= k)
    BY <1>3
  <2> QED BY <1>2, <2>1
<1>5. ASSUME NEW i \in 1..k PROVE a[i] = l[i]
  <2>1. i \in 1..(Len(l) + 1) /\ i <= k
    BY <1>3
  <2> QED BY <1>2, <2>1
<1>6. ASSUME NEW i \in (k + 2)..Len(a) PROVE a[i] = l[i - 1]
  <2>1. i \in 1..(Len(l) + 1) /\ ~(i <= k) /\ i # k + 1
    BY <1>1, <1>3
  <2> QED BY <1>2, <2>1
<1>7. /\ \A i \in 1..k : a[i] = l[i]
      /\ \A i \in (k + 2)..Len(a) : a[i] = l[i - 1]
  BY <1>5, <1>6
<1>8. Insertion(S, a, l, k, e)
  BY <1>1, <1>4, <1>7 DEF Insertion
<1> QED BY <1>8 DEF a

\* The SDUs the delivery loops take off the list.
LEMMA Prefix ==
  ASSUME NEW S, NEW l \in Seq(S), NEW n \in 0..Len(l)
  PROVE  /\ SubSeq(l, 1, n) \in Seq(S) /\ Len(SubSeq(l, 1, n)) = n
         /\ \A i \in 1..n : SubSeq(l, 1, n)[i] = l[i]
OBVIOUS

\* The SDUs the delivery loops leave in the list.
LEMMA Suffix ==
  ASSUME NEW S, NEW l \in Seq(S), NEW n \in 0..Len(l)
  PROVE  /\ SubSeq(l, n + 1, Len(l)) \in Seq(S) /\ Len(SubSeq(l, n + 1, Len(l))) = Len(l) - n
         /\ \A i \in 1..(Len(l) - n) : SubSeq(l, n + 1, Len(l))[i] = l[n + i]
OBVIOUS

\* The SDUs delivered so far followed by those delivered now.
LEMMA Concatenation ==
  ASSUME NEW S, NEW a \in Seq(S), NEW b \in Seq(S)
  PROVE  /\ a \o b \in Seq(S) /\ Len(a \o b) = Len(a) + Len(b)
         /\ \A i \in 1..(Len(a) + Len(b)) : (a \o b)[i] = IF i <= Len(a) THEN a[i] ELSE b[i - Len(a)]
OBVIOUS

---------------------------------------------------------------------------
(* Type correctness.                                                       *)

\* A remainder lies below its modulus.
LEMMA ModRange ==
  ASSUME NEW n \in Int, NEW N \in Nat \ {0}
  PROVE  n % N \in 0..(N - 1)
OBVIOUS

\* The conversion of t_current to t_reordering_start yields an int.
LEMMA ToIntRange ==
  ASSUME NEW t \in Nat
  PROVE  ToInt(t) \in (-IntHalf)..(IntHalf - 1)
<1>1. 2 * IntHalf \in Nat \ {0}
  BY TimerAssumption
<1>2. t % (2 * IntHalf) \in 0..(2 * IntHalf - 1)
  BY <1>1, ModRange
<1> QED BY <1>2, TimerAssumption DEF ToInt

\* The COUNT that recv_pdu infers is a 32-bit number.
LEMMA RcvdCountRange ==
  ASSUME rx_deliv \in Nat, NEW sn \in Nat
  PROVE  RcvdCount(sn) \in 0..(CountMod - 1)
<1>1. SnCount \in Nat \ {0} /\ CountMod \in Nat \ {0} /\ WindowSize \in Nat \ {0}
  BY ConstantFacts
<1>2. rx_deliv % SnCount \in Int /\ rx_deliv \div SnCount \in Int
  BY <1>1, DivMod
<1> DEFINE hfn == IF sn < (rx_deliv % SnCount) - WindowSize THEN (rx_deliv \div SnCount) + 1
                  ELSE IF sn >= (rx_deliv % SnCount) + WindowSize THEN (rx_deliv \div SnCount) - 1
                  ELSE rx_deliv \div SnCount
<1>3. hfn * SnCount + sn \in Int
  BY <1>1, <1>2
<1>4. RcvdCount(sn) = (hfn * SnCount + sn) % CountMod
  BY DEF RcvdCount
<1> QED BY <1>3, <1>4, <1>1, ModRange

\* set_security yields well-formed settings.
LEMMA SecurityType ==
  ASSUME NEW sec \in Security, NEW call \in Calls
  PROVE  set_security(sec, call) \in Security
<1>1. ASSUME NEW a \in Algorithm, NEW setting \in Setting
      PROVE  Reconfigure(a, setting) \in Algorithm
  <2>1. CASE setting.algorithm = -1
    BY <2>1 DEF Reconfigure, Algorithm, Setting
  <2>2. CASE setting.algorithm = 0
    BY <2>2 DEF Reconfigure, Algorithm, Setting
  <2>3. CASE setting.algorithm = 2
    BY <2>3 DEF Reconfigure, Algorithm, Setting
  <2> QED BY <2>1, <2>2, <2>3 DEF Setting
<1>2. call.integrity \in Setting /\ call.ciphering \in Setting
  BY CallsAssumption DEF Call
<1> QED BY <1>1, <1>2 DEF set_security, Security

\* The greatest element of a set of naturals, given as an upper bound in the set.
LEMMA MaxIs ==
  ASSUME NEW S, S \subseteq Nat, NEW x \in S, \A y \in S : y <= x
  PROVE  Max(S) = x
<1>1. Max(S) \in S /\ \A y \in S : y <= Max(S)
  BY MaxNat
<1>2. Max(S) <= x /\ x <= Max(S) /\ Max(S) \in Nat /\ x \in Nat
  BY <1>1
<1> QED BY <1>2

What == {"integrity", "ciphering"}

Naming(calls, what) == {i \in 1..Len(calls) : calls[i][what].algorithm # -1}
Giving(calls, what, n) == {i \in 1..n : calls[i][what].key # NoKey}

\* The key last given in the first n calls.
KeyGiven(calls, what, n) ==
  IF Giving(calls, what, n) = {} THEN ZeroKey ELSE calls[Max(Giving(calls, what, n))][what].key

\* The keys in force, in terms of the key last given.
LEMMA KeyInForceIs ==
  ASSUME NEW calls, NEW what
  PROVE  KeyInForce(calls, what) =
           IF Naming(calls, what) = {} \/ calls[Max(Naming(calls, what))][what].algorithm = 0 THEN NoKey
           ELSE KeyGiven(calls, what, Max(Naming(calls, what)))
BY Zenon DEF KeyInForce, Naming, Giving, KeyGiven

\* A call says one thing about integrity and one about ciphering.
LEMMA CallSetting ==
  ASSUME NEW calls \in Seq(Calls), NEW what \in What, NEW i \in 1..Len(calls)
  PROVE  calls[i][what] \in Setting
<1>1. calls[i] \in Call
  BY CallsAssumption
<1> QED BY <1>1 DEF Call, What

\* Where the last of some calls is.
LEMMA MaxOfCalls ==
  ASSUME NEW n \in Nat, NEW I \in SUBSET (1..n), I # {}
  PROVE  Max(I) \in I /\ Max(I) \in 1..n
<1>1. I \subseteq Nat /\ \A y \in I : y <= n
  OBVIOUS
<1> QED BY <1>1, MaxNat

\* The key last given is a key.
LEMMA KeyGivenType ==
  ASSUME NEW calls \in Seq(Calls), NEW what \in What, NEW n \in 0..Len(calls)
  PROVE  KeyGiven(calls, what, n) \in Keys
<1>1. CASE Giving(calls, what, n) = {}
  BY <1>1, DataAssumption DEF KeyGiven
<1>2. CASE Giving(calls, what, n) # {}
  <2> DEFINE m == Max(Giving(calls, what, n))
  <2>1. Len(calls) \in Nat /\ Giving(calls, what, n) \in SUBSET (1..n)
    BY DEF Giving
  <2>2. m \in Giving(calls, what, n) /\ m \in 1..n
    BY <1>2, <2>1, MaxOfCalls
  <2> HIDE DEF m
  <2>3. m \in 1..Len(calls) /\ calls[m][what].key # NoKey
    BY <2>1, <2>2 DEF Giving
  <2>4. calls[m][what] \in Setting
    BY <2>3, CallSetting
  <2>5. calls[m][what].key \in Keys
    BY <2>3, <2>4 DEF Setting
  <2> QED BY <1>2, <2>5 DEF KeyGiven, m
<1> QED BY <1>1, <1>2

\* The keys in force are keys.
LEMMA KeyInForceType ==
  ASSUME NEW calls \in Seq(Calls), NEW what \in What
  PROVE  KeyInForce(calls, what) \in Keys \cup {NoKey}
<1>1. CASE Naming(calls, what) = {}
  BY <1>1, KeyInForceIs
<1>2. CASE Naming(calls, what) # {}
  <2>1. Len(calls) \in Nat /\ Naming(calls, what) \in SUBSET (1..Len(calls))
    BY DEF Naming
  <2>2. Max(Naming(calls, what)) \in 1..Len(calls)
    BY <1>2, <2>1, MaxOfCalls
  <2>3. KeyGiven(calls, what, Max(Naming(calls, what))) \in Keys
    BY <2>1, <2>2, KeyGivenType
  <2> QED BY <1>2, <2>3, KeyInForceIs
<1> QED BY <1>1, <1>2

\* nr_pdcp_new_sdu yields a well-formed list element.
LEMMA NewSduType ==
  ASSUME NEW p \in Pdu, NEW count \in Nat
  PROVE  NewSdu(p, count) \in Sdu /\ NewSdu(p, count).count = count /\ NewSdu(p, count).sdu = p.count
<1>1. Deciphered(p, count) \in BOOLEAN /\ MacMatches(p, count) \in BOOLEAN
  BY DEF Deciphered, MacMatches
<1>2. (Deciphered(p, count) /\ p.maci = IntegritySize(rx_sec)) \in BOOLEAN
  OBVIOUS
<1>3. (rx_sec.integrity.active => MacMatches(p, count)) \in BOOLEAN
  OBVIOUS
<1>4. (p.in_force = InForce(rx_calls)) \in BOOLEAN
  OBVIOUS
<1> QED BY <1>2, <1>3, <1>4 DEF NewSdu, Sdu, Pdu

\* The delivery loops keep both lists well formed.
LEMMA DeliverType ==
  ASSUME delivered \in Seq(Sdu), NEW l \in Seq(Sdu), NEW n \in 0..Len(l), Deliver(l, n)
  PROVE  rx_list' \in Seq(Sdu) /\ delivered' \in Seq(Sdu)
BY Prefix, Suffix, Concatenation DEF Deliver

\* new_nr_pdcp_entity yields a well-typed state.
LEMMA TypeInit == Init => TypeOK
<1> SUFFICES ASSUME Init PROVE TypeOK
  OBVIOUS
<1>1. ZeroSecurity \in Security
  BY DataAssumption DEF ZeroSecurity, Security, Algorithm
<1>2. tx_sec \in Security /\ rx_sec \in Security
  BY <1>1, SecurityType DEF Init
<1>3. CountMod \in Nat \ {0} /\ IntHalf \in Nat \ {0} /\ MaxCount \in Nat /\ MaxTime \in Nat /\ MaxReconf \in Nat
  BY ConstantFacts, TimerAssumption, BoundAssumption
<1> QED BY <1>2, <1>3 DEF Init, TypeOK

\* Every operation of the entities and every loss keeps the types.
LEMMA TypeStep == TypeOK /\ [Next]_vars => TypeOK'
<1> SUFFICES ASSUME TypeOK, [Next]_vars PROVE TypeOK'
  OBVIOUS
<1>0. CountMod \in Nat \ {0} /\ SnCount \in Nat \ {0} /\ IntHalf \in Nat \ {0} /\ MaxCount \in Nat
      /\ MaxTime \in Nat /\ MaxReconf \in Nat /\ rx_deliv \in Nat /\ rx_next \in Nat /\ rx_reord \in Nat
  BY ConstantFacts, TimerAssumption, BoundAssumption DEF TypeOK
<1>1. ASSUME NEW len \in Lens, recv_sdu(len) PROVE TypeOK'
  <2>1. tx_next \in Nat /\ tx_next % SnCount \in 0..(SnCount - 1)
    <3>1. tx_next \in Nat
      BY <1>0 DEF TypeOK
    <3> QED BY <1>0, <3>1, ModRange
  <2>2. ContextOf(tx_sec.ciphering) \in Keys \cup {NoKey} /\ ContextOf(tx_sec.integrity) \in Keys \cup {NoKey}
    BY DEF TypeOK, Security, Algorithm, ContextOf
  <2>3. IntegritySize(tx_sec) \in {0, MaciSize}
    BY DEF IntegritySize
  <2>5. InForce(tx_calls) \in (Keys \cup {NoKey}) \X (Keys \cup {NoKey})
    BY KeyInForceType DEF InForce, What, TypeOK
  <2>4. pdus' \subseteq Pdu
    <3> HIDE DEF InForce
    <3> QED BY <1>1, <2>1, <2>2, <2>3, <2>5 DEF recv_sdu, Pdu, TypeOK
  <2> QED BY <1>0, <1>1, <2>4 DEF recv_sdu, rxCounters, TypeOK
<1>2. ASSUME NEW p \in pdus, recv_pdu(p) PROVE TypeOK'
  <2>1. CASE UNCHANGED rxCounters
    BY <1>2, <2>1 DEF recv_pdu, rxCounters, TypeOK
  <2>2. ASSUME NEW k \in 0..Len(rx_list), NEW n \in 0..(Len(rx_list) + 1), Accept(p, k, n) PROVE TypeOK'
    <3>1. p \in Pdu /\ p.sn \in Nat
      BY <1>0 DEF TypeOK, Pdu
    <3> DEFINE count == RcvdCount(p.sn)
               list == ListAdd(rx_list, k, NewSdu(p, count))
    <3>2. count \in 0..(CountMod - 1) /\ count \in Nat
      <4>1. count \in 0..(CountMod - 1)
        BY <1>0, <3>1, RcvdCountRange
      <4> QED BY <4>1, <1>0
    <3>3. NewSdu(p, count) \in Sdu
      BY <3>1, <3>2, NewSduType
    <3>4. list \in Seq(Sdu) /\ Len(list) = Len(rx_list) + 1
      BY <3>3, ListAddElements DEF TypeOK
    <3>5. rx_list' \in Seq(Sdu) /\ delivered' \in Seq(Sdu)
      <4>1. Deliver(list, n) /\ n \in 0..Len(list) /\ delivered \in Seq(Sdu)
        BY <2>2, <3>4 DEF Accept, TypeOK
      <4> HIDE DEF list
      <4> QED BY <4>1, <3>4, DeliverType
    <3>6. (count + 1) % CountMod \in 0..(CountMod - 1) /\ (rx_deliv + n) % CountMod \in 0..(CountMod - 1)
      <4> HIDE DEF count
      <4>1. count + 1 \in Int /\ rx_deliv + n \in Int
        BY <1>0, <3>2 DEF TypeOK
      <4> QED BY <4>1, <1>0, ModRange
    <3>7. rx_next' \in 0..(CountMod - 1) /\ rx_deliv' \in 0..(CountMod - 1)
      BY <2>2, <3>6 DEF Accept, TypeOK
    <3>8. StopOrStartTimer(rx_deliv', rx_next')
      BY <2>2 DEF Accept
    <3>9. ToInt(t_current) \in (-IntHalf)..(IntHalf - 1)
      BY ToIntRange DEF TypeOK
    <3>10. /\ rx_reord' \in 0..(CountMod - 1) /\ armed_at' \in 0..MaxTime
           /\ t_reordering_start' \in (-IntHalf)..(IntHalf - 1)
      BY <1>0, <3>7, <3>8, <3>9, SMTT(30) DEF StopOrStartTimer, StartTimer, TypeOK
    <3> QED BY <1>2, <3>5, <3>7, <3>10 DEF recv_pdu, TypeOK
  <2> QED BY <1>2, <2>1, <2>2 DEF recv_pdu
<1>4. ASSUME NEW now \in (t_current + 1)..(t_current + MaxTick), now <= MaxTime, set_time(now) PROVE TypeOK'
  <2>0. now \in 0..MaxTime /\ now \in Nat
    BY <1>4, BoundAssumption DEF TypeOK
  <2>1. CASE UNCHANGED rxCounters
    BY <1>4, <2>0, <2>1 DEF set_time, rxCounters, TypeOK
  <2>2. ASSUME NEW m \in 0..Len(rx_list), NEW n \in 0..(Len(rx_list) - m), ReorderingExpiry(now, m, n)
        PROVE  TypeOK'
    <3>1. rx_list' \in Seq(Sdu) /\ delivered' \in Seq(Sdu)
      <4>1. m + n \in 0..Len(rx_list)
        BY <2>2 DEF TypeOK
      <4> QED BY <4>1, <2>2, DeliverType DEF ReorderingExpiry, TypeOK
    <3>2. (rx_reord + n) % CountMod \in 0..(CountMod - 1)
      <4>1. rx_reord + n \in Int
        BY <1>0 DEF TypeOK
      <4> QED BY <1>0, <4>1, ModRange
    <3>3. ToInt(now) \in (-IntHalf)..(IntHalf - 1)
      BY <2>0, ToIntRange
    <3>4. /\ rx_deliv' \in 0..(CountMod - 1) /\ rx_reord' \in 0..(CountMod - 1) /\ armed_at' \in 0..MaxTime
          /\ t_reordering_start' \in (-IntHalf)..(IntHalf - 1) /\ rx_next' = rx_next
      BY <1>0, <2>0, <2>2, <3>2, <3>3, SMTT(30) DEF ReorderingExpiry, StartTimer, TypeOK
    <3> QED BY <1>4, <2>0, <3>1, <3>4 DEF set_time, TypeOK
  <2> QED BY <1>4, <2>1, <2>2 DEF set_time
<1>5. ASSUME NEW call \in Calls, ConfigSecurity(call) PROVE TypeOK'
  <2>1. tx_sec' \in Security /\ rx_sec' \in Security
    <3>1. set_security(tx_sec, call) \in Security /\ set_security(rx_sec, call) \in Security
      BY SecurityType DEF TypeOK
    <3> QED BY <1>5, <3>1 DEF ConfigSecurity, TypeOK
  <2>2. /\ tx_calls' \in Seq(Calls) /\ rx_calls' \in Seq(Calls)
        /\ Len(tx_calls') + Len(rx_calls') <= 2 + MaxReconf
    <3>1. /\ tx_calls \in Seq(Calls) /\ rx_calls \in Seq(Calls)
          /\ Len(tx_calls) + Len(rx_calls) <= 2 + MaxReconf
      BY DEF TypeOK
    <3>2. /\ Len(tx_calls) + Len(rx_calls) < 2 + MaxReconf
          /\ \/ tx_calls' = Append(tx_calls, call) /\ rx_calls' = rx_calls
             \/ rx_calls' = Append(rx_calls, call) /\ tx_calls' = tx_calls
      BY <1>5 DEF ConfigSecurity
    <3>3. \A c \in Seq(Calls) : Append(c, call) \in Seq(Calls) /\ Len(Append(c, call)) = Len(c) + 1 /\ Len(c) \in Nat
      BY <1>5
    <3>4. CASE tx_calls' = Append(tx_calls, call) /\ rx_calls' = rx_calls
      <4>1. tx_calls' \in Seq(Calls) /\ Len(tx_calls') = Len(tx_calls) + 1 /\ Len(tx_calls) \in Nat /\ Len(rx_calls) \in Nat
        BY <3>1, <3>3, <3>4
      <4> QED BY <1>0, <3>1, <3>2, <3>4, <4>1
    <3>5. CASE rx_calls' = Append(rx_calls, call) /\ tx_calls' = tx_calls
      <4>1. rx_calls' \in Seq(Calls) /\ Len(rx_calls') = Len(rx_calls) + 1 /\ Len(tx_calls) \in Nat /\ Len(rx_calls) \in Nat
        BY <3>1, <3>3, <3>5
      <4> QED BY <1>0, <3>1, <3>2, <3>5, <4>1
    <3> QED BY <3>2, <3>4, <3>5
  <2> QED BY <1>5, <2>1, <2>2 DEF ConfigSecurity, rxCounters, TypeOK
<1>6. CASE UNCHANGED vars
  BY <1>6 DEF vars, rxCounters, TypeOK
<1> QED BY <1>1, <1>2, <1>4, <1>5, <1>6 DEF Next

\* Every variable keeps its type in every behaviour, whatever the lower layers do.
THEOREM TypeCorrect == Spec => []TypeOK
BY TypeInit, TypeStep, PTL DEF Spec

---------------------------------------------------------------------------
(* In-order delivery.  The inductive invariant adds to the properties what *)
(* relates the receiver to the transmitter (PdusSent, RX_NEXT <= TX_NEXT)  *)
(* and to the past (everything delivered lies below RX_DELIV).             *)

PdusSent == \A p \in pdus : p.count < tx_next /\ p.sn = p.count % SnCount

DeliveredBelow == \A i \in 1..Len(delivered) : delivered[i].count < rx_deliv

BearerInv ==
  /\ TypeOK /\ PdusSent /\ rx_next <= tx_next
  /\ CountRecovered /\ ListOrdered /\ WindowOrdered
  /\ DeliveredInOrder /\ DeliveredBelow

Sorted(l) == \A i, j \in 1..Len(l) : i < j => l[i].count < l[j].count

Faithful(l) == \A i \in 1..Len(l) : l[i].count = l[i].sdu

\* A list split by the delivery loops: n SDUs below deliv go up, the rest lies above it.
LEMMA DeliverKeepsOrder ==
  ASSUME TypeOK, CountRecovered, DeliveredInOrder, DeliveredBelow,
         NEW l \in Seq(Sdu), Sorted(l), Faithful(l), NEW n \in 0..Len(l),
         NEW deliv \in Nat, NEW next \in Nat, rx_deliv <= deliv,
         \A i \in 1..Len(l) : rx_deliv <= l[i].count /\ l[i].count < next,
         \A i \in 1..n : l[i].count < deliv,
         \A i \in (n + 1)..Len(l) : deliv < l[i].count,
         Deliver(l, n), rx_deliv' = deliv, rx_next' = next
  PROVE  CountRecovered' /\ ListOrdered' /\ DeliveredInOrder' /\ DeliveredBelow'
<1> DEFINE a == SubSeq(l, 1, n)
           b == SubSeq(l, n + 1, Len(l))
<1>1. a \in Seq(Sdu) /\ Len(a) = n /\ \A i \in 1..n : a[i] = l[i]
  BY Prefix
<1>2. b \in Seq(Sdu) /\ Len(b) = Len(l) - n /\ \A i \in 1..(Len(l) - n) : b[i] = l[n + i]
  BY Suffix
<1> HIDE DEF a, b
<1>3. delivered' = delivered \o a /\ rx_list' = b
  BY DEF Deliver, a, b
<1>4. /\ delivered \in Seq(Sdu) /\ Len(delivered) \in Nat /\ Len(delivered') = Len(delivered) + n
      /\ \A i \in 1..(Len(delivered) + n) :
           delivered'[i] = IF i <= Len(delivered) THEN delivered[i] ELSE a[i - Len(delivered)]
  <2>1. delivered \in Seq(Sdu)
    BY DEF TypeOK
  <2>2. /\ Len(delivered \o a) = Len(delivered) + Len(a)
        /\ \A i \in 1..(Len(delivered) + Len(a)) :
             (delivered \o a)[i] = IF i <= Len(delivered) THEN delivered[i] ELSE a[i - Len(delivered)]
    BY <2>1, <1>1, Concatenation
  <2> QED BY <2>1, <2>2, <1>1, <1>3
<1> DEFINE D == Len(delivered)
<1>5. ASSUME NEW i \in 1..(D + n), i > D
      PROVE  i - D \in 1..n /\ delivered'[i] = l[i - D]
  BY <1>1, <1>4, <1>5
<1>6. ASSUME NEW i \in 1..(D + n), i <= D
      PROVE  delivered'[i] = delivered[i] /\ delivered[i].count < rx_deliv /\ delivered[i].count = delivered[i].sdu
  BY <1>4, <1>6 DEF DeliveredBelow, CountRecovered
<1>7. \A i \in 1..(D + n) : delivered'[i].count = delivered'[i].sdu /\ delivered'[i].count < deliv
  <2> SUFFICES ASSUME NEW i \in 1..(D + n)
               PROVE  delivered'[i].count = delivered'[i].sdu /\ delivered'[i].count < deliv
    OBVIOUS
  <2>0. rx_deliv \in Nat /\ D \in Nat
    BY <1>4 DEF TypeOK
  <2>1. CASE i > D
    <3>1. delivered'[i] = l[i - D] /\ i - D \in 1..n
      BY <2>1, <1>5
    <3> QED BY <3>1 DEF Faithful
  <2>2. CASE i <= D
    <3>1. delivered[i] \in Sdu
      BY <1>4, <2>2
    <3> QED BY <2>0, <2>2, <3>1, <1>6 DEF Sdu
  <2> QED BY <2>0, <2>1, <2>2
<1>8. DeliveredInOrder'
  <2> SUFFICES ASSUME NEW i \in 1..(D + n), NEW j \in 1..(D + n), i < j
               PROVE  delivered'[i].sdu < delivered'[j].sdu
    BY <1>4 DEF DeliveredInOrder
  <2>0. rx_deliv \in Nat /\ D \in Nat /\ \A k \in 1..Len(l) : l[k] \in Sdu
    BY <1>4 DEF TypeOK
  <2>1. CASE j <= D
    <3>1. i \in 1..D /\ j \in 1..D /\ delivered'[i] = delivered[i] /\ delivered'[j] = delivered[j]
      BY <2>0, <2>1, <1>4
    <3> QED BY <3>1 DEF DeliveredInOrder
  <2>2. CASE i <= D /\ j > D
    <3>1. delivered'[i].sdu < rx_deliv
      BY <2>0, <2>2, <1>6
    <3>2. delivered'[j].sdu >= rx_deliv /\ delivered'[j].sdu \in Nat
      <4>1. delivered'[j] = l[j - D] /\ j - D \in 1..Len(l)
        BY <2>0, <2>2, <1>5
      <4>2. l[j - D].count = l[j - D].sdu /\ l[j - D] \in Sdu /\ rx_deliv <= l[j - D].count
        BY <4>1, <2>0 DEF Faithful
      <4> QED BY <4>1, <4>2 DEF Sdu
    <3>3. delivered'[i].sdu \in Nat
      <4>1. delivered'[i] = delivered[i] /\ delivered[i] \in Sdu
        BY <2>0, <2>2, <1>4
      <4> QED BY <4>1 DEF Sdu
    <3> QED BY <2>0, <3>1, <3>2, <3>3
  <2>3. CASE i > D
    <3>1. /\ delivered'[i] = l[i - D] /\ delivered'[j] = l[j - D]
          /\ i - D \in 1..n /\ j - D \in 1..n /\ i - D < j - D
      BY <2>0, <2>3, <1>5
    <3>2. l[i - D].count < l[j - D].count
      BY <3>1 DEF Sorted
    <3> QED BY <3>1, <3>2 DEF Faithful
  <2> QED BY <2>0, <2>1, <2>2, <2>3
<1>9. CountRecovered' /\ DeliveredBelow'
  <2>1. \A i \in 1..Len(rx_list') : rx_list'[i].count = rx_list'[i].sdu
    BY <1>2, <1>3 DEF Faithful
  <2> QED BY <2>1, <1>4, <1>7 DEF CountRecovered, DeliveredBelow
<1>10. ListOrdered'
  <2>1. ASSUME NEW i \in 1..(Len(l) - n), NEW j \in 1..(Len(l) - n), i < j
        PROVE  b[i].count < b[j].count
    <3>1. b[i] = l[n + i] /\ b[j] = l[n + j] /\ n + i \in 1..Len(l) /\ n + j \in 1..Len(l) /\ n + i < n + j
      BY <2>1, <1>2
    <3> QED BY <3>1 DEF Sorted
  <2>2. ASSUME NEW i \in 1..(Len(l) - n)
        PROVE  deliv < b[i].count /\ b[i].count < next
    <3>1. n + i \in (n + 1)..Len(l) /\ n + i \in 1..Len(l) /\ b[i] = l[n + i]
      BY <1>2
    <3> QED BY <3>1
  <2> QED BY <2>1, <2>2, <1>2, <1>3 DEF ListOrdered
<1> QED BY <1>8, <1>9, <1>10

\* A run of consecutive COUNTs inside a sorted list does not wrap around.
LEMMA RunDoesNotWrap ==
  ASSUME NEW l \in Seq(Sdu), Sorted(l), NEW m \in 0..Len(l), NEW n \in 0..(Len(l) - m),
         NEW first \in Nat, first < CountMod, NEW next \in Nat, first <= next, next < CountMod,
         \A i \in 1..Len(l) : l[i].count < next,
         \A i \in (m + 1)..Len(l) : l[i].count >= first,
         IsRun(l, m, first, n)
  PROVE  /\ (first + n) % CountMod = first + n /\ first + n <= next
         /\ \A i \in (m + 1)..(m + n) : l[i].count < first + n
         /\ \A i \in (m + n + 1)..Len(l) : first + n < l[i].count
<1>0. CountMod \in Nat \ {0} /\ Len(l) \in Nat /\ \A i \in 1..Len(l) : l[i] \in Sdu /\ l[i].count \in Nat
  <2>1. Len(l) \in Nat /\ \A i \in 1..Len(l) : l[i] \in Sdu
    OBVIOUS
  <2> QED BY <2>1, ConstantFacts DEF Sdu
<1>1. ASSUME n > 0, first + n - 1 >= CountMod PROVE FALSE
  <2> DEFINE w == CountMod - first + 1
  <2>1. w \in 1..n /\ w > 1 /\ first + w - 1 = CountMod
    BY <1>0, <1>1
  <2>2. CountMod % CountMod = 0
    BY <1>0
  <2>3. l[m + w].count = 0
    BY <2>1, <2>2 DEF IsRun
  <2>4. m + w \in 1..Len(l) /\ m + 1 \in 1..Len(l) /\ m + 1 < m + w
    BY <1>0, <2>1
  <2>5. l[m + 1].count < l[m + w].count
    BY <2>4 DEF Sorted
  <2> QED BY <1>0, <2>3, <2>4, <2>5
<1>2. \A i \in 1..n : l[m + i].count = first + i - 1
  <2> SUFFICES ASSUME NEW i \in 1..n PROVE l[m + i].count = first + i - 1
    OBVIOUS
  <2>1. first + i - 1 \in Nat /\ first + i - 1 < CountMod
    BY <1>0, <1>1
  <2>2. (first + i - 1) % CountMod = first + i - 1
    BY <1>0, <2>1, ModSmall
  <2> QED BY <2>2 DEF IsRun
<1>3. first + n <= next
  <2>1. CASE n = 0
    BY <2>1
  <2>2. CASE n > 0
    <3>1. l[m + n].count = first + n - 1 /\ m + n \in 1..Len(l)
      <4>1. n \in 1..n /\ m + n \in 1..Len(l)
        BY <2>2, <1>0
      <4> QED BY <4>1, <1>2
    <3> QED BY <3>1, <1>0
  <2> QED BY <1>0, <2>1, <2>2
<1>4. (first + n) % CountMod = first + n
  <2>1. first + n \in Nat /\ first + n < CountMod
    BY <1>0, <1>3
  <2> QED BY <1>0, <2>1, ModSmall
<1>5. ASSUME NEW i \in (m + 1)..(m + n) PROVE l[i].count < first + n
  <2>1. i - m \in 1..n /\ m + (i - m) = i
    BY <1>0
  <2>2. l[i].count = first + (i - m) - 1
    BY <2>1, <1>2
  <2> QED BY <2>1, <2>2, <1>0
<1>6. ASSUME NEW i \in (m + n + 1)..Len(l) PROVE first + n < l[i].count
  <2>1. m + n < Len(l) /\ m + n + 1 \in (m + 1)..Len(l) /\ m + n + 1 \in 1..Len(l) /\ i \in 1..Len(l)
    BY <1>0
  <2>2. l[m + n + 1].count # first + n /\ l[m + n + 1].count \in Nat
    BY <2>1, <1>0, <1>4 DEF IsRun
  <2>3. l[m + n + 1].count >= first + n
    <3>1. CASE n = 0
      BY <3>1, <2>1
    <3>2. CASE n > 0
      <4>1. l[m + n].count = first + n - 1 /\ m + n \in 1..Len(l)
        <5>1. n \in 1..n /\ m + n \in 1..Len(l)
          BY <3>2, <1>0
        <5> QED BY <5>1, <1>2
      <4>2. l[m + n].count < l[m + n + 1].count
        BY <4>1, <2>1 DEF Sorted
      <4> QED BY <4>1, <4>2, <2>2
    <3> QED BY <1>0, <3>1, <3>2
  <2>4. i = m + n + 1 \/ l[m + n + 1].count < l[i].count
    BY <2>1, <1>0 DEF Sorted
  <2>5. l[i].count \in Nat
    BY <2>1, <1>0
  <2> QED BY <2>2, <2>3, <2>4, <2>5, SMTT(30)
<1> QED BY <1>3, <1>4, <1>5, <1>6

\* The timer conditions at the end of recv_pdu and of check_t_reordering.
LEMMA TimerKeepsOrder ==
  ASSUME TypeOK, WindowOrdered, NEW deliv \in Nat, NEW next \in Nat, deliv <= next, rx_next <= next,
         rx_deliv' = deliv, rx_next' = next,
         \/ StopOrStartTimer(deliv, next)
         \/ \E now \in Nat : deliv < next /\ StartTimer(next, now)
         \/ t_reordering_start' = 0 /\ rx_reord' = rx_reord
  PROVE  WindowOrdered'
<1>1. rx_reord \in Nat /\ rx_next \in Nat /\ rx_deliv \in Nat
  BY ConstantFacts DEF TypeOK
<1> QED BY <1>1 DEF WindowOrdered, StopOrStartTimer, StartTimer

\* Within the reordering window recv_pdu infers the COUNT every PDU was sent with.
LEMMA CountInferred ==
  ASSUME Reach <= WindowSize, BearerInv, NEW p \in pdus, Reachable(p)
  PROVE  RcvdCount(p.sn) = p.count
<1>1. p.count \in Nat /\ p.count < CountMod /\ p.sn = p.count % SnCount /\ rx_deliv \in Nat
  BY ConstantFacts, BoundAssumption DEF BearerInv, TypeOK, PdusSent, Pdu
<1>2. rx_deliv - WindowSize <= p.count /\ p.count < rx_deliv + WindowSize
  BY <1>1, WindowAssumption, DataAssumption DEF Reachable
<1> QED BY <1>1, <1>2, HfnInference

\* recv_pdu of a PDU that is kept preserves the order of the list, of the window and of delivery.
LEMMA AcceptKeepsOrder ==
  ASSUME Reach <= WindowSize, BearerInv, NEW p \in pdus, Reachable(p), ~Discarded(p),
         NEW k \in 0..Len(rx_list), NEW n \in 0..(Len(rx_list) + 1), Accept(p, k, n)
  PROVE  /\ CountRecovered' /\ ListOrdered' /\ DeliveredInOrder' /\ DeliveredBelow' /\ WindowOrdered'
         /\ rx_next' <= tx_next
<1>0. /\ rx_deliv \in Nat /\ rx_next \in Nat /\ rx_reord \in Nat /\ tx_next \in Nat /\ tx_next < CountMod
      /\ CountMod \in Nat \ {0} /\ rx_list \in Seq(Sdu) /\ Len(rx_list) \in Nat
      /\ rx_deliv <= rx_next /\ rx_next <= tx_next
  BY ConstantFacts, BoundAssumption DEF BearerInv, TypeOK, WindowOrdered
<1>1. p \in Pdu /\ p.count \in Nat /\ p.count < tx_next /\ p.sn = p.count % SnCount
  BY DEF BearerInv, TypeOK, PdusSent, Pdu
<1> DEFINE c == p.count
           e == NewSdu(p, c)
           l == ListAdd(rx_list, k, e)
           next == IF c >= rx_next THEN c + 1 ELSE rx_next
<1>2. RcvdCount(p.sn) = c
  BY CountInferred
<1>3. c >= rx_deliv /\ ~InList(c)
  BY <1>0, <1>1, <1>2 DEF Discarded
<1>4. e \in Sdu /\ e.count = c /\ e.sdu = c
  BY <1>1, NewSduType
<1>5. (c + 1) % CountMod = c + 1
  <2>1. c + 1 \in Nat /\ c + 1 < CountMod
    BY <1>0, <1>1
  <2> QED BY <1>0, <2>1, ModSmall
<1>6. /\ InsertionPoint(rx_list, c, k)
      /\ IF c = rx_deliv THEN IsRun(l, 0, rx_deliv, n) ELSE n = 0
      /\ Deliver(l, n) /\ rx_next' = next /\ rx_deliv' = (rx_deliv + n) % CountMod
      /\ StopOrStartTimer((rx_deliv + n) % CountMod, next)
  BY <1>2, <1>5 DEF Accept
<1> HIDE DEF e
<1>7. /\ l \in Seq(Sdu) /\ Len(l) = Len(rx_list) + 1
      /\ \A i \in 1..k : l[i] = rx_list[i]
      /\ l[k + 1] = e
      /\ \A i \in (k + 2)..Len(l) : l[i] = rx_list[i - 1]
  <2>1. rx_list \in Seq(Sdu) /\ e \in Sdu /\ k \in 0..Len(rx_list)
    BY <1>0, <1>4
  <2>2. Insertion(Sdu, l, rx_list, k, e)
    BY ONLY <2>1, ListAddParts
  <2> QED BY ONLY <2>2 DEF Insertion
<1>8. next \in Nat /\ next <= tx_next /\ next < CountMod /\ rx_next <= next /\ c < next
  BY <1>0, <1>1
<1> HIDE DEF l, next
<1>9. \A i \in 1..Len(rx_list) : /\ rx_list[i] \in Sdu /\ rx_list[i].count \in Nat
                                 /\ rx_list[i].count # c /\ rx_list[i].count = rx_list[i].sdu
                                 /\ rx_deliv < rx_list[i].count /\ rx_list[i].count < rx_next
  <2>1. \A i \in 1..Len(rx_list) : rx_list[i] \in Sdu
    BY <1>0
  <2>2. \A i \in 1..Len(rx_list) : rx_list[i].count # c
    BY <1>3 DEF InList
  <2>3. \A i \in 1..Len(rx_list) : /\ rx_list[i].count = rx_list[i].sdu
                                   /\ rx_deliv < rx_list[i].count /\ rx_list[i].count < rx_next
    BY DEF BearerInv, CountRecovered, ListOrdered
  <2>4. \A i \in 1..Len(rx_list) : rx_list[i].count \in Nat
    BY <2>1 DEF Sdu
  <2> QED BY <2>1, <2>2, <2>3, <2>4
<1>10. /\ \A i \in 1..k : rx_list[i].count < c
       /\ \A i \in (k + 1)..Len(rx_list) : c < rx_list[i].count
  <2>1. ASSUME NEW i \in 1..k PROVE rx_list[i].count < c
    <3>1. i \in 1..Len(rx_list)
      BY <1>0
    <3>2. rx_list[i].count <= c
      BY <1>6 DEF InsertionPoint
    <3> QED BY <3>1, <3>2, <1>1, <1>9
  <2>2. ASSUME NEW i \in (k + 1)..Len(rx_list) PROVE c < rx_list[i].count
    <3>1. i \in 1..Len(rx_list) /\ k + 1 \in 1..Len(rx_list) /\ c < rx_list[k + 1].count
      BY <1>0, <1>6 DEF InsertionPoint
    <3>2. i = k + 1 \/ rx_list[k + 1].count < rx_list[i].count
      BY <3>1, <1>0 DEF BearerInv, ListOrdered
    <3> QED BY <3>1, <3>2, <1>1, <1>9
  <2> QED BY <2>1, <2>2
<1>11. Sorted(l)
  <2> SUFFICES ASSUME NEW i \in 1..Len(l), NEW j \in 1..Len(l), i < j PROVE l[i].count < l[j].count
    BY DEF Sorted
  <2>1. CASE i <= k /\ j <= k
    <3>1. l[i] = rx_list[i] /\ l[j] = rx_list[j] /\ i \in 1..Len(rx_list) /\ j \in 1..Len(rx_list)
      BY <2>1, <1>0, <1>7
    <3> QED BY <3>1 DEF BearerInv, ListOrdered
  <2>2. CASE i <= k /\ j = k + 1
    <3>1. i \in 1..k /\ l[i] = rx_list[i] /\ l[j] = e
      BY <2>2, <1>0, <1>7
    <3> QED BY <3>1, <1>4, <1>10
  <2>3. CASE i <= k /\ j > k + 1
    <3>1. l[i] = rx_list[i] /\ l[j] = rx_list[j - 1] /\ i \in 1..Len(rx_list) /\ j - 1 \in 1..Len(rx_list) /\ i < j - 1
      BY <2>3, <1>0, <1>7
    <3> QED BY <3>1 DEF BearerInv, ListOrdered
  <2>4. CASE i = k + 1
    <3>1. l[i] = e /\ l[j] = rx_list[j - 1] /\ j - 1 \in (k + 1)..Len(rx_list)
      BY <2>4, <1>0, <1>7
    <3> QED BY <3>1, <1>4, <1>10
  <2>5. CASE i > k + 1
    <3>1. /\ l[i] = rx_list[i - 1] /\ l[j] = rx_list[j - 1] /\ i - 1 < j - 1
          /\ i - 1 \in 1..Len(rx_list) /\ j - 1 \in 1..Len(rx_list)
      BY <2>5, <1>0, <1>7
    <3> QED BY <3>1 DEF BearerInv, ListOrdered
  <2> QED BY <2>1, <2>2, <2>3, <2>4, <2>5, <1>0, <1>7
<1>12. \A i \in 1..Len(l) : /\ l[i].count = l[i].sdu /\ rx_deliv <= l[i].count /\ l[i].count < next
                            /\ c # rx_deliv => rx_deliv < l[i].count
  <2> SUFFICES ASSUME NEW i \in 1..Len(l)
               PROVE  /\ l[i].count = l[i].sdu /\ rx_deliv <= l[i].count /\ l[i].count < next
                      /\ c # rx_deliv => rx_deliv < l[i].count
    OBVIOUS
  <2>1. CASE i = k + 1
    <3>1. l[i].count = c /\ l[i].sdu = c
      BY <2>1, <1>4, <1>7
    <3> QED BY <3>1, <1>0, <1>1, <1>3, <1>8
  <2>2. ASSUME NEW j \in 1..Len(rx_list), l[i] = rx_list[j]
        PROVE  /\ l[i].count = l[i].sdu /\ rx_deliv <= l[i].count /\ l[i].count < next
               /\ c # rx_deliv => rx_deliv < l[i].count
    BY <2>2, <1>0, <1>8, <1>9, SMTT(30)
  <2>3. CASE i <= k
    <3>1. i \in 1..Len(rx_list) /\ l[i] = rx_list[i]
      BY <2>3, <1>0, <1>7
    <3> QED BY <3>1, <2>2
  <2>4. CASE i > k + 1
    <3>1. i - 1 \in 1..Len(rx_list) /\ i \in (k + 2)..Len(l)
      BY <2>4, <1>0, <1>7
    <3>2. l[i] = rx_list[i - 1]
      BY <3>1, <1>7
    <3> QED BY <3>1, <3>2, <2>2
  <2> QED BY <2>1, <2>3, <2>4, <1>0, <1>7
<1>13. /\ (rx_deliv + n) % CountMod = rx_deliv + n /\ rx_deliv + n <= next
       /\ \A i \in 1..n : l[i].count < rx_deliv + n
       /\ \A i \in (n + 1)..Len(l) : rx_deliv + n < l[i].count
  <2>1. CASE c = rx_deliv
    <3>1. /\ 0 \in 0..Len(l) /\ n \in 0..(Len(l) - 0) /\ rx_deliv < CountMod /\ rx_deliv <= next
          /\ IsRun(l, 0, rx_deliv, n)
      BY <2>1, <1>0, <1>6, <1>7, <1>8
    <3>2. /\ (rx_deliv + n) % CountMod = rx_deliv + n /\ rx_deliv + n <= next
          /\ \A i \in (0 + 1)..(0 + n) : l[i].count < rx_deliv + n
          /\ \A i \in (0 + n + 1)..Len(l) : rx_deliv + n < l[i].count
      <4>1. \A i \in 1..Len(l) : l[i].count < next
        BY <1>12
      <4>2. \A i \in (0 + 1)..Len(l) : l[i].count >= rx_deliv
        <5> SUFFICES ASSUME NEW i \in 1..Len(l) PROVE l[i].count >= rx_deliv
          OBVIOUS
        <5>1. l[i] \in Sdu /\ rx_deliv <= l[i].count
          BY <1>7, <1>12
        <5> QED BY <5>1, <1>0 DEF Sdu
      <4> HIDE DEF l
      <4> QED BY <3>1, <4>1, <4>2, <1>0, <1>7, <1>8, <1>11, RunDoesNotWrap
    <3> QED BY <3>2
  <2>2. CASE c # rx_deliv
    <3>1. n = 0 /\ rx_deliv + n = rx_deliv /\ rx_deliv < CountMod
      BY <2>2, <1>0, <1>6
    <3>2. (rx_deliv + n) % CountMod = rx_deliv + n
      BY <3>1, <1>0, ModSmall
    <3>3. \A i \in 1..n : l[i].count < rx_deliv + n
      BY <3>1
    <3>4. \A i \in (n + 1)..Len(l) : rx_deliv + n < l[i].count
      BY <3>1, <2>2, <1>12
    <3> QED BY <3>1, <3>2, <3>3, <3>4, <1>0, <1>8, SMTT(30)
  <2> QED BY <2>1, <2>2
<1>14. rx_deliv + n \in Nat /\ rx_deliv <= rx_deliv + n /\ n \in 0..Len(l) /\ rx_deliv' = rx_deliv + n
  <2>1. rx_deliv' = rx_deliv + n
    BY <1>6, <1>13
  <2>2. n \in 0..Len(l) /\ rx_deliv + n \in Nat /\ rx_deliv <= rx_deliv + n
    BY <1>0, <1>7
  <2> QED BY <2>1, <2>2
<1>15. CountRecovered' /\ ListOrdered' /\ DeliveredInOrder' /\ DeliveredBelow'
  <2>1. Faithful(l)
    BY <1>12 DEF Faithful
  <2> QED BY <2>1, <1>6, <1>7, <1>8, <1>11, <1>12, <1>13, <1>14, DeliverKeepsOrder DEF BearerInv
<1>16. WindowOrdered'
  <2>1. StopOrStartTimer(rx_deliv + n, next)
    BY <1>6, <1>13
  <2> QED BY <2>1, <1>6, <1>8, <1>13, <1>14, TimerKeepsOrder DEF BearerInv
<1> QED BY <1>6, <1>8, <1>15, <1>16

\* The expiry of t-Reordering (check_t_reordering) preserves the same order.
LEMMA ExpiryKeepsOrder ==
  ASSUME BearerInv, NEW now \in Nat, t_reordering_start # 0,
         NEW m \in 0..Len(rx_list), NEW n \in 0..(Len(rx_list) - m), ReorderingExpiry(now, m, n)
  PROVE  /\ CountRecovered' /\ ListOrdered' /\ DeliveredInOrder' /\ DeliveredBelow' /\ WindowOrdered'
         /\ rx_next' = rx_next
<1>0. /\ rx_deliv \in Nat /\ rx_next \in Nat /\ rx_reord \in Nat /\ tx_next \in Nat /\ rx_next < CountMod
      /\ CountMod \in Nat \ {0} /\ rx_list \in Seq(Sdu) /\ Len(rx_list) \in Nat
      /\ rx_deliv < rx_reord /\ rx_reord <= rx_next
  BY ConstantFacts, BoundAssumption DEF BearerInv, TypeOK, WindowOrdered
<1>1. Sorted(rx_list) /\ Faithful(rx_list)
  BY DEF BearerInv, ListOrdered, CountRecovered, Sorted, Faithful
<1>2. \A i \in 1..Len(rx_list) : /\ rx_list[i] \in Sdu /\ rx_list[i].count \in Nat
                                 /\ rx_deliv < rx_list[i].count /\ rx_list[i].count < rx_next
  <2>1. \A i \in 1..Len(rx_list) : rx_list[i] \in Sdu
    BY <1>0
  <2> QED BY <2>1 DEF BearerInv, ListOrdered, Sdu
<1>3. \A i \in (m + 1)..Len(rx_list) : rx_list[i].count >= rx_reord
  <2> SUFFICES ASSUME NEW i \in (m + 1)..Len(rx_list) PROVE rx_list[i].count >= rx_reord
    OBVIOUS
  <2>1. m < Len(rx_list) /\ m + 1 \in 1..Len(rx_list) /\ i \in 1..Len(rx_list)
    BY <1>0
  <2>2. rx_list[m + 1].count >= rx_reord
    BY <2>1 DEF ReorderingExpiry
  <2>3. i = m + 1 \/ rx_list[m + 1].count < rx_list[i].count
    BY <2>1, <1>0, <1>1 DEF Sorted
  <2> QED BY <2>1, <2>2, <2>3, <1>0, <1>2
<1>4. /\ (rx_reord + n) % CountMod = rx_reord + n /\ rx_reord + n <= rx_next
      /\ \A i \in (m + 1)..(m + n) : rx_list[i].count < rx_reord + n
      /\ \A i \in (m + n + 1)..Len(rx_list) : rx_reord + n < rx_list[i].count
  <2>1. IsRun(rx_list, m, rx_reord, n) /\ rx_reord < CountMod
    BY <1>0 DEF ReorderingExpiry
  <2> QED BY <2>1, <1>0, <1>1, <1>2, <1>3, RunDoesNotWrap
<1>5. \A i \in 1..(m + n) : rx_list[i].count < rx_reord + n
  <2> SUFFICES ASSUME NEW i \in 1..(m + n) PROVE rx_list[i].count < rx_reord + n
    OBVIOUS
  <2>1. CASE i <= m
    <3>1. i \in 1..m /\ i \in 1..Len(rx_list)
      BY <2>1, <1>0
    <3>2. rx_list[i].count < rx_reord
      BY <3>1 DEF ReorderingExpiry
    <3> QED BY <3>1, <3>2, <1>0, <1>2
  <2>2. CASE i > m
    BY <2>2, <1>0, <1>4
  <2> QED BY <2>1, <2>2
<1>6. /\ Deliver(rx_list, m + n) /\ rx_deliv' = rx_reord + n /\ rx_next' = rx_next
      /\ m + n \in 0..Len(rx_list) /\ rx_reord + n \in Nat /\ rx_deliv <= rx_reord + n
  BY <1>0, <1>4 DEF ReorderingExpiry
<1>7. CountRecovered' /\ ListOrdered' /\ DeliveredInOrder' /\ DeliveredBelow'
  <2>1. \A i \in 1..Len(rx_list) : rx_deliv <= rx_list[i].count /\ rx_list[i].count < rx_next
    BY <1>0, <1>2
  <2> QED BY <2>1, <1>0, <1>1, <1>4, <1>5, <1>6, DeliverKeepsOrder DEF BearerInv
<1>8. WindowOrdered'
  <2>1. \/ rx_reord + n < rx_next /\ StartTimer(rx_next, now)
        \/ t_reordering_start' = 0 /\ rx_reord' = rx_reord
    BY <1>4 DEF ReorderingExpiry
  <2>2. rx_next <= rx_next /\ TypeOK /\ WindowOrdered
    BY <1>0 DEF BearerInv
  <2> QED BY <2>1, <2>2, <1>0, <1>4, <1>6, TimerKeepsOrder
<1> QED BY <1>6, <1>7, <1>8

\* BearerInv is inductive when the lower layers stay within the reordering window.
THEOREM BearerInvariance ==
  ASSUME Reach <= WindowSize
  PROVE  Spec => []BearerInv
<1>1. Init => BearerInv
  <2> SUFFICES ASSUME Init PROVE BearerInv
    OBVIOUS
  <2>1. TypeOK
    BY TypeInit
  <2> QED BY <2>1 DEF Init, BearerInv, PdusSent, CountRecovered, ListOrdered, WindowOrdered,
                      DeliveredInOrder, DeliveredBelow
<1>2. BearerInv /\ [Next]_vars => BearerInv'
  <2> SUFFICES ASSUME BearerInv, [Next]_vars PROVE BearerInv'
    OBVIOUS
  <2>0. TypeOK' /\ tx_next \in Nat /\ rx_next \in Nat
    BY TypeStep DEF BearerInv, TypeOK
  <2>1. ASSUME UNCHANGED rxCounters, PdusSent', tx_next' >= tx_next, tx_next' \in Nat PROVE BearerInv'
    BY <2>0, <2>1 DEF BearerInv, rxCounters, CountRecovered, ListOrdered, WindowOrdered, DeliveredInOrder, DeliveredBelow
  <2>2. ASSUME NEW len \in Lens, recv_sdu(len) PROVE BearerInv'
    <3>1. \A p \in pdus' : p.count < tx_next' /\ p.sn = p.count % SnCount
      <4> SUFFICES ASSUME NEW p \in pdus' PROVE p.count < tx_next' /\ p.sn = p.count % SnCount
        OBVIOUS
      <4>1. CASE p \in pdus
        <5>1. p.count \in Nat /\ p.count < tx_next /\ p.sn = p.count % SnCount
          BY <4>1 DEF BearerInv, PdusSent, TypeOK, Pdu
        <5> QED BY <5>1, <2>0, <2>2 DEF recv_sdu
      <4>2. CASE p \notin pdus
        <5>1. p.count = tx_next /\ p.sn = tx_next % SnCount
          BY <4>2, <2>2 DEF recv_sdu
        <5> QED BY <5>1, <2>0, <2>2 DEF recv_sdu
      <4> QED BY <4>1, <4>2
    <3>2. PdusSent' /\ UNCHANGED rxCounters /\ tx_next' >= tx_next /\ tx_next' \in Nat
      BY <3>1, <2>0, <2>2 DEF recv_sdu, PdusSent
    <3> QED BY <3>2, <2>1
  <2>3. ASSUME NEW p \in pdus, recv_pdu(p) PROVE BearerInv'
    <3>0. PdusSent' /\ tx_next' = tx_next
      BY <2>3 DEF recv_pdu, BearerInv, PdusSent
    <3>1. CASE UNCHANGED rxCounters
      BY <3>0, <3>1, <2>0, <2>1
    <3>2. ASSUME ~Discarded(p), NEW k \in 0..Len(rx_list), NEW n \in 0..(Len(rx_list) + 1), Accept(p, k, n)
          PROVE  BearerInv'
      <4>1. Reachable(p)
        BY <2>3 DEF recv_pdu
      <4>2. /\ CountRecovered' /\ ListOrdered' /\ DeliveredInOrder' /\ DeliveredBelow' /\ WindowOrdered'
            /\ rx_next' <= tx_next
        BY <3>2, <4>1, AcceptKeepsOrder
      <4> QED BY <2>0, <3>0, <4>2 DEF BearerInv
    <3> QED BY <2>3, <3>1, <3>2 DEF recv_pdu
  <2>5. ASSUME NEW now \in (t_current + 1)..(t_current + MaxTick), set_time(now) PROVE BearerInv'
    <3>0. PdusSent' /\ tx_next' = tx_next /\ now \in Nat
      BY <2>5, BoundAssumption DEF set_time, BearerInv, PdusSent, TypeOK
    <3>1. CASE UNCHANGED rxCounters
      BY <3>0, <3>1, <2>0, <2>1
    <3>2. ASSUME t_reordering_start # 0,
                 NEW m \in 0..Len(rx_list), NEW n \in 0..(Len(rx_list) - m), ReorderingExpiry(now, m, n)
          PROVE  BearerInv'
      <4>1. /\ CountRecovered' /\ ListOrdered' /\ DeliveredInOrder' /\ DeliveredBelow' /\ WindowOrdered'
            /\ rx_next' = rx_next
        BY <3>0, <3>2, ExpiryKeepsOrder
      <4> QED BY <2>0, <3>0, <4>1 DEF BearerInv
    <3> QED BY <2>5, <3>1, <3>2 DEF set_time, TimerExpired
  <2>6. ASSUME NEW call, ConfigSecurity(call) PROVE BearerInv'
    BY <2>0, <2>1, <2>6 DEF ConfigSecurity, BearerInv, PdusSent
  <2>7. CASE UNCHANGED vars
    BY <2>0, <2>1, <2>7 DEF vars, BearerInv, PdusSent
  <2> QED BY <2>2, <2>3, <2>5, <2>6, <2>7 DEF Next
<1> QED BY <1>1, <1>2, PTL DEF Spec

\* In-order delivery of recv_pdu and check_t_reordering, for every window size and every
\* pattern of loss, duplication and reordering within the window.
THEOREM InOrderDelivery ==
  ASSUME Reach <= WindowSize
  PROVE  Spec => []DeliveredInOrder
BY BearerInvariance, PTL DEF BearerInv

\* The COUNT used for deciphering and integrity is the sender's, across every SN wrap-around.
THEOREM CountsAgree ==
  ASSUME Reach <= WindowSize
  PROVE  Spec => []CountRecovered
BY BearerInvariance, PTL DEF BearerInv

\* rx_list stays ordered and duplicate-free, and never holds back an SDU that is due.
THEOREM ListConsistency ==
  ASSUME Reach <= WindowSize
  PROVE  Spec => []ListOrdered
BY BearerInvariance, PTL DEF BearerInv

\* RX_DELIV, RX_REORD and RX_NEXT keep their order across every recv_pdu and expiry, and
\* t-Reordering never runs for a gap that is closed.
THEOREM WindowConsistency ==
  ASSUME Reach <= WindowSize
  PROVE  Spec => []WindowOrdered
BY BearerInvariance, PTL DEF BearerInv

---------------------------------------------------------------------------
(* Deciphering and integrity.  The running contexts are the ones the calls *)
(* of set_security ask for, on both nodes and after every call; so a PDU   *)
(* carries the keys in force when it was sent, and one received under the  *)
(* same keys, with the COUNT recovered, gives its payload back and passes. *)

Genuine(l) == \A i \in 1..Len(l) : l[i].same_keys => l[i].intact /\ l[i].verified

Configured(a, calls, what) ==
  /\ a.key = KeyGiven(calls, what, Len(calls))
  /\ a.context = KeyInForce(calls, what)
  /\ a.active = (a.context # NoKey)

SecurityConfigured(sec, calls) ==
  Configured(sec.integrity, calls, "integrity") /\ Configured(sec.ciphering, calls, "ciphering")

ProtectedBy(p, keys) ==
  /\ keys = <<p.ik, p.ck>>
  /\ p.maci = IF p.ik # NoKey \/ IsSrb THEN MaciSize ELSE 0

IntactInv ==
  /\ SecurityConfigured(tx_sec, tx_calls) /\ SecurityConfigured(rx_sec, rx_calls)
  /\ \A p \in pdus : ProtectedBy(p, p.in_force)
  /\ Genuine(rx_list) /\ Genuine(delivered)

\* What one more call adds to what the calls say.
LEMMA OneMoreCall ==
  ASSUME NEW calls \in Seq(Calls), NEW call \in Calls, NEW what \in What
  PROVE  LET new == Append(calls, call) IN
         /\ KeyGiven(new, what, Len(new)) =
              IF call[what].key # NoKey THEN call[what].key ELSE KeyGiven(calls, what, Len(calls))
         /\ KeyInForce(new, what) =
              IF call[what].algorithm = -1 THEN KeyInForce(calls, what)
              ELSE IF call[what].algorithm = 0 THEN NoKey ELSE KeyGiven(new, what, Len(new))
<1> DEFINE new == Append(calls, call)
           n == Len(calls)
<1>1. /\ n \in Nat /\ new \in Seq(Calls) /\ Len(new) = n + 1 /\ new[n + 1] = call
      /\ \A i \in 1..n : new[i] = calls[i]
  OBVIOUS
<1> HIDE DEF new, n
<1>2. ASSUME NEW k \in 0..n PROVE Giving(new, what, k) = Giving(calls, what, k)
  BY <1>1, <1>2 DEF Giving
<1>3. ASSUME NEW k \in 0..n PROVE KeyGiven(new, what, k) = KeyGiven(calls, what, k)
  <2>1. CASE Giving(calls, what, k) = {}
    BY <1>2, <2>1 DEF KeyGiven
  <2>2. CASE Giving(calls, what, k) # {}
    <3>1. Giving(calls, what, k) \in SUBSET (1..k) /\ k \in Nat
      BY <1>1 DEF Giving
    <3>2. Max(Giving(calls, what, k)) \in 1..k
      BY <2>2, <3>1, MaxOfCalls
    <3>3. new[Max(Giving(calls, what, k))] = calls[Max(Giving(calls, what, k))]
      BY <1>1, <3>2
    <3> QED BY <1>2, <2>2, <3>3 DEF KeyGiven
  <2> QED BY <2>1, <2>2
<1>4. KeyGiven(new, what, n + 1) = IF call[what].key # NoKey THEN call[what].key ELSE KeyGiven(calls, what, n)
  <2>1. CASE call[what].key # NoKey
    <3>1. n + 1 \in Giving(new, what, n + 1) /\ Giving(new, what, n + 1) \subseteq Nat
          /\ \A y \in Giving(new, what, n + 1) : y <= n + 1
      BY <1>1, <2>1 DEF Giving
    <3>2. Max(Giving(new, what, n + 1)) = n + 1
      BY <3>1, MaxIs
    <3> QED BY <1>1, <2>1, <3>1, <3>2 DEF KeyGiven
  <2>2. CASE call[what].key = NoKey
    <3>1. Giving(new, what, n + 1) = Giving(new, what, n)
      BY <1>1, <2>2 DEF Giving
    <3>2. KeyGiven(new, what, n + 1) = KeyGiven(new, what, n)
      BY <3>1 DEF KeyGiven
    <3> QED BY <1>1, <1>3, <2>2, <3>2
  <2> QED BY <2>1, <2>2
<1>5. CASE call[what].algorithm = -1
  <2>1. Naming(new, what) = Naming(calls, what)
    BY <1>1, <1>5 DEF Naming, n
  <2>2. ASSUME Naming(calls, what) = {} PROVE KeyInForce(new, what) = KeyInForce(calls, what)
    BY <2>1, <2>2, KeyInForceIs
  <2>3. ASSUME Naming(calls, what) # {} PROVE KeyInForce(new, what) = KeyInForce(calls, what)
    <3> DEFINE m == Max(Naming(calls, what))
    <3>1. Naming(calls, what) \in SUBSET (1..n)
      BY DEF Naming, n
    <3>2. m \in 1..n
      BY <1>1, <2>3, <3>1, MaxOfCalls
    <3> HIDE DEF m
    <3>3. new[m] = calls[m] /\ KeyGiven(new, what, m) = KeyGiven(calls, what, m)
      BY <1>1, <1>3, <3>2
    <3>4. KeyInForce(new, what) = KeyInForce(calls, what)
      BY <2>1, <3>3, KeyInForceIs DEF m
    <3> QED BY <3>4
  <2>4. KeyInForce(new, what) = KeyInForce(calls, what)
    BY <2>2, <2>3
  <2> QED BY <1>1, <1>4, <1>5, <2>4 DEF new, n
<1>6. CASE call[what].algorithm # -1
  <2>1. n + 1 \in Naming(new, what) /\ Naming(new, what) \subseteq Nat
        /\ \A y \in Naming(new, what) : y <= n + 1
    BY <1>1, <1>6 DEF Naming
  <2>2. Max(Naming(new, what)) = n + 1
    BY <2>1, MaxIs
  <2>3. KeyInForce(new, what) = IF call[what].algorithm = 0 THEN NoKey ELSE KeyGiven(new, what, n + 1)
    BY <1>1, <2>1, <2>2, KeyInForceIs
  <2> QED BY <1>1, <1>4, <1>6, <2>3 DEF new, n
<1> QED BY <1>5, <1>6

\* nr_pdcp_entity_set_security leaves the entity as the calls ask for, this one included.
LEMMA ReconfigureFollows ==
  ASSUME NEW calls \in Seq(Calls), NEW call \in Calls, NEW what \in What,
         NEW a \in Algorithm, Configured(a, calls, what)
  PROVE  Configured(Reconfigure(a, call[what]), Append(calls, call), what)
<1> DEFINE new == Append(calls, call)
           s == call[what]
<1>1. /\ KeyGiven(new, what, Len(new)) = IF s.key # NoKey THEN s.key ELSE KeyGiven(calls, what, Len(calls))
      /\ KeyInForce(new, what) = IF s.algorithm = -1 THEN KeyInForce(calls, what)
                                 ELSE IF s.algorithm = 0 THEN NoKey ELSE KeyGiven(new, what, Len(new))
  BY OneMoreCall
<1>2. s \in Setting /\ Len(calls) \in Nat
  BY CallsAssumption DEF Call, What
<1>3. KeyGiven(calls, what, Len(calls)) \in Keys
  BY <1>2, KeyGivenType
<1> HIDE DEF new, s
<1>4. a.key = KeyGiven(calls, what, Len(calls)) /\ a.context = KeyInForce(calls, what)
      /\ a.active = (a.context # NoKey)
  BY DEF Configured
<1>5. CASE s.algorithm = -1
  <2>1. Reconfigure(a, s) = [a EXCEPT !.key = IF s.key # NoKey THEN s.key ELSE a.key]
    BY <1>5 DEF Reconfigure
  <2> QED BY <1>1, <1>4, <1>5, <2>1 DEF Configured, Algorithm, new, s
<1>6. CASE s.algorithm = 0
  <2>1. Reconfigure(a, s) =
          [active |-> FALSE, key |-> IF s.key # NoKey THEN s.key ELSE a.key, context |-> NoKey]
    BY <1>6 DEF Reconfigure
  <2>2. Configured(Reconfigure(a, s), new, what)
    <3>1. /\ Reconfigure(a, s).key = KeyGiven(new, what, Len(new)) /\ Reconfigure(a, s).context = NoKey
          /\ Reconfigure(a, s).active = FALSE
      BY <1>1, <1>4, <2>1
    <3>2. KeyInForce(new, what) = NoKey
      BY <1>1, <1>6
    <3> QED BY <3>1, <3>2, Zenon DEF Configured
  <2> QED BY <2>2 DEF new, s
<1>7. CASE s.algorithm = 2
  <2> DEFINE stored == IF s.key # NoKey THEN s.key ELSE a.key
  <2>1. Reconfigure(a, s) = [active |-> TRUE, key |-> stored, context |-> stored]
    BY <1>7 DEF Reconfigure
  <2>2. stored \in Keys /\ stored # NoKey
    BY <1>2, <1>3, <1>4, DataAssumption DEF Setting
  <2>3. stored = KeyGiven(new, what, Len(new))
    BY <1>1, <1>4
  <2> HIDE DEF stored
  <2>4. Configured(Reconfigure(a, s), new, what)
    <3>1. /\ Reconfigure(a, s).key = stored /\ Reconfigure(a, s).context = stored
          /\ Reconfigure(a, s).active = TRUE
      BY <2>1
    <3>2. KeyInForce(new, what) = stored
      BY <1>1, <1>7, <2>3
    <3> QED BY <2>2, <2>3, <3>1, <3>2, Zenon DEF Configured
  <2> QED BY <2>4 DEF new, s
<1> QED BY <1>2, <1>5, <1>6, <1>7 DEF Setting

\* set_security does so for integrity and for ciphering.
LEMMA SetSecurityFollows ==
  ASSUME NEW calls \in Seq(Calls), NEW call \in Calls, NEW sec \in Security,
         SecurityConfigured(sec, calls)
  PROVE  SecurityConfigured(set_security(sec, call), Append(calls, call))
<1>1. sec.integrity \in Algorithm /\ sec.ciphering \in Algorithm
  BY DEF Security
<1>2. Configured(Reconfigure(sec.integrity, call["integrity"]), Append(calls, call), "integrity")
  BY <1>1, ReconfigureFollows DEF SecurityConfigured, What
<1>3. Configured(Reconfigure(sec.ciphering, call["ciphering"]), Append(calls, call), "ciphering")
  BY <1>1, ReconfigureFollows DEF SecurityConfigured, What
<1> QED BY <1>2, <1>3 DEF SecurityConfigured, set_security

\* A new entity is configured as its creation asks for.
LEMMA CreatedConfigured ==
  ASSUME NEW call \in Calls
  PROVE  SecurityConfigured(set_security(ZeroSecurity, call), <<call>>)
<1>1. <<>> \in Seq(Calls) /\ Append(<<>>, call) = <<call>>
  OBVIOUS
<1>2. ZeroSecurity \in Security
  BY DataAssumption DEF ZeroSecurity, Security, Algorithm
<1>3. \A what : Naming(<<>>, what) = {} /\ Giving(<<>>, what, 0) = {}
  BY DEF Naming, Giving
<1>4. \A what : KeyInForce(<<>>, what) = NoKey /\ KeyGiven(<<>>, what, 0) = ZeroKey
  BY <1>3, KeyInForceIs DEF KeyGiven
<1>5. SecurityConfigured(ZeroSecurity, <<>>)
  BY <1>4 DEF SecurityConfigured, Configured, ZeroSecurity
<1>6. SecurityConfigured(set_security(ZeroSecurity, call), Append(<<>>, call))
  BY <1>1, <1>2, <1>5, SetSecurityFollows
<1> QED BY <1>1, <1>6

\* The contexts in use are the keys in force.
LEMMA ContextsInForce ==
  ASSUME NEW sec, NEW calls, SecurityConfigured(sec, calls)
  PROVE  /\ InForce(calls) = <<ContextOf(sec.integrity), ContextOf(sec.ciphering)>>
         /\ sec.integrity.active = (ContextOf(sec.integrity) # NoKey)
         /\ sec.integrity.active => ContextOf(sec.integrity) = sec.integrity.context
BY DEF SecurityConfigured, Configured, InForce, ContextOf

\* recv_pdu of a PDU sent under the keys in force here and numbered alike yields the payload.
LEMMA NewSduGenuine ==
  ASSUME NEW p \in Pdu, SecurityConfigured(rx_sec, rx_calls), ProtectedBy(p, p.in_force),
         NewSdu(p, p.count).same_keys
  PROVE  NewSdu(p, p.count).intact /\ NewSdu(p, p.count).verified
<1>1. p.ik = ContextOf(rx_sec.integrity) /\ p.ck = ContextOf(rx_sec.ciphering)
  <2>1. InForce(rx_calls) = <<ContextOf(rx_sec.integrity), ContextOf(rx_sec.ciphering)>>
    BY ContextsInForce
  <2>2. p.in_force = InForce(rx_calls)
    BY DEF NewSdu
  <2>3. p.in_force = <<p.ik, p.ck>>
    BY DEF ProtectedBy
  <2> QED BY <2>1, <2>2, <2>3
<1>2. rx_sec.integrity.active = (p.ik # NoKey) /\ (rx_sec.integrity.active => p.ik = rx_sec.integrity.context)
  BY <1>1, ContextsInForce
<1>3. p.maci = IntegritySize(rx_sec)
  BY <1>2 DEF IntegritySize, ProtectedBy
<1>4. Deciphered(p, p.count)
  BY <1>1 DEF Deciphered
<1>5. rx_sec.integrity.active => MacMatches(p, p.count)
  BY <1>2, <1>3, <1>4 DEF MacMatches, IntegritySize
<1> QED BY <1>3, <1>4, <1>5 DEF NewSdu

\* The delivery loops only move SDUs from the list to the upper layer.
LEMMA DeliverKeepsGenuine ==
  ASSUME delivered \in Seq(Sdu), Genuine(delivered), NEW l \in Seq(Sdu), Genuine(l),
         NEW n \in 0..Len(l), Deliver(l, n)
  PROVE  Genuine(rx_list') /\ Genuine(delivered')
<1>0. Len(l) \in Nat /\ Len(delivered) \in Nat
  OBVIOUS
<1>1. Genuine(rx_list')
  <2> SUFFICES ASSUME NEW i \in 1..Len(rx_list'), rx_list'[i].same_keys PROVE rx_list'[i].intact /\ rx_list'[i].verified
    BY DEF Genuine
  <2>1. i \in 1..(Len(l) - n) /\ rx_list'[i] = l[n + i]
    BY Suffix DEF Deliver
  <2>2. n + i \in 1..Len(l)
    BY <1>0, <2>1
  <2> QED BY <2>1, <2>2 DEF Genuine
<1>2. Genuine(delivered')
  <2> SUFFICES ASSUME NEW i \in 1..Len(delivered'), delivered'[i].same_keys
               PROVE  delivered'[i].intact /\ delivered'[i].verified
    BY DEF Genuine
  <2> DEFINE a == SubSeq(l, 1, n)
  <2>1. a \in Seq(Sdu) /\ Len(a) = n /\ \A j \in 1..n : a[j] = l[j]
    BY Prefix
  <2>2. delivered' = delivered \o a
    BY DEF Deliver
  <2> HIDE DEF a
  <2>3. i \in 1..(Len(delivered) + n)
        /\ delivered'[i] = IF i <= Len(delivered) THEN delivered[i] ELSE a[i - Len(delivered)]
    BY <2>1, <2>2, Concatenation
  <2>4. CASE i <= Len(delivered)
    BY <2>3, <2>4, <1>0 DEF Genuine
  <2>5. CASE i > Len(delivered)
    <3>1. i - Len(delivered) \in 1..n /\ i - Len(delivered) \in 1..Len(l)
      BY <2>3, <2>5, <1>0
    <3>2. delivered'[i] = l[i - Len(delivered)]
      BY <3>1, <2>1, <2>3, <2>5, <1>0
    <3> QED BY <3>1, <3>2 DEF Genuine
  <2> QED BY <2>3, <2>4, <2>5, <1>0
<1> QED BY <1>1, <1>2

\* Whatever the calls of set_security on either node, an SDU received under the keys it was sent
\* under reaches the upper layer as it was sent and passes the integrity check, across every SN
\* wrap-around within the reordering window.
THEOREM IntactDelivery ==
  ASSUME Reach <= WindowSize
  PROVE  Spec => []DeliveredIntact
<1>1. Init => IntactInv
  BY CreatedConfigured DEF Init, IntactInv, Genuine
<1>2. BearerInv /\ IntactInv /\ [Next]_vars => IntactInv'
  <2> SUFFICES ASSUME BearerInv, IntactInv, [Next]_vars PROVE IntactInv'
    OBVIOUS
  <2>0. /\ rx_list \in Seq(Sdu) /\ delivered \in Seq(Sdu) /\ pdus \subseteq Pdu
        /\ tx_sec \in Security /\ rx_sec \in Security /\ tx_calls \in Seq(Calls) /\ rx_calls \in Seq(Calls)
    BY DEF BearerInv, TypeOK
  <2>3. /\ SecurityConfigured(tx_sec, tx_calls) /\ SecurityConfigured(rx_sec, rx_calls)
        /\ Genuine(rx_list) /\ Genuine(delivered) /\ \A p \in pdus : ProtectedBy(p, p.in_force)
    BY DEF IntactInv
  <2>1. ASSUME NEW call \in Calls, ConfigSecurity(call) PROVE IntactInv'
    <3>1. SecurityConfigured(tx_sec, tx_calls)' /\ SecurityConfigured(rx_sec, rx_calls)'
      <4>1. /\ SecurityConfigured(set_security(tx_sec, call), Append(tx_calls, call))
            /\ SecurityConfigured(set_security(rx_sec, call), Append(rx_calls, call))
        BY <2>0, <2>3, SetSecurityFollows
      <4> QED BY <2>1, <2>3, <4>1 DEF ConfigSecurity
    <3>2. pdus' = pdus /\ rx_list' = rx_list /\ delivered' = delivered
      BY <2>1 DEF ConfigSecurity, rxCounters
    <3> QED BY <2>3, <3>1, <3>2 DEF IntactInv
  <2>4. ASSUME UNCHANGED rxCounters PROVE Genuine(rx_list') /\ Genuine(delivered')
    BY <2>3, <2>4 DEF rxCounters
  <2>5. ASSUME UNCHANGED <<pdus, tx_sec, tx_calls, rx_sec, rx_calls>>, Genuine(rx_list'), Genuine(delivered')
        PROVE  IntactInv'
    BY <2>3, <2>5 DEF IntactInv
  <2>6. ASSUME NEW len \in Lens, recv_sdu(len) PROVE IntactInv'
    <3>1. InForce(tx_calls) = <<ContextOf(tx_sec.integrity), ContextOf(tx_sec.ciphering)>>
          /\ tx_sec.integrity.active = (ContextOf(tx_sec.integrity) # NoKey)
      BY <2>3, ContextsInForce
    <3>2. \A p \in pdus' : ProtectedBy(p, p.in_force)
      <4> DEFINE new == [sn |-> tx_next % SnCount, count |-> tx_next, len |-> len,
                         maci |-> IntegritySize(tx_sec),
                         ck |-> ContextOf(tx_sec.ciphering), ik |-> ContextOf(tx_sec.integrity),
                         in_force |-> InForce(tx_calls)]
      <4>1. pdus' = pdus \cup {new}
        BY <2>6 DEF recv_sdu
      <4>2. ProtectedBy(new, new.in_force)
        BY <3>1 DEF ProtectedBy, IntegritySize
      <4> HIDE DEF new
      <4> QED BY <2>3, <4>1, <4>2
    <3>3. UNCHANGED <<tx_sec, tx_calls, rx_sec, rx_calls>> /\ UNCHANGED rxCounters
      BY <2>6 DEF recv_sdu
    <3> QED BY <2>3, <2>4, <3>2, <3>3 DEF IntactInv
  <2>7. ASSUME NEW p \in pdus, recv_pdu(p) PROVE Genuine(rx_list') /\ Genuine(delivered')
    <3>1. ASSUME NEW k \in 0..Len(rx_list), NEW n \in 0..(Len(rx_list) + 1), Accept(p, k, n)
          PROVE  Genuine(rx_list') /\ Genuine(delivered')
      <4> DEFINE e == NewSdu(p, p.count)
                 l == ListAdd(rx_list, k, e)
      <4>1. p \in Pdu /\ p.count \in Nat /\ RcvdCount(p.sn) = p.count
        BY <2>0, <2>7, CountInferred DEF recv_pdu, Pdu
      <4>2. e \in Sdu /\ (e.same_keys => e.intact /\ e.verified)
        BY <4>1, <2>3, NewSduType, NewSduGenuine
      <4>3. Deliver(l, n)
        BY <3>1, <4>1 DEF Accept
      <4> HIDE DEF e
      <4>4. Insertion(Sdu, l, rx_list, k, e)
        BY <2>0, <4>2, ListAddParts
      <4> HIDE DEF l
      <4>5. Genuine(l)
        <5> SUFFICES ASSUME NEW i \in 1..Len(l), l[i].same_keys PROVE l[i].intact /\ l[i].verified
          BY DEF Genuine
        <5>1. CASE i \in 1..k
          BY <5>1, <4>4, <2>3 DEF Insertion, Genuine
        <5>2. CASE i = k + 1
          BY <5>2, <4>4, <4>2 DEF Insertion
        <5>3. CASE i \in (k + 2)..Len(l)
          <6>1. i - 1 \in 1..Len(rx_list) /\ l[i] = rx_list[i - 1]
            BY <5>3, <4>4, <2>0 DEF Insertion
          <6> QED BY <6>1, <2>3 DEF Genuine
        <5> QED BY <5>1, <5>2, <5>3, <4>4 DEF Insertion
      <4>6. l \in Seq(Sdu) /\ n \in 0..Len(l)
        BY <4>4, <2>0 DEF Insertion
      <4> QED BY <4>3, <4>5, <4>6, <2>0, <2>3, DeliverKeepsGenuine
    <3> QED BY <3>1, <2>4, <2>7 DEF recv_pdu
  <2>8. ASSUME NEW now, set_time(now) PROVE Genuine(rx_list') /\ Genuine(delivered')
    <3>1. ASSUME NEW m \in 0..Len(rx_list), NEW n \in 0..(Len(rx_list) - m), ReorderingExpiry(now, m, n)
          PROVE  Genuine(rx_list') /\ Genuine(delivered')
      <4>1. m + n \in 0..Len(rx_list) /\ Deliver(rx_list, m + n)
        BY <2>0, <3>1 DEF ReorderingExpiry
      <4> QED BY <4>1, <2>0, <2>3, DeliverKeepsGenuine
    <3> QED BY <3>1, <2>4, <2>8 DEF set_time
  <2>9. CASE UNCHANGED vars
    BY <2>4, <2>5, <2>9 DEF vars
  <2>10. ASSUME NEW p \in pdus, recv_pdu(p) PROVE IntactInv'
    BY <2>5, <2>7, <2>10 DEF recv_pdu
  <2>11. ASSUME NEW now, set_time(now) PROVE IntactInv'
    BY <2>5, <2>8, <2>11 DEF set_time
  <2> QED BY <2>1, <2>6, <2>9, <2>10, <2>11 DEF Next
<1>3. IntactInv => DeliveredIntact
  BY DEF IntactInv, DeliveredIntact, Genuine
<1> QED BY <1>1, <1>2, <1>3, BearerInvariance, PTL DEF Spec

---------------------------------------------------------------------------
(* t-Reordering.  While a gap is open, t_reordering_start is the time of   *)
(* the last activation, so the next tick past t_reordering expires it.     *)

GapTimed ==
  rx_deliv < rx_next /\ armed_at > 0 =>
    t_reordering_start = armed_at /\ t_current <= armed_at + TReordering

\* Within the range of int, t_reordering_start holds the millisecond itself.
LEMMA ToIntSmall ==
  ASSUME NEW t \in Nat, t < IntHalf
  PROVE  ToInt(t) = t
<1>1. 2 * IntHalf \in Nat \ {0} /\ t < 2 * IntHalf /\ IntHalf \in Nat
  BY TimerAssumption
<1>2. t % (2 * IntHalf) = t
  BY <1>1, ModSmall
<1> QED BY <1>1, <1>2 DEF ToInt

\* No SDU waits behind a gap longer than t_reordering after the timer was started for it, as
\* long as t_reordering_start + t_reordering stays within an int.
THEOREM GapsExpire ==
  ASSUME Reach <= WindowSize, MaxTime + TReordering < IntHalf
  PROVE  Spec => []NoOverdueGap
<1>1. Init => GapTimed
  BY DEF Init, GapTimed
<1>2. TReordering # -1 /\ BearerInv /\ GapTimed /\ [Next]_vars => GapTimed'
  <2> SUFFICES ASSUME TReordering # -1, BearerInv, GapTimed, [Next]_vars PROVE GapTimed'
    OBVIOUS
  <2>0. /\ TReordering \in Nat /\ MaxTime \in Nat /\ IntHalf \in Nat /\ MaxTime < IntHalf
        /\ t_current \in Nat /\ t_current <= MaxTime /\ armed_at \in Nat /\ armed_at <= MaxTime
        /\ rx_deliv \in Nat /\ rx_next \in Nat /\ rx_reord \in Nat
        /\ (t_reordering_start # 0 => rx_deliv < rx_next)
    BY ConstantFacts, TimerAssumption, BoundAssumption DEF BearerInv, TypeOK, WindowOrdered
  <2>1. ASSUME UNCHANGED rxCounters, t_current' = t_current PROVE GapTimed'
    BY <2>1 DEF rxCounters, GapTimed
  <2>2. ASSUME NEW p \in pdus, recv_pdu(p) PROVE GapTimed'
    <3>1. t_current' = t_current /\ ToInt(t_current) = t_current
      BY <2>0, <2>2, ToIntSmall DEF recv_pdu
    <3>2. ASSUME NEW k, NEW n, Accept(p, k, n) PROVE GapTimed'
      BY <2>0, <3>1, <3>2 DEF Accept, StopOrStartTimer, StartTimer, GapTimed
    <3> QED BY <2>1, <2>2, <3>1, <3>2 DEF recv_pdu
  <2>3. ASSUME NEW now \in (t_current + 1)..(t_current + MaxTick), now <= MaxTime, set_time(now)
        PROVE  GapTimed'
    <3>1. now \in Nat /\ t_current' = now /\ ToInt(now) = now
      BY <2>0, <2>3, ToIntSmall, BoundAssumption DEF set_time
    <3>2. ASSUME NEW m, NEW n, ReorderingExpiry(now, m, n) PROVE GapTimed'
      BY <2>0, <3>1, <3>2 DEF ReorderingExpiry, StartTimer, GapTimed
    <3>3. ASSUME NEW sum \in TimerSums, ~TimerExpired(now, sum), UNCHANGED rxCounters PROVE GapTimed'
      <4> SUFFICES ASSUME rx_deliv < rx_next, armed_at > 0
                   PROVE  t_reordering_start = armed_at /\ now <= armed_at + TReordering
        BY <3>1, <3>3 DEF GapTimed, rxCounters
      <4>1. t_reordering_start = armed_at /\ armed_at + TReordering < IntHalf
        BY <2>0 DEF GapTimed
      <4>2. sum = armed_at + TReordering
        BY <3>3, <4>1, <2>0 DEF TimerSums
      <4> QED BY <2>0, <3>1, <3>3, <4>1, <4>2 DEF TimerExpired
    <3> QED BY <2>3, <3>2, <3>3 DEF set_time
  <2>4. ASSUME NEW len \in Lens, recv_sdu(len) PROVE GapTimed'
    BY <2>1, <2>4 DEF recv_sdu
  <2>5. ASSUME NEW call, ConfigSecurity(call) PROVE GapTimed'
    BY <2>1, <2>5 DEF ConfigSecurity
  <2>6. CASE UNCHANGED vars
    BY <2>1, <2>6 DEF vars
  <2> QED BY <2>2, <2>3, <2>4, <2>5, <2>6 DEF Next
<1>3. (TReordering # -1 => GapTimed) => NoOverdueGap
  BY DEF GapTimed, NoOverdueGap
<1>4. CASE TReordering = -1
  <2>1. NoOverdueGap
    BY <1>4 DEF NoOverdueGap
  <2> QED BY <2>1, PTL
<1>5. CASE TReordering # -1
  <2>1. BearerInv /\ GapTimed /\ [Next]_vars => GapTimed'
    BY <1>2, <1>5
  <2>2. GapTimed => NoOverdueGap
    BY <1>3
  <2> QED BY <1>1, <2>1, <2>2, BearerInvariance, PTL DEF Spec
<1> QED BY <1>4, <1>5
=============================================================================
