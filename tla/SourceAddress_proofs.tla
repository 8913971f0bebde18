----------------------- MODULE SourceAddress_proofs -----------------------
(***************************************************************************)
(* Theorems of SourceAddress, for any settings of a target, any addresses  *)
(* of clients and any payloads. First the addresses, by an invariant of    *)
(* the settings; then the octets of the packets, by what the operators of  *)
(* RawPacket compute: a sum of words may be taken part by part, folding it *)
(* keeps it modulo 65535, so the complement makes all ones of it.          *)
(***************************************************************************)
EXTENDS SourceAddress, WellFoundedInduction, SequenceTheorems, TLAPS

(* A packet that was sent carries the source that the settings, and they   *)
(* alone, give to its client.                                              *)
Delivered(d) ==
  /\ d.client \in Clients
  /\ IF mode.kind = "standard" THEN d.source = None
     ELSE /\ SourceOf(d.client) # None
          /\ ~(Family(SourceOf(d.client)) = "v6" /\ conf.family = "v4")
          /\ d.source = SentSource(SourceOf(d.client))

(* The inductive invariant: the settings never change, have been accepted  *)
(* by validation before anything is built from them, and what is built     *)
(* belongs to them.                                                        *)
IInv ==
  /\ conf \in Settings
  /\ stage \in {"read", "accepted", "rejected", "ready", "failed"}
  /\ stage \in {"accepted", "ready"} => Accepts(conf)
  /\ stage = "ready" => mode = ModeOf(conf) /\ raw = RawFamily(conf)
  /\ stage # "ready" => result = None /\ delivered = {} /\ packet = None
  /\ result \in Results \cup {None}
  /\ \A d \in delivered : Delivered(d)
  /\ packet # None => result = "sent" /\ raw = conf.family
  /\ NeverMismatched

LEMMA AddressFacts ==
  /\ \A a \in Clients : /\ a = <<a[1], a[2]>> /\ a[1] \in Forms /\ a # None
                        /\ <<"v4", a[2]>> # None /\ <<"nat64", a[2]>> # None
  /\ \A a \in Configured : /\ a = <<a[1], a[2]>> /\ a[1] \in Forms /\ a # None
                           /\ <<"nat64", a[2]>> # None
BY AddressAssumption DEF Forms

(* The mode of accepted settings: preserve with an IPv4 fallback or none,  *)
(* or a fake source that suits the target.                                 *)
LEMMA ModeFacts ==
  ASSUME NEW c \in Settings, Accepts(c)
  PROVE  /\ ModeOf(c).kind \in {"standard", "preserve", "fake"}
         /\ ModeOf(c).address \in Configured \cup {None}
         /\ ModeOf(c).kind = "preserve" <=> c.preserve
         /\ ModeOf(c).kind = "preserve" =>
              /\ ModeOf(c).address = c.fallback
              /\ c.fallback # None => Family(c.fallback) = "v4"
         /\ ModeOf(c).kind = "fake" =>
              /\ ModeOf(c).address = c.source /\ c.source \in Configured
              /\ c.source # None
              /\ ~(Family(c.source) = "v6" /\ c.family = "v4")
         /\ RawFamily(c) = IF ModeOf(c).kind = "standard" THEN None ELSE c.family
<1>1. CASE c.preserve
  BY <1>1 DEF Settings, Accepts, ModeOf, RawFamily
<1>2. CASE ~c.preserve /\ c.source # None
  BY <1>2 DEF Settings, Accepts, ModeOf, RawFamily
<1>3. CASE ~c.preserve /\ c.source = None
  BY <1>3 DEF Settings, Accepts, ModeOf, RawFamily
<1> QED
  BY <1>1, <1>2, <1>3

(* Once the target is built, the raw socket refuses no source; and a       *)
(* client has none only behind an IPv4 target without a fallback.          *)
LEMMA SourceFacts ==
  ASSUME IInv, stage = "ready", mode.kind # "standard", NEW a \in Clients
  PROVE  /\ SourceOf(a) # None => ~Mismatch(SourceOf(a))
         /\ SourceOf(a) = None =>
              conf.preserve /\ conf.family = "v4" /\ conf.fallback = None
<1>1. /\ conf \in Settings /\ Accepts(conf) /\ mode = ModeOf(conf)
      /\ raw = conf.family /\ conf.family \in {"v4", "v6"}
  BY ModeFacts DEF IInv, Settings
<1>2. CASE mode.kind = "fake"
  BY <1>1, <1>2, ModeFacts DEF SourceOf, Mismatch
<1>3. CASE mode.kind = "preserve"
  <2>1. SourceOf(a) = EffectiveSource(a)
    BY <1>3 DEF SourceOf
  <2>2. CASE Family(RealSource(a)) = "v6" /\ conf.family = "v4"
    <3>1. SourceOf(a) = conf.fallback
      BY <1>1, <1>3, <2>1, <2>2, ModeFacts DEF EffectiveSource
    <3>2. CASE conf.fallback # None
      BY <1>1, <1>3, <3>1, <3>2, ModeFacts DEF Mismatch
    <3>3. CASE conf.fallback = None
      <4>1. conf.preserve /\ conf.family = "v4"
        BY <1>1, <1>3, <2>2, ModeFacts
      <4> QED
        BY <3>1, <3>3, <4>1
    <3> QED
      BY <3>2, <3>3
  <2>3. CASE ~(Family(RealSource(a)) = "v6" /\ conf.family = "v4")
    <3>1. SourceOf(a) = RealSource(a) /\ RealSource(a) # None
      BY <2>1, <2>3, AddressFacts DEF EffectiveSource, RealSource, HostOf
    <3> QED
      BY <1>1, <2>3, <3>1 DEF Mismatch
  <2> QED
    BY <2>2, <2>3
<1> QED
  BY <1>1, <1>2, <1>3, ModeFacts

-----------------------------------------------------------------------------
LEMMA InitIInv == Init => IInv
BY NoneAssumption DEF Init, IInv, NeverMismatched, Results

(* What is known of a packet that was sent stays known. *)
LEMMA DeliveredStays ==
  ASSUME UNCHANGED <<conf, mode>>, NEW d, Delivered(d)
  PROVE  Delivered(d)'
BY DEF Delivered, SourceOf, EffectiveSource, RealSource, SentSource, BuiltSource,
       Family, HostOf

(* A step that sends nothing. *)
LEMMA Quiet ==
  ASSUME IInv, stage = "ready", UNCHANGED <<conf, stage, mode, raw, delivered>>,
         packet' = None, result' \in {"skipped", "failed"}
  PROVE  IInv'
<1>1. \A d \in delivered' : Delivered(d)'
  BY DeliveredStays DEF IInv
<1>2. NeverMismatched'
  BY DEF NeverMismatched
<1> QED
  BY <1>1, <1>2 DEF IInv, ModeOf, RawFamily, Accepts, Settings, Results

(* A standard mirror sends from the host's own address. *)
LEMMA StandardInv ==
  ASSUME IInv, NEW a \in Clients, SendStandard(a)
  PROVE  IInv'
<1>1. /\ stage = "ready" /\ mode.kind = "standard" /\ result' = "sent" /\ packet' = None
      /\ delivered' = delivered \cup {[client |-> a, source |-> None]}
      /\ UNCHANGED <<conf, stage, mode, raw>>
  BY DEF SendStandard, Sends
<1>2. Delivered([client |-> a, source |-> None])
  BY <1>1 DEF Delivered
<1>3. \A d \in delivered' : Delivered(d)'
  BY <1>1, <1>2, DeliveredStays DEF IInv
<1>4. NeverMismatched'
  BY <1>1 DEF NeverMismatched
<1> QED
  BY <1>1, <1>3, <1>4 DEF IInv, ModeOf, RawFamily, Accepts, Settings, Results

(* The other modes send from the source of the client, or not at all. *)
LEMMA RawInv ==
  ASSUME IInv, NEW a \in Clients, NEW payload, SendRaw(a, payload)
  PROVE  IInv'
<1> DEFINE src == SourceOf(a)
<1>1. /\ stage = "ready" /\ mode.kind # "standard"
      /\ UNCHANGED <<conf, stage, mode, raw>>
  BY DEF SendRaw, Sends
<1>2. raw = conf.family
  BY <1>1, ModeFacts DEF IInv
<1>3. CASE src = None /\ result' = "no_fallback" /\ packet' = None /\ UNCHANGED delivered
  <2>1. \A d \in delivered' : Delivered(d)'
    BY <1>1, <1>3, DeliveredStays DEF IInv
  <2>2. NeverMismatched'
    BY <1>1, <1>3, SourceFacts DEF NeverMismatched
  <2> QED
    BY <1>1, <1>3, <2>1, <2>2 DEF IInv, ModeOf, RawFamily, Accepts, Settings, Results
<1>4. CASE src # None /\ Mismatch(src)
  BY <1>1, <1>4, SourceFacts
<1>5. CASE /\ src # None /\ ~Mismatch(src) /\ result' = "sent"
           /\ delivered' = delivered \cup {[client |-> a, source |-> SentSource(src)]}
  <2>1. Delivered([client |-> a, source |-> SentSource(src)])
    BY <1>1, <1>5 DEF Delivered, Mismatch
  <2>2. \A d \in delivered' : Delivered(d)'
    BY <1>1, <1>5, <2>1, DeliveredStays DEF IInv
  <2>3. NeverMismatched'
    BY <1>5 DEF NeverMismatched
  <2> QED
    BY <1>1, <1>2, <1>5, <2>2, <2>3 DEF IInv, ModeOf, RawFamily, Accepts, Settings, Results
<1> QED
  BY <1>3, <1>4, <1>5 DEF SendRaw

LEMMA StepIInv ==
  ASSUME IInv, [Next]_vars
  PROVE  IInv'
<1>1. CASE Validate
  <2>1. /\ stage = "read" /\ UNCHANGED <<conf, mode, raw, result, delivered, packet>>
        /\ stage' \in {"accepted", "rejected"}
        /\ stage' = "accepted" => Accepts(conf)
    BY <1>1 DEF Validate
  <2> QED
    BY <2>1 DEF IInv, Accepts, Settings, NeverMismatched
<1>2. CASE Build
  <2>1. /\ stage = "accepted" /\ UNCHANGED <<conf, result, delivered, packet>>
        /\ stage' \in {"ready", "failed"}
        /\ stage' = "ready" => mode' = ModeOf(conf) /\ raw' = RawFamily(conf)
    BY <1>2 DEF Build
  <2> QED
    BY <2>1 DEF IInv, Accepts, Settings, ModeOf, RawFamily, NeverMismatched
<1>3. CASE \E a \in Clients : Skip(a) \/ SendFails(a)
  BY <1>3, Quiet DEF Skip, SendFails, Sends
<1>4. CASE UNCHANGED vars
  <2>1. \A d \in delivered' : Delivered(d)'
    BY <1>4, DeliveredStays DEF vars, IInv
  <2> QED
    BY <1>4, <2>1 DEF vars, IInv, Accepts, Settings, ModeOf, RawFamily, NeverMismatched
<1> QED
  BY <1>1, <1>2, <1>3, <1>4, StandardInv, RawInv DEF Next

THEOREM Inductive == Spec => []IInv
BY InitIInv, StepIInv, PTL DEF Spec

-----------------------------------------------------------------------------
(* Types of every reachable state; and the raw socket of a target is the   *)
(* one its mode needs, so that send never lacks it.                        *)
THEOREM TypeCorrect == Spec => []TypeOK
<1>1. ASSUME IInv, stage = "ready"
      PROVE  /\ mode.kind \in {"standard", "preserve", "fake"}
             /\ mode.address \in Configured \cup {None}
             /\ raw = IF mode.kind = "standard" THEN None ELSE conf.family
  BY <1>1, ModeFacts DEF IInv
<1>2. ASSUME IInv, NEW d \in delivered
      PROVE  d.client \in Clients /\ (d.source = None \/ d.source[1] \in Forms)
  <2>1. Delivered(d) /\ stage = "ready"
    BY <1>2 DEF IInv
  <2>2. CASE mode.kind = "standard"
    BY <2>1, <2>2 DEF Delivered
  <2>3. CASE mode.kind # "standard"
    <3> DEFINE src == SourceOf(d.client)
    <3>1. d.client \in Clients /\ src # None /\ d.source = SentSource(src)
      BY <2>1, <2>3 DEF Delivered
    <3>2. /\ mode.address # None => mode.address[1] \in Forms
          /\ RealSource(d.client)[1] \in Forms
      BY <1>1, <1>2, <2>1, <3>1, AddressFacts DEF RealSource, Forms
    <3>3. src[1] \in Forms
      BY <3>1, <3>2 DEF SourceOf, EffectiveSource
    <3> QED
      BY <3>1, <3>3 DEF SentSource, BuiltSource, Nat64, Forms
  <2> QED
    BY <2>2, <2>3
<1>3. IInv => TypeOK
  <2> SUFFICES ASSUME IInv PROVE TypeOK
    OBVIOUS
  <2>1. /\ stage \in {"read", "accepted", "rejected", "ready", "failed"}
        /\ result \in Results \cup {None}
        /\ packet # None => result = "sent" /\ raw = conf.family
    BY DEF IInv
  <2> QED
    BY <1>1, <1>2, <2>1 DEF TypeOK
<1> QED
  BY <1>3, Inductive, PTL

(* raw_socket.rs:130 and config.rs:316-340: a target whose settings passed *)
(* validation never has the raw socket refuse a pair of families, for any  *)
(* client and any configured addresses; and a send is left without a       *)
(* source only for an IPv6 client of an IPv4 target without a fallback.    *)
THEOREM NeverRefused == Spec => []NeverMismatched
<1>1. IInv => NeverMismatched
  BY DEF IInv
<1> QED
  BY <1>1, Inductive, PTL

(* The source of a packet that preserve mode has sent to an IPv4 target. *)
LEMMA PreservedSource ==
  ASSUME IInv, NEW d \in delivered, conf.preserve, conf.family = "v4"
  PROVE  /\ d.client \in Clients
         /\ d.source = EffectiveSource(d.client) /\ d.source # None
         /\ mode.address = conf.fallback
<1>1. stage = "ready" /\ Delivered(d) /\ Accepts(conf) /\ conf \in Settings
  BY DEF IInv
<1>2. mode = ModeOf(conf) /\ mode.kind = "preserve"
  BY <1>1, ModeFacts DEF IInv
<1>3. SourceOf(d.client) = EffectiveSource(d.client)
  BY <1>2 DEF SourceOf
<1> QED
  BY <1>1, <1>2, <1>3, ModeFacts DEF Delivered, SentSource, BuiltSource

(* README, "Dual-Stack Support": the source an IPv4 target sees is the one *)
(* the table gives, whatever is sent: the client's, in whichever form the  *)
(* listener reports it, or for an IPv6 client the fallback.                *)
THEOREM Documented == Spec => []AsDocumented
<1>1. ASSUME IInv, NEW d \in delivered, conf.preserve, conf.family = "v4"
      PROVE  IF d.client[1] \in {"v4", "mapped"}
             THEN d.source = <<"v4", HostOf(d.client)>>
             ELSE d.source = conf.fallback /\ d.source # None
  <2> DEFINE a == d.client
  <2>1. /\ a = <<a[1], a[2]>> /\ a[1] \in Forms
        /\ d.source = EffectiveSource(a) /\ d.source # None
        /\ mode.address = conf.fallback
    BY <1>1, PreservedSource, AddressFacts
  <2>2. CASE a[1] \in {"v4", "mapped"}
    <3>1. RealSource(a) = <<"v4", a[2]>>
      BY <2>1, <2>2 DEF RealSource, HostOf
    <3>2. EffectiveSource(a) = <<"v4", a[2]>>
      BY <3>1 DEF EffectiveSource, Family
    <3> QED
      BY <2>1, <2>2, <3>2 DEF HostOf
  <2>3. CASE a[1] \in {"nat64", "v6"}
    <3>1. RealSource(a) = a /\ Family(a) = "v6"
      BY <2>3 DEF RealSource, Family
    <3>2. EffectiveSource(a) = conf.fallback
      BY <1>1, <2>1, <3>1 DEF EffectiveSource
    <3> QED
      BY <2>1, <2>3, <3>2
  <2> QED
    BY <2>1, <2>2, <2>3 DEF Forms
<1>2. IInv => AsDocumented
  BY <1>1 DEF AsDocumented
<1> QED
  BY <1>2, Inductive, PTL


-----------------------------------------------------------------------------
(* RawPacket computes with recursive functions. The library's induction    *)
(* theorems take an operator, so induction is over sets of numbers here,   *)
(* from the well-founded order of the naturals.                            *)
LEMMA Least ==
  ASSUME NEW U, U \subseteq Nat, U # {}
  PROVE  \E m \in U : \A y \in U : m <= y
<1> DEFINE Less == OpToRel(<, Nat)
<1>1. \A x, y \in Nat : x < y => <<x, y>> \in Less
  BY DEF OpToRel
<1>2. IsWellFoundedOn(Less, Nat)
  BY NatLessThanWellFounded
<1> HIDE DEF Less
<1>3. PICK m \in U : \A y \in U : ~(<<y, m>> \in Less)
  BY <1>2, WFMin
<1>4. ASSUME NEW y \in U
      PROVE  m <= y
  <2>1. m \in Nat /\ y \in Nat
    OBVIOUS
  <2>2. ~(y < m)
    BY <1>1, <1>3, <2>1
  <2> QED
    BY <2>1, <2>2
<1> QED
  BY <1>4

(* A set with 0 and every successor holds every number. *)
LEMMA SetInduction ==
  ASSUME NEW T, 0 \in T, \A n \in T \cap Nat : n + 1 \in T
  PROVE  Nat \subseteq T
<1> SUFFICES ASSUME Nat \ T # {} PROVE FALSE
  OBVIOUS
<1>1. PICK m \in Nat \ T : \A y \in Nat \ T : m <= y
  BY Least
<1>2. m # 0 /\ m - 1 \in Nat /\ m - 1 < m
  BY <1>1
<1>3. m - 1 \in T
  BY <1>1, <1>2
<1>4. m - 1 \in T \cap Nat /\ (m - 1) + 1 = m
  BY <1>2, <1>3
<1>5. (m - 1) + 1 \in T
  BY <1>4
<1> QED
  BY <1>4, <1>5

-----------------------------------------------------------------------------
(* Sums. The recursion obeys its definition. *)
SumStep(q, g, n) == IF n = 0 THEN 0 ELSE g[n - 1] + q[n]

LEMMA SumUpToDef ==
  ASSUME NEW q \in Seq(Nat)
  PROVE  \A n \in 0 .. Len(q) : SumUpTo(q)[n] = SumStep(q, SumUpTo(q), n)
<1> DEFINE T == {m \in Nat : \E g : g = [n \in 0 .. m |-> SumStep(q, g, n)]}
<1>1. 0 \in T
  <2> DEFINE g == [n \in 0 .. 0 |-> 0]
  <2>1. g = [n \in 0 .. 0 |-> SumStep(q, g, n)]
    BY DEF SumStep
  <2> QED
    BY <2>1
<1>2. ASSUME NEW m \in T \cap Nat
      PROVE  m + 1 \in T
  <2>1. PICK g : g = [n \in 0 .. m |-> SumStep(q, g, n)]
    OBVIOUS
  <2> DEFINE h == [n \in 0 .. (m + 1) |-> IF n <= m THEN g[n] ELSE SumStep(q, g, n)]
  <2>2. ASSUME NEW n \in 0 .. (m + 1)
        PROVE  h[n] = SumStep(q, h, n)
    <3>1. h[n] = SumStep(q, g, n)
      <4>1. CASE n <= m
        <5>1. n \in 0 .. m
          BY <4>1
        <5>2. g[n] = SumStep(q, g, n)
          BY <2>1, <5>1
        <5> QED
          BY <4>1, <5>2
      <4>2. CASE ~(n <= m)
        BY <4>2
      <4> QED
        BY <4>1, <4>2
    <3>2. CASE n = 0
      BY <3>1, <3>2 DEF SumStep
    <3>3. CASE n # 0
      <4>1. n - 1 \in 0 .. (m + 1) /\ n - 1 <= m
        BY <3>3
      <4>2. h[n - 1] = g[n - 1]
        BY <4>1
      <4> HIDE DEF h
      <4> QED
        BY <3>1, <3>3, <4>2 DEF SumStep
    <3> QED
      BY <3>2, <3>3
  <2>3. h = [n \in 0 .. (m + 1) |-> h[n]]
    OBVIOUS
  <2> HIDE DEF h
  <2>4. h = [n \in 0 .. (m + 1) |-> SumStep(q, h, n)]
    BY <2>2, <2>3
  <2> QED
    BY <2>4
<1>3. PICK g : g = [n \in 0 .. Len(q) |-> SumStep(q, g, n)]
  <2> HIDE DEF T
  <2>1. Len(q) \in T
    BY <1>1, <1>2, SetInduction
  <2> QED
    BY <2>1 DEF T
<1>4. g = [n \in 0 .. Len(q) |-> IF n = 0 THEN 0 ELSE g[n - 1] + q[n]]
  BY <1>3 DEF SumStep
<1>5. SumUpTo(q) =
        [n \in 0 .. Len(q) |-> IF n = 0 THEN 0 ELSE SumUpTo(q)[n - 1] + q[n]]
  BY <1>4 DEF SumUpTo
<1> QED
  BY <1>5 DEF SumStep

LEMMA SumFacts ==
  ASSUME NEW q \in Seq(Nat)
  PROVE  /\ SumUpTo(q)[0] = 0
         /\ \A n \in 1 .. Len(q) : SumUpTo(q)[n] = SumUpTo(q)[n - 1] + q[n]
         /\ \A n \in 0 .. Len(q) : SumUpTo(q)[n] \in Nat
<1>1. SumUpTo(q)[0] = 0
  BY SumUpToDef DEF SumStep
<1>2. \A n \in 1 .. Len(q) : SumUpTo(q)[n] = SumUpTo(q)[n - 1] + q[n]
  BY SumUpToDef DEF SumStep
<1> DEFINE T == {n \in Nat : n <= Len(q) => SumUpTo(q)[n] \in Nat}
<1>3. 0 \in T
  BY <1>1
<1>4. ASSUME NEW n \in T \cap Nat
      PROVE  n + 1 \in T
  <2>1. ASSUME n + 1 <= Len(q)
        PROVE  SumUpTo(q)[n + 1] \in Nat
    <3>1. n + 1 \in 1 .. Len(q) /\ (n + 1) - 1 = n /\ n <= Len(q)
      BY <2>1
    <3>2. SumUpTo(q)[n + 1] = SumUpTo(q)[n] + q[n + 1]
      BY <1>2, <3>1
    <3>3. SumUpTo(q)[n] \in Nat /\ q[n + 1] \in Nat
      BY <3>1
    <3> QED
      BY <3>2, <3>3
  <2> QED
    BY <2>1
<1> HIDE DEF T
<1>5. Nat \subseteq T
  BY <1>3, <1>4, SetInduction
<1> QED
  BY <1>1, <1>2, <1>5 DEF T

LEMMA SumConcat ==
  ASSUME NEW q \in Seq(Nat), NEW r \in Seq(Nat)
  PROVE  SumOf(q \o r) = SumOf(q) + SumOf(r)
<1> DEFINE c == q \o r
           T == {n \in Nat : n <= Len(q) => SumUpTo(c)[n] = SumUpTo(q)[n]}
           U == {n \in Nat : n <= Len(r) =>
                   SumUpTo(c)[Len(q) + n] = SumUpTo(q)[Len(q)] + SumUpTo(r)[n]}
<1>1. /\ c \in Seq(Nat) /\ Len(c) = Len(q) + Len(r) /\ Len(q) \in Nat /\ Len(r) \in Nat
      /\ \A i \in 1 .. Len(q) : c[i] = q[i]
      /\ \A i \in 1 .. Len(r) : c[Len(q) + i] = r[i]
  OBVIOUS
<1>2. 0 \in T
  BY <1>1, SumFacts
<1> HIDE DEF c
<1>3. ASSUME NEW n \in T \cap Nat
      PROVE  n + 1 \in T
  <2>1. ASSUME n + 1 <= Len(q)
        PROVE  SumUpTo(c)[n + 1] = SumUpTo(q)[n + 1]
    <3>1. /\ n + 1 \in 1 .. Len(q) /\ n + 1 \in 1 .. Len(c)
          /\ (n + 1) - 1 = n /\ n <= Len(q)
      BY <1>1, <2>1
    <3>2. SumUpTo(c)[n] = SumUpTo(q)[n] /\ c[n + 1] = q[n + 1]
      BY <1>1, <3>1
    <3>3. SumUpTo(q)[n + 1] = SumUpTo(q)[n] + q[n + 1]
      BY <3>1, SumFacts
    <3>4. SumUpTo(c)[n + 1] = SumUpTo(c)[n] + c[n + 1]
      BY <1>1, <3>1, SumFacts
    <3> QED
      BY <3>2, <3>3, <3>4
  <2> QED
    BY <2>1
<1>4. Len(q) \in T
  <2> HIDE DEF T
  <2> QED
    BY <1>1, <1>2, <1>3, SetInduction
<1>5. SumUpTo(c)[Len(q)] = SumUpTo(q)[Len(q)] /\ SumUpTo(q)[Len(q)] \in Nat
  BY <1>1, <1>4, SumFacts
<1>6. 0 \in U
  BY <1>1, <1>5, SumFacts
<1>7. ASSUME NEW n \in U \cap Nat
      PROVE  n + 1 \in U
  <2>1. ASSUME n + 1 <= Len(r)
        PROVE  SumUpTo(c)[Len(q) + (n + 1)] = SumUpTo(q)[Len(q)] + SumUpTo(r)[n + 1]
    <3>1. /\ n + 1 \in 1 .. Len(r) /\ Len(q) + (n + 1) \in 1 .. Len(c)
          /\ (n + 1) - 1 = n /\ n <= Len(r) /\ n \in 0 .. Len(r)
          /\ (Len(q) + (n + 1)) - 1 = Len(q) + n
      BY <1>1, <2>1
    <3>2. SumUpTo(c)[Len(q) + n] = SumUpTo(q)[Len(q)] + SumUpTo(r)[n]
      BY <3>1
    <3>3. SumUpTo(r)[n + 1] = SumUpTo(r)[n] + r[n + 1] /\ SumUpTo(r)[n] \in Nat
      BY <3>1, SumFacts
    <3>4. SumUpTo(c)[Len(q) + (n + 1)] = SumUpTo(c)[Len(q) + n] + c[Len(q) + (n + 1)]
      BY <1>1, <3>1, SumFacts
    <3>5. c[Len(q) + (n + 1)] = r[n + 1]
      BY <1>1, <3>1
    <3>6. r[n + 1] \in Nat
      BY <3>1
    <3> QED
      BY <1>5, <3>2, <3>3, <3>4, <3>5, <3>6
  <2> QED
    BY <2>1
<1>8. Len(r) \in U
  <2> HIDE DEF U
  <2> QED
    BY <1>1, <1>6, <1>7, SetInduction
<1> QED
  BY <1>1, <1>8 DEF SumOf, c

LEMMA SumNat ==
  ASSUME NEW q \in Seq(Nat)
  PROVE  SumOf(q) \in Nat
BY SumFacts DEF SumOf

-----------------------------------------------------------------------------
(* Sequences, one after the other. *)
LEMMA Joined ==
  ASSUME NEW p \in Seq(Nat), NEW r \in Seq(Nat)
  PROVE  /\ p \o r \in Seq(Nat) /\ Len(p \o r) = Len(p) + Len(r)
         /\ Len(p) \in Nat /\ Len(r) \in Nat
         /\ \A i \in 1 .. Len(p) : (p \o r)[i] = p[i]
         /\ \A i \in 1 .. Len(r) : (p \o r)[Len(p) + i] = r[i]
OBVIOUS

(* Words. Octets that fill whole words may be summed by themselves. *)
LEMMA TermsFacts ==
  ASSUME NEW s \in Seq(Nat)
  PROVE  /\ Terms(s) \in Seq(Nat) /\ Len(Terms(s)) = Len(s)
         /\ \A i \in 1 .. Len(s) :
              Terms(s)[i] = IF i % 2 = 1 THEN s[i] * 256 ELSE s[i]
<1>1. \A i \in 1 .. Len(s) : s[i] \in Nat /\ s[i] * 256 \in Nat
  OBVIOUS
<1>2. Terms(s) \in [1 .. Len(s) -> Nat]
  BY <1>1 DEF Terms
<1> QED
  BY <1>2 DEF Terms

LEMMA WordSumNat ==
  ASSUME NEW s \in Seq(Nat)
  PROVE  WordSum(s) \in Nat
BY TermsFacts, SumNat DEF WordSum

LEMMA WordSumConcat ==
  ASSUME NEW s \in Seq(Nat), NEW t \in Seq(Nat), Len(s) % 2 = 0
  PROVE  WordSum(s \o t) = WordSum(s) + WordSum(t)
<1> DEFINE c == s \o t
           d == Terms(s) \o Terms(t)
<1>1. /\ c \in Seq(Nat) /\ Len(c) = Len(s) + Len(t) /\ Len(s) \in Nat /\ Len(t) \in Nat
      /\ \A i \in 1 .. Len(s) : c[i] = s[i]
      /\ \A i \in 1 .. Len(t) : c[Len(s) + i] = t[i]
  OBVIOUS
<1>2. /\ d \in Seq(Nat) /\ Len(d) = Len(s) + Len(t)
      /\ \A i \in 1 .. Len(s) : d[i] = Terms(s)[i]
      /\ \A i \in 1 .. Len(t) : d[Len(s) + i] = Terms(t)[i]
  <2> HIDE DEF c
  <2>1. /\ Terms(s) \in Seq(Nat) /\ Len(Terms(s)) = Len(s)
        /\ Terms(t) \in Seq(Nat) /\ Len(Terms(t)) = Len(t)
    BY TermsFacts
  <2> DEFINE p == Terms(s)
             r == Terms(t)
  <2>2. d = p \o r
    OBVIOUS
  <2> HIDE DEF d, p, r
  <2>3. /\ p \o r \in Seq(Nat) /\ Len(p \o r) = Len(p) + Len(r)
        /\ \A i \in 1 .. Len(p) : (p \o r)[i] = p[i]
        /\ \A i \in 1 .. Len(r) : (p \o r)[Len(p) + i] = r[i]
    <3>1. p \in Seq(Nat) /\ r \in Seq(Nat)
      BY <2>1 DEF p, r
    <3> QED
      BY <3>1, Joined
  <2>4. Len(p) = Len(s) /\ Len(r) = Len(t)
    BY <2>1 DEF p, r
  <2> QED
    BY <2>2, <2>3, <2>4 DEF p, r
<1> HIDE DEF c, d
<1>3. Terms(c) \in Seq(Nat) /\ Len(Terms(c)) = Len(s) + Len(t)
  BY <1>1, TermsFacts
<1>4. ASSUME NEW i \in 1 .. (Len(s) + Len(t))
      PROVE  Terms(c)[i] = d[i]
  <2>1. CASE i <= Len(s)
    <3>1. i \in 1 .. Len(s) /\ i \in 1 .. Len(c)
      BY <1>1, <2>1
    <3>2. c[i] = s[i] /\ d[i] = Terms(s)[i]
      BY <1>1, <1>2, <3>1
    <3>3. Terms(c)[i] = IF i % 2 = 1 THEN c[i] * 256 ELSE c[i]
      BY <1>1, <3>1, TermsFacts
    <3>4. Terms(s)[i] = IF i % 2 = 1 THEN s[i] * 256 ELSE s[i]
      BY <3>1, TermsFacts
    <3> QED
      BY <3>2, <3>3, <3>4
  <2>2. CASE i > Len(s)
    <3> DEFINE j == i - Len(s)
    <3>0. Len(s) \in Nat /\ Len(t) \in Nat /\ i \in Nat /\ i <= Len(s) + Len(t)
          /\ Len(c) = Len(s) + Len(t)
      BY <1>1
    <3>1. j \in 1 .. Len(t) /\ i \in 1 .. Len(c) /\ i = Len(s) + j
      BY <2>2, <3>0
    <3>5. i % 2 = j % 2
      <4>1. ASSUME NEW l \in Nat, NEW k \in Nat, l % 2 = 0
            PROVE  (l + k) % 2 = k % 2
        <5>1. l = 2 * (l \div 2) /\ l \div 2 \in Nat
          BY <4>1
        <5>2. ASSUME NEW h \in Nat PROVE (2 * h + k) % 2 = k % 2
          OBVIOUS
        <5> QED
          BY <5>1, <5>2
      <4> HIDE DEF j
      <4>2. Len(s) \in Nat /\ j \in Nat /\ i = Len(s) + j
        BY <3>0, <3>1
      <4> QED
        BY <4>1, <4>2
    <3> HIDE DEF j
    <3>2. c[i] = t[j] /\ d[i] = Terms(t)[j]
      BY <1>1, <1>2, <3>1
    <3>3. Terms(c)[i] = IF i % 2 = 1 THEN c[i] * 256 ELSE c[i]
      BY <1>1, <3>1, TermsFacts
    <3>4. Terms(t)[j] = IF j % 2 = 1 THEN t[j] * 256 ELSE t[j]
      BY <3>1, TermsFacts
    <3> QED
      BY <3>2, <3>3, <3>4, <3>5
  <2> QED
    BY <1>1, <2>1, <2>2
<1>5. Terms(c) = d
  BY <1>1, <1>2, <1>3, <1>4, SeqEqual
<1>6. SumOf(d) = SumOf(Terms(s)) + SumOf(Terms(t))
  BY TermsFacts, SumConcat DEF d
<1> QED
  BY <1>5, <1>6 DEF WordSum, c

(* One word. *)
LEMMA WordSumPair ==
  ASSUME NEW a \in Nat, NEW b \in Nat
  PROVE  WordSum(<<a, b>>) = 256 * a + b
<1> DEFINE s == <<a, b>>
           t == Terms(s)
<1>1. s \in Seq(Nat) /\ Len(s) = 2 /\ s[1] = a /\ s[2] = b
  OBVIOUS
<1> HIDE DEF s
<1>2. t \in Seq(Nat) /\ Len(t) = 2 /\ t[1] = a * 256 /\ t[2] = b
  <2>1. /\ t \in Seq(Nat) /\ Len(t) = 2
        /\ \A i \in 1 .. 2 : t[i] = IF i % 2 = 1 THEN s[i] * 256 ELSE s[i]
    BY <1>1, TermsFacts, Zenon
  <2>2. 1 \in 1 .. 2 /\ 2 \in 1 .. 2 /\ 1 % 2 = 1 /\ 2 % 2 # 1
    BY SMT
  <2>3. t[1] = s[1] * 256 /\ t[2] = s[2]
    BY <2>1, <2>2, Zenon
  <2> QED
    BY <1>1, <2>1, <2>3, Zenon
<1> HIDE DEF t
<1>3. SumUpTo(t)[0] = 0 /\ \A n \in 1 .. 2 : SumUpTo(t)[n] = SumUpTo(t)[n - 1] + t[n]
  BY <1>2, SumFacts
<1>5. SumUpTo(t)[1] = SumUpTo(t)[0] + t[1] /\ SumUpTo(t)[2] = SumUpTo(t)[1] + t[2]
  <2>1. 1 \in 1 .. 2 /\ 2 \in 1 .. 2 /\ 1 - 1 = 0 /\ 2 - 1 = 1
    OBVIOUS
  <2> QED
    BY <1>3, <2>1
<1>4. SumOf(t) = 256 * a + b
  BY <1>2, <1>3, <1>5 DEF SumOf
<1> QED
  BY <1>4 DEF WordSum, t, s

(* Words are numbers. *)
LEMMA WordsFacts == \A n \in Words : n \in Nat
<1> DEFINE top == 65535
<1>1. Words = 0 .. top /\ top \in Nat
  BY SMT DEF Words
<1> HIDE DEF top
<1>2. \A n \in 0 .. top : n \in Nat
  BY <1>1, SMT
<1> QED
  BY <1>1, <1>2, Zenon

(* What fits a u16. *)
Short(n) == n \in Nat /\ n < 65536

LEMMA BytesFacts ==
  ASSUME NEW n \in Nat
  PROVE  /\ Bytes(n) \in Seq(Nat) /\ Len(Bytes(n)) = 2
         /\ Short(n) => WordSum(Bytes(n)) = n
         /\ Short(n) /\ n # 0 => Bytes(n) # <<0, 0>>
<1> DEFINE a == (n \div 256) % 256
           b == n % 256
<1>1. a \in Nat /\ b \in Nat
  OBVIOUS
<1>2. Short(n) => 256 * a + b = n
  BY DEF Short
<1> HIDE DEF a, b
<1>3. Bytes(n) = <<a, b>>
  BY DEF Bytes, a, b
<1>4. WordSum(<<a, b>>) = 256 * a + b
  BY <1>1, WordSumPair
<1>5. Short(n) /\ n # 0 => a # 0 \/ b # 0
  BY <1>1, <1>2
<1> QED
  BY <1>1, <1>2, <1>3, <1>4, <1>5

(* The ones' complement sum is all ones. *)
Ones(x) == x > 0 /\ x % 65535 = 0

(* What the receiver adds up is what the sender did: the sum of the words. *)
LEMMA AllOnesSum ==
  ASSUME NEW s \in Seq(Nat)
  PROVE  AllOnes(s) <=> Ones(WordSum(s))
<1> DEFINE p == Padded(s)
           m == Len(p) \div 2
           q == [i \in 1 .. m |-> 256 * p[2 * i - 1] + p[2 * i]]
           t == Terms(p)
<1>1. /\ p \in Seq(Nat) /\ Len(p) \in Nat /\ Len(p) % 2 = 0
      /\ p = s \/ (p = Append(s, 0) /\ Len(s) % 2 = 1)
  <2>1. Len(s) \in Nat /\ Append(s, 0) \in Seq(Nat) /\ Len(Append(s, 0)) = Len(s) + 1
    OBVIOUS
  <2>2. Len(s) % 2 = 0 \/ (Len(s) % 2 = 1 /\ (Len(s) + 1) % 2 = 0)
    BY <2>1
  <2>3. CASE Len(s) % 2 = 0
    <3>1. p = s
      BY <2>3 DEF Padded
    <3> HIDE DEF p
    <3> QED
      BY <2>1, <2>3, <3>1
  <2>4. CASE Len(s) % 2 = 1 /\ (Len(s) + 1) % 2 = 0
    <3>1. p = Append(s, 0)
      BY <2>4 DEF Padded
    <3> HIDE DEF p
    <3> QED
      BY <2>1, <2>4, <3>1
  <2> QED
    BY <2>2, <2>3, <2>4
<1> HIDE DEF p
<1>2. m \in Nat /\ Len(p) = 2 * m
  BY <1>1
<1> HIDE DEF m
<1>3. \A i \in 1 .. m : 2 * i - 1 \in 1 .. Len(p) /\ 2 * i \in 1 .. Len(p)
  BY <1>2
<1>4. \A i \in 1 .. m : p[2 * i - 1] \in Nat /\ p[2 * i] \in Nat
  <2>1. \A k \in 1 .. Len(p) : p[k] \in Nat
    BY <1>1
  <2> QED
    BY <1>3, <2>1
<1>5. /\ q \in Seq(Nat) /\ Len(q) = m
      /\ \A i \in 1 .. m : q[i] = 256 * p[2 * i - 1] + p[2 * i]
  <2>1. q \in [1 .. m -> Nat]
    BY <1>4
  <2> QED
    BY <1>2, <2>1
<1>6. /\ t \in Seq(Nat) /\ Len(t) = 2 * m
      /\ \A i \in 1 .. Len(p) : t[i] = IF i % 2 = 1 THEN p[i] * 256 ELSE p[i]
  BY <1>1, <1>2, TermsFacts
<1> HIDE DEF q, t
<1> DEFINE T == {n \in Nat : n <= m => SumUpTo(q)[n] = SumUpTo(t)[2 * n]}
<1>7. 0 \in T
  BY <1>5, <1>6, SumFacts
<1>8. ASSUME NEW n \in T \cap Nat
      PROVE  n + 1 \in T
  <2>1. ASSUME n + 1 <= m
        PROVE  SumUpTo(q)[n + 1] = SumUpTo(t)[2 * (n + 1)]
    <3> DEFINE i == n + 1
    <3>1. /\ i \in 1 .. m /\ i - 1 = n /\ n <= m /\ n \in 0 .. m
          /\ 2 * n \in 0 .. Len(t)
          /\ 2 * i - 1 \in 1 .. Len(t) /\ (2 * i - 1) - 1 = 2 * n
          /\ 2 * i \in 1 .. Len(t)
      BY <1>2, <1>6, <2>1
    <3>2. (2 * i - 1) % 2 = 1 /\ (2 * i) % 2 = 0
      OBVIOUS
    <3>3. SumUpTo(q)[n] = SumUpTo(t)[2 * n]
      BY <3>1
    <3> HIDE DEF i
    <3>4. SumUpTo(q)[i] = SumUpTo(q)[n] + q[i]
      BY <1>5, <3>1, SumFacts
    <3>5. SumUpTo(t)[2 * i - 1] = SumUpTo(t)[2 * n] + t[2 * i - 1]
      BY <1>6, <3>1, SumFacts
    <3>6. SumUpTo(t)[2 * i] = SumUpTo(t)[2 * i - 1] + t[2 * i]
      BY <1>6, <3>1, SumFacts
    <3>7. t[2 * i - 1] = p[2 * i - 1] * 256 /\ t[2 * i] = p[2 * i]
      BY <1>2, <1>6, <3>1, <3>2
    <3>8. q[i] = 256 * p[2 * i - 1] + p[2 * i] /\ p[2 * i - 1] \in Nat /\ p[2 * i] \in Nat
      BY <1>4, <1>5, <3>1
    <3>9. SumUpTo(t)[2 * n] \in Nat
      BY <1>6, <3>1, SumFacts
    <3>10. SumUpTo(q)[i] = SumUpTo(t)[2 * i]
      BY <3>3, <3>4, <3>5, <3>6, <3>7, <3>8, <3>9
    <3> QED
      BY <3>10 DEF i
  <2> QED
    BY <2>1
<1> HIDE DEF T
<1>9. m \in T
  BY <1>2, <1>7, <1>8, SetInduction
<1>10. SumOf(q) = WordSum(p)
  BY <1>2, <1>5, <1>6, <1>9 DEF T, SumOf, WordSum, t
<1>11. WordSum(p) = WordSum(s)
  <2>1. CASE p = s
    BY <2>1
  <2>2. CASE p = Append(s, 0) /\ Len(s) % 2 = 1
    <3>1. /\ Len(p) = Len(s) + 1 /\ Len(s) \in Nat /\ p[Len(s) + 1] = 0
          /\ \A i \in 1 .. Len(s) : p[i] = s[i]
      BY <2>2
    <3> DEFINE u == Terms(s) \o <<0>>
    <3>2. /\ u \in Seq(Nat) /\ Len(u) = Len(s) + 1 /\ u[Len(s) + 1] = 0
          /\ \A i \in 1 .. Len(s) : u[i] = Terms(s)[i]
      <4> DEFINE v == Terms(s)
                 z == <<0>>
      <4>1. z \in Seq(Nat) /\ Len(z) = 1 /\ z[1] = 0
        OBVIOUS
      <4>2. v \in Seq(Nat) /\ Len(v) = Len(s)
        BY TermsFacts
      <4>3. u = v \o z
        OBVIOUS
      <4> HIDE DEF u, v, z
      <4>4. /\ v \o z \in Seq(Nat) /\ Len(v \o z) = Len(v) + Len(z)
            /\ \A i \in 1 .. Len(v) : (v \o z)[i] = v[i]
            /\ \A i \in 1 .. Len(z) : (v \o z)[Len(v) + i] = z[i]
        BY <4>1, <4>2, Joined
      <4>5. (v \o z)[Len(s) + 1] = 0
        BY <4>1, <4>2, <4>4
      <4> QED
        BY <4>1, <4>2, <4>3, <4>4, <4>5 DEF v
    <3> HIDE DEF u
    <3>3. ASSUME NEW i \in 1 .. (Len(s) + 1)
          PROVE  t[i] = u[i]
      <4>1. CASE i = Len(s) + 1
        <5>1. t[i] = 0 * 256 \/ t[i] = 0
          BY <1>6, <3>1, <4>1
        <5> QED
          BY <3>2, <4>1, <5>1
      <4>2. CASE i # Len(s) + 1
        <5>1. i \in 1 .. Len(s) /\ i \in 1 .. Len(p)
          BY <3>1, <4>2
        <5>2. Terms(s)[i] = IF i % 2 = 1 THEN s[i] * 256 ELSE s[i]
          BY <5>1, TermsFacts
        <5>3. t[i] = IF i % 2 = 1 THEN p[i] * 256 ELSE p[i]
          BY <1>6, <5>1
        <5> QED
          BY <3>1, <3>2, <5>1, <5>2, <5>3
      <4> QED
        BY <4>1, <4>2
    <3>4. t = u
      <4>1. Len(t) = Len(u)
        BY <1>2, <1>6, <3>1, <3>2
      <4> QED
        BY <1>6, <3>2, <3>3, <4>1, SeqEqual
    <3>5. SumOf(<<0>>) = 0
      <4> DEFINE z == <<0>>
      <4>1. z \in Seq(Nat) /\ Len(z) = 1 /\ z[1] = 0
        OBVIOUS
      <4> HIDE DEF z
      <4>2. SumUpTo(z)[0] = 0 /\ \A n \in 1 .. 1 : SumUpTo(z)[n] = SumUpTo(z)[n - 1] + z[n]
        BY <4>1, SumFacts
      <4>4. 1 \in 1 .. 1 /\ 1 - 1 = 0
        OBVIOUS
      <4>5. SumUpTo(z)[1] = SumUpTo(z)[0] + z[1]
        BY <4>2, <4>4
      <4>3. SumOf(z) = 0
        BY <4>1, <4>2, <4>5 DEF SumOf
      <4> QED
        BY <4>3 DEF z
    <3>6. SumOf(u) = SumOf(Terms(s)) + SumOf(<<0>>) /\ SumOf(Terms(s)) \in Nat
      <4>1. <<0>> \in Seq(Nat) /\ Terms(s) \in Seq(Nat)
        BY TermsFacts
      <4> QED
        BY <4>1, SumConcat, SumNat DEF u
    <3> QED
      BY <3>4, <3>5, <3>6 DEF WordSum, t
  <2> QED
    BY <1>1, <2>1, <2>2
<1>12. AllOnes(s) <=> Ones(SumOf(q))
  BY DEF AllOnes, Ones, q, m, p
<1> QED
  BY <1>10, <1>11, <1>12

-----------------------------------------------------------------------------
(* Folding. The carries are added back until there are none: what is left  *)
(* is the same modulo 65535, and zero only if the sum was.                 *)
FoldStep(g, x) == IF x < 65536 THEN x ELSE g[(x % 65536) + (x \div 65536)]

LEMMA CarriesAdded ==
  ASSUME NEW x \in Nat, x >= 65536
  PROVE  LET y == (x % 65536) + (x \div 65536) IN
         /\ y \in Nat /\ y < x /\ y > 0
         /\ x \div 65536 \in Nat
         /\ x = y + 65535 * (x \div 65536)
<1> DEFINE r == x % 65536
           h == x \div 65536
<1>1. x = 65536 * h + r /\ r \in Nat /\ h \in Nat /\ h > 0
  OBVIOUS
<1> HIDE DEF r, h
<1> QED
  BY <1>1 DEF r, h

(* The recursion has a solution, the remainder in 1 .. 65535. *)
LEMMA FoldedDef == \A x \in Nat : Folded[x] = FoldStep(Folded, x)
<1> DEFINE g == [x \in Nat |-> IF x = 0 THEN 0 ELSE ((x - 1) % 65535) + 1]
<1>1. ASSUME NEW x \in Nat
      PROVE  g[x] = FoldStep(g, x)
  <2>1. CASE x < 65536
    <3>1. x # 0 => (x - 1) % 65535 = x - 1
      BY <2>1
    <3> QED
      BY <2>1, <3>1 DEF FoldStep
  <2>2. CASE x >= 65536
    <3> DEFINE h == x \div 65536
               y == (x % 65536) + h
    <3>1. y \in Nat /\ y > 0 /\ h \in Nat /\ x = y + 65535 * h /\ x > 0
      BY <2>2, CarriesAdded
    <3>2. ~(x < 65536)
      BY <2>2
    <3>3. FoldStep(g, x) = g[y]
      BY <3>2 DEF FoldStep
    <3> HIDE DEF h, y
    <3>4. x - 1 = (y - 1) + 65535 * h /\ y - 1 \in Nat
      BY <3>1
    <3>5. ((y - 1) + 65535 * h) % 65535 = (y - 1) % 65535
      <4>1. ASSUME NEW a \in Nat, NEW b \in Nat
            PROVE  (a + 65535 * b) % 65535 = a % 65535
        OBVIOUS
      <4> QED
        BY <3>1, <3>4, <4>1
    <3>6. g[x] = ((x - 1) % 65535) + 1 /\ g[y] = ((y - 1) % 65535) + 1
      BY <3>1
    <3> HIDE DEF g
    <3> QED
      BY <3>3, <3>4, <3>5, <3>6
  <2> QED
    BY <2>1, <2>2
<1>2. g = [x \in Nat |-> g[x]]
  OBVIOUS
<1> HIDE DEF g
<1>3. g = [x \in Nat |-> FoldStep(g, x)]
  BY <1>1, <1>2
<1>4. Folded = [x \in Nat |-> FoldStep(Folded, x)]
  BY <1>3 DEF Folded, FoldStep
<1> QED
  BY <1>4

IsFold(y, x) ==
  /\ y \in Nat /\ y < 65536
  /\ \E k \in Nat : x = y + 65535 * k
  /\ x > 0 => y > 0

LEMMA FoldedFacts ==
  ASSUME NEW x \in Nat
  PROVE  IsFold(Folded[x], x)
<1> DEFINE U == {z \in Nat : ~IsFold(Folded[z], z)}
<1>1. ASSUME NEW z \in U, \A y \in U : z <= y
      PROVE  FALSE
  <2>1. CASE z < 65536
    <3>1. Folded[z] = z
      BY <2>1, FoldedDef DEF FoldStep
    <3>2. z \in Nat /\ z = z + 65535 * 0 /\ 0 \in Nat
      OBVIOUS
    <3>3. IsFold(z, z)
      BY <2>1, <3>2 DEF IsFold
    <3> QED
      BY <3>1, <3>3
  <2>2. CASE z >= 65536
    <3> DEFINE h == z \div 65536
               y == (z % 65536) + h
    <3>1. y \in Nat /\ y < z /\ y > 0 /\ h \in Nat /\ z = y + 65535 * h
      BY <2>2, CarriesAdded
    <3>2. ~(z < 65536)
      BY <2>2
    <3>3. Folded[z] = Folded[y]
      BY <3>2, FoldedDef DEF FoldStep
    <3> HIDE DEF h, y
    <3>4. IsFold(Folded[y], y)
      BY <1>1, <3>1
    <3>5. PICK k \in Nat : y = Folded[y] + 65535 * k
      BY <3>4 DEF IsFold
    <3>6. Folded[y] \in Nat /\ Folded[y] < 65536 /\ Folded[y] > 0
      BY <3>1, <3>4 DEF IsFold
    <3>7. z = Folded[y] + 65535 * (k + h) /\ k + h \in Nat
      BY <3>1, <3>5, <3>6
    <3>8. IsFold(Folded[y], z)
      BY <3>6, <3>7 DEF IsFold
    <3> QED
      BY <3>3, <3>8
  <2> QED
    BY <2>1, <2>2
<1>2. U = {}
  <2>1. U \subseteq Nat
    OBVIOUS
  <2> HIDE DEF U
  <2> QED
    BY <1>1, <2>1, Least
<1> QED
  BY <1>2

(* A sum and its complement make all ones, and so they do when a zero is   *)
(* sent as all ones.                                                       *)
LEMMA ComplementFacts ==
  ASSUME NEW x \in Nat, x > 0
  PROVE  /\ Short(Complement(x)) /\ Ones(x + Complement(x))
         /\ Short(NotZero(Complement(x))) /\ Ones(x + NotZero(Complement(x)))
         /\ NotZero(Complement(x)) # 0
<1> DEFINE f == Folded[x]
           c == 65535 - f
<1>1. IsFold(f, x)
  BY FoldedFacts
<1>3. Complement(x) = c
  BY DEF Complement
<1> HIDE DEF f
<1>2. f \in Nat /\ f < 65536 /\ f > 0
  BY <1>1 DEF IsFold
<1>11. PICK k \in Nat : x = f + 65535 * k
  BY <1>1 DEF IsFold
<1>4. c \in Nat /\ Short(c) /\ Short(65535)
  BY <1>2 DEF Short
<1>5. x + c = 65535 * (k + 1) /\ k + 1 \in Nat
  BY <1>2, <1>11
<1>6. x + c + 65535 = 65535 * (k + 2) /\ k + 2 \in Nat
  BY <1>5
<1>7. ASSUME NEW a \in Nat
      PROVE  (65535 * a) % 65535 = 0
  OBVIOUS
<1>8. Ones(x + c) /\ Ones(x + c + 65535)
  BY <1>4, <1>5, <1>6, <1>7 DEF Ones
<1> HIDE DEF c
<1>9. CASE c = 0
  <2>1. NotZero(c) = 65535 /\ x + 65535 = x + c + 65535
    BY <1>9 DEF NotZero
  <2> QED
    BY <1>3, <1>4, <1>8, <2>1
<1>10. CASE c # 0
  <2>1. NotZero(c) = c
    BY <1>10 DEF NotZero
  <2> QED
    BY <1>3, <1>4, <1>8, <1>10, <2>1
<1> QED
  BY <1>9, <1>10

-----------------------------------------------------------------------------
(* Parts of what was put together. *)
LEMMA SliceLeft ==
  ASSUME NEW s \in Seq(Nat), NEW t \in Seq(Nat), NEW m \in Nat \ {0}, NEW n \in Nat,
         n <= Len(s)
  PROVE  SubSeq(s \o t, m, n) = SubSeq(s, m, n)
<1>1. Len(s) \in Nat /\ \A i \in 1 .. Len(s) : (s \o t)[i] = s[i]
  BY Joined
<1>2. \A i \in m .. n : (s \o t)[i] = s[i]
  BY <1>1
<1> DEFINE j == s \o t
<1> HIDE DEF j
<1>3. \A i \in 1 .. (n - m + 1) : i + m - 1 \in m .. n
  OBVIOUS
<1>4. \A i \in 1 .. (n - m + 1) : j[i + m - 1] = s[i + m - 1]
  BY <1>2, <1>3 DEF j
<1>5. /\ SubSeq(j, m, n) = [i \in 1 .. (n - m + 1) |-> j[i + m - 1]]
      /\ SubSeq(s, m, n) = [i \in 1 .. (n - m + 1) |-> s[i + m - 1]]
  OBVIOUS
<1>6. SubSeq(j, m, n) = SubSeq(s, m, n)
  BY <1>4, <1>5
<1> QED
  BY <1>6 DEF j

LEMMA AsSeq ==
  ASSUME NEW n \in Nat, NEW f \in [1 .. n -> Nat]
  PROVE  f \in Seq(Nat) /\ Len(f) = n
OBVIOUS

(* What follows the first part is the second. *)
LEMMA SliceRight ==
  ASSUME NEW s \in Seq(Nat), NEW t \in Seq(Nat)
  PROVE  SubSeq(s \o t, Len(s) + 1, Len(s) + Len(t)) = t
<1> DEFINE j == s \o t
           l == Len(s)
           u == SubSeq(j, l + 1, l + Len(t))
<1>1. /\ l \in Nat /\ Len(t) \in Nat /\ j \in Seq(Nat) /\ Len(j) = l + Len(t)
      /\ \A i \in 1 .. Len(t) : j[l + i] = t[i]
  BY Joined
<1> HIDE DEF j, l
<1>2. u \in Seq(Nat) /\ Len(u) = Len(t) /\ \A i \in 1 .. Len(t) : u[i] = j[l + i]
  <2>1. (l + Len(t)) - (l + 1) + 1 = Len(t)
    BY <1>1
  <2>2. \A i \in 1 .. Len(t) : l + i \in 1 .. Len(j) /\ i + (l + 1) - 1 = l + i
    BY <1>1
  <2>3. u = [i \in 1 .. Len(t) |-> j[i + (l + 1) - 1]]
    BY <1>1, <2>1
  <2>4. \A i \in 1 .. Len(t) : u[i] = j[l + i] /\ u[i] \in Nat
    BY <1>1, <2>2, <2>3
  <2> HIDE DEF u
  <2>5. u \in [1 .. Len(t) -> Nat]
    BY <2>3, <2>4
  <2> QED
    BY <1>1, <2>4, <2>5, AsSeq
<1> HIDE DEF u
<1>3. \A i \in 1 .. Len(u) : u[i] = t[i]
  BY <1>1, <1>2
<1>4. u = t
  BY <1>2, <1>3, SeqEqual
<1> QED
  BY <1>4 DEF u, l, j

(* Octets that fill whole words. *)
Even(s) == s \in Seq(Nat) /\ Len(s) % 2 = 0

LEMMA Followed ==
  ASSUME NEW s, Even(s), NEW t \in Seq(Nat)
  PROVE  /\ s \o t \in Seq(Nat) /\ Len(s \o t) = Len(s) + Len(t)
         /\ Len(s) \in Nat /\ Len(t) \in Nat
         /\ WordSum(s \o t) = WordSum(s) + WordSum(t)
         /\ WordSum(s) \in Nat /\ WordSum(t) \in Nat
         /\ Even(t) => Even(s \o t)
<1> DEFINE l == Len(s)
           k == Len(t)
<1>1. s \in Seq(Nat) /\ Len(s) % 2 = 0
  BY DEF Even
<1>2. /\ s \o t \in Seq(Nat) /\ Len(s \o t) = l + k /\ l \in Nat /\ k \in Nat
  BY <1>1, Joined
<1>3. WordSum(s \o t) = WordSum(s) + WordSum(t) /\ WordSum(s) \in Nat /\ WordSum(t) \in Nat
  BY <1>1, WordSumConcat, WordSumNat
<1>4. ASSUME Even(t)
      PROVE  Even(s \o t)
  <2>1. k % 2 = 0
    BY <1>4 DEF Even
  <2>2. l % 2 = 0
    BY <1>1
  <2> HIDE DEF l, k
  <2>3. (l + k) % 2 = 0
    BY <1>2, <2>1, <2>2
  <2> QED
    BY <1>2, <2>3 DEF Even
<1> QED
  BY <1>2, <1>3, <1>4

-----------------------------------------------------------------------------
(* What a segment holds, and its sum.                                      *)
LEMMA UdpFacts ==
  ASSUME NEW ports, ports.src \in Nat, ports.dst \in Nat, NEW check \in Nat,
         Short(check), NEW payload \in Seq(Nat)
  PROVE  LET u == UdpSegment(ports, check, payload)
             size == 8 + Len(payload)
         IN  /\ u \in Seq(Nat) /\ Len(u) = size /\ size \in Nat
             /\ SubSeq(u, 5, 6) = Bytes(size)
             /\ SubSeq(u, 7, 8) = Bytes(check)
             /\ SubSeq(u, 9, size) = payload
             /\ WordSum(u) = WordSum(Bytes(ports.src)) + WordSum(Bytes(ports.dst))
                               + WordSum(Bytes(size)) + check + WordSum(payload)
<1> DEFINE size == 8 + Len(payload)
           bs == Bytes(ports.src)
           bd == Bytes(ports.dst)
           bl == Bytes(size)
           bc == Bytes(check)
           two == bs \o bd
           three == two \o bl
           four == three \o bc
           u == four \o payload
<1>1. size \in Nat /\ Len(payload) \in Nat
  OBVIOUS
<1>2. /\ bs \in Seq(Nat) /\ bd \in Seq(Nat) /\ bl \in Seq(Nat) /\ bc \in Seq(Nat)
      /\ Len(bs) = 2 /\ Len(bd) = 2 /\ Len(bl) = 2 /\ Len(bc) = 2
      /\ WordSum(bc) = check
  <2> HIDE DEF size
  <2> QED
    BY <1>1, BytesFacts
<1>3. UdpSegment(ports, check, payload) = u
  BY DEF UdpSegment
<1> HIDE DEF bs, bd, bl, bc
<1>4. /\ two \in Seq(Nat) /\ Even(two) /\ Len(two) = 4
      /\ WordSum(two) = WordSum(bs) + WordSum(bd)
      /\ WordSum(bs) \in Nat /\ WordSum(bd) \in Nat
  <2>1. Even(bs) /\ Even(bd)
    BY <1>2 DEF Even
  <2>2. /\ two \in Seq(Nat) /\ Even(two) /\ Len(two) = Len(bs) + Len(bd)
        /\ WordSum(two) = WordSum(bs) + WordSum(bd)
        /\ WordSum(bs) \in Nat /\ WordSum(bd) \in Nat
    BY <1>2, <2>1, Followed
  <2> HIDE DEF two
  <2> QED
    BY <1>2, <2>2
<1> HIDE DEF two
<1>5. /\ three \in Seq(Nat) /\ Even(three) /\ Len(three) = 6
      /\ WordSum(three) = WordSum(two) + WordSum(bl)
      /\ WordSum(bl) \in Nat
      /\ SubSeq(three, 5, 6) = bl
  <2>1. Even(bl)
    BY <1>2 DEF Even
  <2>2. SubSeq(three, Len(two) + 1, Len(two) + Len(bl)) = bl
    BY <1>2, <1>4, SliceRight
  <2>3. /\ three \in Seq(Nat) /\ Even(three) /\ Len(three) = Len(two) + Len(bl)
        /\ WordSum(three) = WordSum(two) + WordSum(bl)
        /\ WordSum(bl) \in Nat
    BY <1>2, <1>4, <2>1, Followed
  <2> HIDE DEF three
  <2>4. Len(two) + 1 = 5 /\ Len(two) + Len(bl) = 6
    BY <1>2, <1>4
  <2> QED
    BY <2>2, <2>3, <2>4
<1> HIDE DEF three
<1>6. /\ four \in Seq(Nat) /\ Even(four) /\ Len(four) = 8
      /\ WordSum(four) = WordSum(three) + check
      /\ SubSeq(four, 7, 8) = bc
      /\ SubSeq(four, 5, 6) = bl
  <2>1. Even(bc)
    BY <1>2 DEF Even
  <2>2. SubSeq(four, Len(three) + 1, Len(three) + Len(bc)) = bc
    BY <1>2, <1>5, SliceRight
  <2>3. /\ four \in Seq(Nat) /\ Even(four) /\ Len(four) = Len(three) + Len(bc)
        /\ WordSum(four) = WordSum(three) + WordSum(bc)
    BY <1>2, <1>5, <2>1, Followed
  <2>4. /\ 5 \in Nat \ {0} /\ 6 \in Nat /\ 6 <= Len(three)
        /\ three \in Seq(Nat) /\ bc \in Seq(Nat)
    BY <1>2, <1>5
  <2>5. SubSeq(four, 5, 6) = SubSeq(three, 5, 6)
    BY <2>4, SliceLeft
  <2> HIDE DEF four
  <2>6. Len(three) + 1 = 7 /\ Len(three) + Len(bc) = 8
    BY <1>2, <1>5
  <2> QED
    BY <1>2, <1>5, <2>2, <2>3, <2>5, <2>6
<1> HIDE DEF four
<1>7. /\ u \in Seq(Nat) /\ Len(u) = size
      /\ WordSum(u) = WordSum(four) + WordSum(payload)
      /\ WordSum(payload) \in Nat
      /\ SubSeq(u, 9, size) = payload
      /\ SubSeq(u, 7, 8) = bc
      /\ SubSeq(u, 5, 6) = bl
  <2>1. SubSeq(u, Len(four) + 1, Len(four) + Len(payload)) = payload
    BY <1>6, SliceRight
  <2>2. /\ u \in Seq(Nat) /\ Len(u) = Len(four) + Len(payload)
        /\ WordSum(u) = WordSum(four) + WordSum(payload)
        /\ WordSum(payload) \in Nat
    BY <1>6, Followed
  <2>3. /\ 5 \in Nat \ {0} /\ 6 \in Nat /\ 6 <= Len(four)
        /\ 7 \in Nat \ {0} /\ 8 \in Nat /\ 8 <= Len(four)
    BY <1>6
  <2>4. SubSeq(u, 5, 6) = SubSeq(four, 5, 6)
    BY <1>6, <2>3, SliceLeft
  <2>5. SubSeq(u, 7, 8) = SubSeq(four, 7, 8)
    BY <1>6, <2>3, SliceLeft
  <2> HIDE DEF u
  <2>6. Len(four) + 1 = 9 /\ Len(four) + Len(payload) = size
    BY <1>6
  <2> QED
    BY <1>6, <2>1, <2>2, <2>4, <2>5, <2>6
<1> HIDE DEF u, size
<1>8. /\ SubSeq(u, 5, 6) = bl /\ SubSeq(u, 7, 8) = bc
      /\ WordSum(u) = WordSum(bs) + WordSum(bd) + WordSum(bl) + check + WordSum(payload)
  BY <1>4, <1>5, <1>6, <1>7
<1> QED
  BY <1>1, <1>3, <1>7, <1>8 DEF size, bs, bd, bl, bc

LEMMA NoHighWord ==
  ASSUME NEW n \in Nat, Short(n)
  PROVE  (n \div 65536) + (n % 65536) = n
BY DEF Short

(* A segment with the checksum of its sender verifies at its receiver. *)
IsSegment(s, src, dst, payload) ==
  /\ s \in Seq(Nat) /\ Len(s) = 8 + Len(payload)
  /\ SegmentVerifies(src, dst, s)
  /\ SubSeq(s, 9, Len(s)) = payload

LEMMA SegmentFacts ==
  ASSUME NEW src, Even(src), NEW dst, Even(dst),
         NEW ports, ports.src \in Nat, ports.dst \in Nat,
         NEW payload \in Seq(Nat), Short(8 + Len(payload))
  PROVE  IsSegment(SegmentOf(src, dst, ports, payload), src, dst, payload)
<1> DEFINE size == 8 + Len(payload)
           bare == UdpSegment(ports, 0, payload)
           fixed == WordSum(src) + WordSum(dst) + 17
           x == fixed + (size \div 65536) + (size % 65536) + WordSum(bare)
           c == NotZero(Complement(x))
           s == UdpSegment(ports, c, payload)
           head == src \o dst
           kind == head \o <<0, 17>>
           pseudo == kind \o Bytes(size)
           whole == pseudo \o s
<1>1. /\ size \in Nat /\ Short(size) /\ Short(0)
      /\ size = (size \div 65536) + (size % 65536)
  <2>1. size \in Nat /\ Short(size) /\ Short(0)
    BY DEF Short
  <2> QED
    BY <2>1, NoHighWord
<1>2. /\ bare \in Seq(Nat) /\ Len(bare) = size /\ WordSum(bare) \in Nat
      /\ WordSum(bare) = WordSum(Bytes(ports.src)) + WordSum(Bytes(ports.dst))
                           + WordSum(Bytes(size)) + 0 + WordSum(payload)
  BY <1>1, UdpFacts, WordSumNat
<1>3. /\ WordSum(src) \in Nat /\ WordSum(dst) \in Nat
      /\ head \in Seq(Nat) /\ Even(head)
      /\ WordSum(head) = WordSum(src) + WordSum(dst)
  <2>1. src \in Seq(Nat) /\ dst \in Seq(Nat)
    BY DEF Even
  <2> QED
    BY <2>1, Followed
<1>4. SegmentOf(src, dst, ports, payload) = s
  BY <1>2 DEF SegmentOf, UdpChecksum
<1>5. x \in Nat /\ x > 0 /\ x = fixed + size + WordSum(bare)
  <2> DEFINE hi == size \div 65536
             lo == size % 65536
  <2>1. hi \in Nat /\ lo \in Nat /\ hi + lo = size
    <3>1. hi + lo = size
      BY <1>1
    <3>2. size \in Nat
      BY <1>1
    <3> HIDE DEF size
    <3> QED
      BY <3>1, <3>2
  <2>2. fixed \in Nat /\ fixed > 0
    BY <1>3
  <2>3. x = fixed + hi + lo + WordSum(bare)
    OBVIOUS
  <2>4. size \in Nat /\ WordSum(bare) \in Nat
    BY <1>1, <1>2
  <2> HIDE DEF hi, lo, x, fixed, size, bare
  <2>5. fixed + hi + lo + WordSum(bare) = fixed + size + WordSum(bare)
    BY <2>1, <2>2, <2>4
  <2> QED
    BY <2>2, <2>3, <2>4, <2>5
<1> HIDE DEF x
<1>6. Short(c) /\ Ones(x + c) /\ c # 0
  BY <1>5, ComplementFacts
<1>7. c \in Nat
  BY <1>6 DEF Short
<1> HIDE DEF c
<1>8. /\ s \in Seq(Nat) /\ Len(s) = size
      /\ SubSeq(s, 5, 6) = Bytes(size)
      /\ SubSeq(s, 7, 8) = Bytes(c)
      /\ SubSeq(s, 9, size) = payload
      /\ WordSum(s) = WordSum(Bytes(ports.src)) + WordSum(Bytes(ports.dst))
                        + WordSum(Bytes(size)) + c + WordSum(payload)
  BY <1>6, <1>7, UdpFacts
<1>9. WordSum(s) = WordSum(bare) + c
  <2>1. /\ Bytes(ports.src) \in Seq(Nat) /\ Bytes(ports.dst) \in Seq(Nat)
        /\ Bytes(size) \in Seq(Nat)
    <3> HIDE DEF size
    <3> QED
      BY <1>1, BytesFacts
  <2>2. /\ WordSum(Bytes(ports.src)) \in Nat /\ WordSum(Bytes(ports.dst)) \in Nat
        /\ WordSum(Bytes(size)) \in Nat /\ WordSum(payload) \in Nat
    BY <2>1, WordSumNat
  <2> DEFINE ws == WordSum(Bytes(ports.src))
             wd == WordSum(Bytes(ports.dst))
  <2>3. /\ WordSum(bare) = ws + wd + WordSum(Bytes(size)) + 0 + WordSum(payload)
        /\ WordSum(s) = ws + wd + WordSum(Bytes(size)) + c + WordSum(payload)
        /\ ws \in Nat /\ wd \in Nat
    BY <1>2, <1>8, <2>2
  <2> HIDE DEF size, s, bare, ws, wd
  <2> QED
    BY <1>7, <2>2, <2>3
<1> HIDE DEF s, size, bare
<1>10. /\ kind \in Seq(Nat) /\ Even(kind) /\ WordSum(kind) = WordSum(head) + 17
  <2>1. /\ <<0, 17>> \in Seq(Nat) /\ Even(<<0, 17>>) /\ WordSum(<<0, 17>>) = 17
    BY WordSumPair DEF Even
  <2> HIDE DEF head
  <2> QED
    BY <1>3, <2>1, Followed
<1> HIDE DEF kind
<1>11. /\ pseudo \in Seq(Nat) /\ Even(pseudo) /\ WordSum(pseudo) = WordSum(kind) + size
  <2>1. Bytes(size) \in Seq(Nat) /\ Len(Bytes(size)) = 2 /\ WordSum(Bytes(size)) = size
    BY <1>1, BytesFacts
  <2>2. Even(Bytes(size))
    BY <2>1 DEF Even
  <2> QED
    BY <1>10, <2>1, <2>2, Followed
<1> HIDE DEF pseudo
<1>12. /\ whole \in Seq(Nat) /\ WordSum(whole) = WordSum(pseudo) + WordSum(s)
  BY <1>8, <1>11, Followed
<1> HIDE DEF whole
<1>13. WordSum(whole) = x + c
  <2>1. WordSum(whole) = (WordSum(src) + WordSum(dst) + 17 + size) + (WordSum(bare) + c)
    BY <1>3, <1>9, <1>10, <1>11, <1>12
  <2>2. x = (WordSum(src) + WordSum(dst) + 17) + size + WordSum(bare)
    BY <1>5
  <2>3. size \in Nat /\ WordSum(bare) \in Nat /\ c \in Nat
    BY <1>1, <1>2, <1>7
  <2>4. WordSum(src) \in Nat /\ WordSum(dst) \in Nat
    BY <1>3
  <2> QED
    BY <2>1, <2>2, <2>3, <2>4
<1>14. AllOnes(whole)
  BY <1>6, <1>12, <1>13, AllOnesSum
<1>15. Bytes(c) # <<0, 0>>
  BY <1>6, <1>7, BytesFacts
<1>16. SegmentVerifies(src, dst, s)
  <2>1. whole = src \o dst \o <<0, 17>> \o Bytes(Len(s)) \o s
    BY <1>8 DEF whole, pseudo, kind, head
  <2> QED
    BY <1>8, <1>14, <1>15, <2>1 DEF SegmentVerifies
<1> QED
  BY <1>4, <1>8, <1>16 DEF size, IsSegment

-----------------------------------------------------------------------------
(* The header of IPv4: its words apart from the checksum, and its parts.   *)
Fixed == <<0, 0, 64, 0, 64, 17>>

HeaderSum(src, dst, payload) ==
  WordSum(<<69, 0>>) + WordSum(Bytes(28 + Len(payload))) + WordSum(Fixed) + WordSum(src) + WordSum(dst)

IsHeader(h, src, dst, check, payload) ==
  /\ h \in Seq(Nat) /\ Len(h) = 20 /\ Even(h)
  /\ SubSeq(h, 3, 4) = Bytes(28 + Len(payload))
  /\ SubSeq(h, 13, 20) = src \o dst
  /\ HeaderSum(src, dst, payload) \in Nat \ {0}
  /\ WordSum(h) = HeaderSum(src, dst, payload) + check

LEMMA Assoc ==
  \A s, t, u \in Seq(Nat) : (s \o t) \o u = s \o (t \o u)
BY ConcatAssociative

LEMMA HeaderFacts ==
  ASSUME NEW src \in Seq(Nat), Len(src) = 4, NEW dst \in Seq(Nat), Len(dst) = 4,
         NEW check \in Nat, Short(check), NEW payload \in Seq(Nat)
  PROVE  IsHeader(Ipv4Header(src, dst, check, payload), src, dst, check, payload)
<1> DEFINE size == 28 + Len(payload)
           bl == Bytes(size)
           bc == Bytes(check)
           two == <<69, 0>>
           four == two \o bl
           ten == four \o Fixed
           twelve == ten \o bc
           sixteen == twelve \o src
           h == sixteen \o dst
           ends == src \o dst
<1>1. /\ bl \in Seq(Nat) /\ Len(bl) = 2 /\ Even(bl)
      /\ bc \in Seq(Nat) /\ Len(bc) = 2 /\ Even(bc) /\ WordSum(bc) = check
  <2>1. size \in Nat
    OBVIOUS
  <2> HIDE DEF size
  <2>2. /\ bl \in Seq(Nat) /\ Len(bl) = 2 /\ bc \in Seq(Nat) /\ Len(bc) = 2
        /\ WordSum(bc) = check
    BY <2>1, BytesFacts
  <2> QED
    BY <2>2 DEF Even
<1>2. Ipv4Header(src, dst, check, payload) = h
  BY DEF Ipv4Header, Fixed
<1> HIDE DEF bl, bc
<1>3. Even(src) /\ Even(dst)
  BY DEF Even
<1>4. two \in Seq(Nat) /\ Even(two) /\ Len(two) = 2 /\ WordSum(two) \in Nat \ {0}
  <2>1. WordSum(two) = 256 * 69 + 0
    BY WordSumPair
  <2> QED
    BY <2>1 DEF Even
<1>5. Fixed \in Seq(Nat) /\ Even(Fixed) /\ Len(Fixed) = 6
  <2>1. Fixed \in Seq(Nat) /\ Len(Fixed) = 6
    BY DEF Fixed
  <2> QED
    BY <2>1 DEF Even
<1> HIDE DEF two
<1>6. /\ four \in Seq(Nat) /\ Even(four) /\ Len(four) = 4
      /\ WordSum(four) = WordSum(two) + WordSum(bl) /\ WordSum(bl) \in Nat
      /\ SubSeq(four, 3, 4) = bl
  <2> two \in Seq(Nat) /\ Even(two) /\ bl \in Seq(Nat) /\ Even(bl)
    BY <1>1, <1>4
  <2>1. SubSeq(four, Len(two) + 1, Len(two) + Len(bl)) = bl
    BY SliceRight
  <2>2. /\ four \in Seq(Nat) /\ Even(four) /\ Len(four) = Len(two) + Len(bl)
        /\ WordSum(four) = WordSum(two) + WordSum(bl) /\ WordSum(bl) \in Nat
    BY Followed
  <2> HIDE DEF four
  <2>3. Len(two) + 1 = 3 /\ Len(two) + Len(bl) = 4
    BY <1>1, <1>4
  <2>4. Len(four) = 4 /\ SubSeq(four, 3, 4) = bl
    BY <1>1, <1>4, <2>1, <2>2, <2>3
  <2>5. WordSum(four) = WordSum(two) + WordSum(bl)
    BY <1>4, <2>2
  <2> QED
    BY <2>2, <2>4, <2>5, Zenon
<1> HIDE DEF four
<1>7. /\ ten \in Seq(Nat) /\ Even(ten) /\ Len(ten) = 10
      /\ WordSum(ten) = WordSum(four) + WordSum(Fixed) /\ WordSum(Fixed) \in Nat
      /\ SubSeq(ten, 3, 4) = bl
  <2> four \in Seq(Nat) /\ Even(four) /\ Fixed \in Seq(Nat) /\ Even(Fixed)
    BY <1>5, <1>6
  <2>1. /\ ten \in Seq(Nat) /\ Even(ten) /\ Len(ten) = Len(four) + Len(Fixed)
        /\ WordSum(ten) = WordSum(four) + WordSum(Fixed) /\ WordSum(Fixed) \in Nat
    BY Followed
  <2>2. /\ 3 \in Nat \ {0} /\ 4 \in Nat /\ 4 <= Len(four)
        /\ four \in Seq(Nat) /\ Fixed \in Seq(Nat)
    BY <1>5, <1>6
  <2>3. SubSeq(ten, 3, 4) = SubSeq(four, 3, 4)
    BY <2>2, SliceLeft
  <2> HIDE DEF ten
  <2> QED
    BY <1>5, <1>6, <2>1, <2>3
<1> HIDE DEF ten
<1>8. /\ twelve \in Seq(Nat) /\ Even(twelve) /\ Len(twelve) = 12
      /\ WordSum(twelve) = WordSum(ten) + check
      /\ SubSeq(twelve, 3, 4) = bl
  <2>1. /\ twelve \in Seq(Nat) /\ Even(twelve) /\ Len(twelve) = Len(ten) + Len(bc)
        /\ WordSum(twelve) = WordSum(ten) + WordSum(bc)
    BY <1>1, <1>7, Followed
  <2>2. /\ 3 \in Nat \ {0} /\ 4 \in Nat /\ 4 <= Len(ten)
        /\ ten \in Seq(Nat) /\ bc \in Seq(Nat)
    BY <1>1, <1>7
  <2>3. SubSeq(twelve, 3, 4) = SubSeq(ten, 3, 4)
    BY <2>2, SliceLeft
  <2> HIDE DEF twelve
  <2> QED
    BY <1>1, <1>7, <2>1, <2>3
<1> HIDE DEF twelve
<1>9. /\ ends \in Seq(Nat) /\ Even(ends) /\ Len(ends) = 8
      /\ WordSum(ends) = WordSum(src) + WordSum(dst)
      /\ WordSum(src) \in Nat /\ WordSum(dst) \in Nat
  <2>1. /\ ends \in Seq(Nat) /\ Even(ends) /\ Len(ends) = Len(src) + Len(dst)
        /\ WordSum(ends) = WordSum(src) + WordSum(dst)
        /\ WordSum(src) \in Nat /\ WordSum(dst) \in Nat
    BY <1>3, Followed
  <2> HIDE DEF ends
  <2> QED
    BY <2>1
<1>10. h = twelve \o ends
  <2>1. twelve \in Seq(Nat) /\ src \in Seq(Nat) /\ dst \in Seq(Nat)
    BY <1>8
  <2>2. (twelve \o src) \o dst = twelve \o (src \o dst)
    BY <2>1, Assoc
  <2> QED
    BY <2>2
<1> HIDE DEF h, ends
<1>11. /\ h \in Seq(Nat) /\ Even(h) /\ Len(h) = 20
       /\ WordSum(h) = WordSum(twelve) + WordSum(ends)
       /\ SubSeq(h, 3, 4) = bl
       /\ SubSeq(h, 13, 20) = ends
  <2>1. /\ h \in Seq(Nat) /\ Even(h) /\ Len(h) = Len(twelve) + Len(ends)
        /\ WordSum(h) = WordSum(twelve) + WordSum(ends)
    BY <1>8, <1>9, <1>10, Followed
  <2>2. /\ 3 \in Nat \ {0} /\ 4 \in Nat /\ 4 <= Len(twelve)
        /\ twelve \in Seq(Nat) /\ ends \in Seq(Nat)
    BY <1>8, <1>9
  <2>3. SubSeq(h, 3, 4) = SubSeq(twelve, 3, 4)
    BY <1>10, <2>2, SliceLeft
  <2>4. SubSeq(h, Len(twelve) + 1, Len(twelve) + Len(ends)) = ends
    BY <1>10, <2>2, SliceRight
  <2>5. Len(twelve) + 1 = 13 /\ Len(twelve) + Len(ends) = 20
    BY <1>8, <1>9
  <2> QED
    BY <1>8, <2>1, <2>3, <2>4, <2>5
<1>12. HeaderSum(src, dst, payload)
         = WordSum(two) + WordSum(bl) + WordSum(Fixed) + WordSum(src) + WordSum(dst)
  BY DEF HeaderSum, bl, two
<1>13. /\ WordSum(h) = HeaderSum(src, dst, payload) + check
       /\ HeaderSum(src, dst, payload) \in Nat \ {0}
  <2>1. /\ WordSum(bl) \in Nat /\ WordSum(Fixed) \in Nat
        /\ WordSum(src) \in Nat /\ WordSum(dst) \in Nat
    BY <1>6, <1>7, <1>9
  <2>2. WordSum(h) = WordSum(two) + WordSum(bl) + WordSum(Fixed) + check + (WordSum(src) + WordSum(dst))
    BY <1>6, <1>7, <1>8, <1>9, <1>11
  <2> QED
    BY <1>4, <1>12, <2>1, <2>2
<1> QED
  BY <1>2, <1>11, <1>13 DEF bl, ends, IsHeader

(* An IPv4 packet is a header whose words verify, and the segment. *)
IsPacket(p, src, dst, payload) ==
  /\ HeaderVerifies(p)
  /\ SubSeq(p, 3, 4) = Bytes(Len(p))
  /\ SubSeq(p, 13, 20) = src \o dst
  /\ IsSegment(SubSeq(p, 21, Len(p)), src, dst, payload)

LEMMA Ipv4Facts ==
  ASSUME NEW src \in Seq(Nat), Len(src) = 4, NEW dst \in Seq(Nat), Len(dst) = 4,
         NEW ports, ports.src \in Nat, ports.dst \in Nat,
         NEW payload \in Seq(Nat), Short(28 + Len(payload))
  PROVE  IsPacket(Ipv4UdpPacket(src, dst, ports, payload), src, dst, payload)
<1> DEFINE bare == Ipv4Header(src, dst, 0, payload)
           c == Complement(WordSum(bare))
           h == Ipv4Header(src, dst, c, payload)
           s == SegmentOf(src, dst, ports, payload)
           p == h \o s
<1>1. /\ 0 \in Nat /\ Short(0) /\ Len(payload) \in Nat /\ Short(8 + Len(payload))
      /\ Even(src) /\ Even(dst)
  BY DEF Short, Even
<1>2. WordSum(bare) = HeaderSum(src, dst, payload) + 0 /\ HeaderSum(src, dst, payload) \in Nat \ {0}
  <2>1. IsHeader(bare, src, dst, 0, payload)
    BY <1>1, HeaderFacts
  <2> QED
    BY <2>1 DEF IsHeader
<1> HIDE DEF bare
<1>3. WordSum(bare) \in Nat /\ WordSum(bare) > 0 /\ WordSum(bare) = HeaderSum(src, dst, payload)
  BY <1>2
<1>4. Short(c) /\ Ones(WordSum(bare) + c)
  BY <1>3, ComplementFacts
<1>5. Ipv4UdpPacket(src, dst, ports, payload) = p
  BY DEF Ipv4UdpPacket, Checksum, bare
<1> HIDE DEF c
<1>6. c \in Nat
  BY <1>4 DEF Short
<1>7. /\ h \in Seq(Nat) /\ Len(h) = 20 /\ Even(h)
      /\ SubSeq(h, 3, 4) = Bytes(28 + Len(payload))
      /\ SubSeq(h, 13, 20) = src \o dst
      /\ WordSum(h) = HeaderSum(src, dst, payload) + c
  <2>1. c \in Nat /\ Short(c)
    BY <1>4, <1>6
  <2>2. IsHeader(h, src, dst, c, payload)
    BY <2>1, HeaderFacts
  <2> HIDE DEF h
  <2> QED
    BY <2>2 DEF IsHeader
<1>8. s \in Seq(Nat) /\ Len(s) = 8 + Len(payload) /\ IsSegment(s, src, dst, payload)
  <2>1. IsSegment(s, src, dst, payload)
    BY <1>1, SegmentFacts
  <2> HIDE DEF s
  <2> QED
    BY <2>1 DEF IsSegment
<1> HIDE DEF h, s
<1>9. /\ p \in Seq(Nat) /\ Len(p) = 28 + Len(payload)
      /\ SubSeq(p, 21, Len(p)) = s
  <2>1. /\ p \in Seq(Nat) /\ Len(p) = Len(h) + Len(s)
    BY <1>7, <1>8, Followed
  <2>2. SubSeq(p, Len(h) + 1, Len(h) + Len(s)) = s
    BY <1>7, <1>8, SliceRight
  <2> HIDE DEF p
  <2>3. Len(h) + 1 = 21 /\ Len(h) + Len(s) = 28 + Len(payload)
    BY <1>1, <1>7, <1>8
  <2> QED
    BY <2>1, <2>2, <2>3
<1>10. /\ SubSeq(p, 1, 20) = SubSeq(h, 1, 20)
       /\ SubSeq(p, 3, 4) = SubSeq(h, 3, 4)
       /\ SubSeq(p, 13, 20) = SubSeq(h, 13, 20)
  <2> h \in Seq(Nat) /\ s \in Seq(Nat)
    BY <1>7, <1>8
  <2>1. ASSUME NEW m \in Nat \ {0}, NEW n \in Nat, n <= 20
        PROVE  SubSeq(p, m, n) = SubSeq(h, m, n)
    <3>1. n <= Len(h)
      BY <1>7, <2>1
    <3> QED
      BY <3>1, SliceLeft
  <2>2. 1 \in Nat \ {0} /\ 3 \in Nat \ {0} /\ 13 \in Nat \ {0} /\ 4 \in Nat /\ 20 \in Nat
        /\ 4 <= 20 /\ 20 <= 20
    OBVIOUS
  <2> HIDE DEF p
  <2>3. SubSeq(p, 1, 20) = SubSeq(h, 1, 20)
    BY <2>1, <2>2, Zenon
  <2>4. SubSeq(p, 3, 4) = SubSeq(h, 3, 4)
    BY <2>1, <2>2, Zenon
  <2>5. SubSeq(p, 13, 20) = SubSeq(h, 13, 20)
    BY <2>1, <2>2, Zenon
  <2> QED
    BY <2>3, <2>4, <2>5
<1> HIDE DEF p
<1>11. /\ SubSeq(p, 3, 4) = Bytes(Len(p)) /\ SubSeq(p, 13, 20) = src \o dst
  BY <1>7, <1>9, <1>10
<1>12. HeaderVerifies(p)
  <2>1. SubSeq(p, 1, 20) = h
    <3>1. SubSeq(h, 1, Len(h)) = h
      BY <1>7, SubSeqFull
    <3>2. SubSeq(p, 1, 20) = SubSeq(h, 1, 20)
      BY <1>10
    <3> QED
      BY <1>7, <3>1, <3>2
  <2>2. AllOnes(h)
    BY <1>3, <1>4, <1>7, AllOnesSum
  <2>3. Len(p) >= 20
    BY <1>1, <1>9
  <2> QED
    BY <2>1, <2>2, <2>3 DEF HeaderVerifies
<1> QED
  BY <1>5, <1>8, <1>9, <1>11, <1>12 DEF IsPacket

-----------------------------------------------------------------------------
(* An address is four octets or sixteen. *)
IsHost(h) == h \in Octets \X Octets

LEMMA AddressLength ==
  ASSUME NEW a, a[1] \in Forms, IsHost(a[2])
  PROVE  /\ AddressOctets(a) \in Seq(Nat) /\ Even(AddressOctets(a))
         /\ a[1] = "v4" => Len(AddressOctets(a)) = 4
<1> DEFINE host == HostOctets(a[2])
           ten == [i \in 1 .. 10 |-> 0]
           eight == [i \in 1 .. 8 |-> 0]
<1>1. host \in Seq(Nat) /\ Len(host) = 4 /\ Even(host)
  <2>1. a[2][1] \in Nat /\ a[2][2] \in Nat
    BY DEF IsHost, Octets
  <2>2. host \in Seq(Nat) /\ Len(host) = 4
    BY <2>1 DEF HostOctets
  <2> HIDE DEF host
  <2> QED
    BY <2>2 DEF Even
<1>2. Even(ten) /\ Even(eight)
  <2>1. 10 \in Nat /\ ten \in [1 .. 10 -> Nat] /\ 8 \in Nat /\ eight \in [1 .. 8 -> Nat]
    OBVIOUS
  <2>2. ten \in Seq(Nat) /\ Len(ten) = 10 /\ eight \in Seq(Nat) /\ Len(eight) = 8
    BY <2>1, AsSeq
  <2> HIDE DEF ten, eight
  <2> QED
    BY <2>2 DEF Even
<1> HIDE DEF host, ten, eight
<1>3. \A s, t : Even(s) /\ Even(t) => Even(s \o t)
  <2> SUFFICES ASSUME NEW s, NEW t, Even(s), Even(t) PROVE Even(s \o t)
    OBVIOUS
  <2>1. t \in Seq(Nat)
    BY DEF Even
  <2> QED
    BY <2>1, Followed
<1>4. Even(<<255, 255>>) /\ Even(<<0, 100, 255, 155>>) /\ Even(<<32, 1, 13, 184>>)
  BY DEF Even
<1>5. CASE a[1] = "v4"
  BY <1>1, <1>5 DEF AddressOctets, host, Even
<1>6. CASE a[1] = "mapped"
  <2>1. AddressOctets(a) = ten \o <<255, 255>> \o host
    BY <1>6 DEF AddressOctets, host, ten
  <2>2. Even(ten \o <<255, 255>>)
    BY <1>2, <1>3, <1>4, Zenon
  <2>3. Even((ten \o <<255, 255>>) \o host)
    BY <1>1, <1>3, <2>2, Zenon
  <2> QED
    BY <1>6, <2>1, <2>3 DEF Even
<1>7. CASE a[1] = "nat64"
  <2>1. AddressOctets(a) = <<0, 100, 255, 155>> \o eight \o host
    BY <1>7 DEF AddressOctets, host, eight
  <2>2. Even(<<0, 100, 255, 155>> \o eight)
    BY <1>2, <1>3, <1>4, Zenon
  <2>3. Even((<<0, 100, 255, 155>> \o eight) \o host)
    BY <1>1, <1>3, <2>2, Zenon
  <2> QED
    BY <1>7, <2>1, <2>3 DEF Even
<1>8. CASE a[1] = "v6"
  <2>1. AddressOctets(a) = <<32, 1, 13, 184>> \o eight \o host
    BY <1>8 DEF AddressOctets, host, eight
  <2>2. Even(<<32, 1, 13, 184>> \o eight)
    BY <1>2, <1>3, <1>4, Zenon
  <2>3. Even((<<32, 1, 13, 184>> \o eight) \o host)
    BY <1>1, <1>3, <2>2, Zenon
  <2> QED
    BY <1>8, <2>1, <2>3 DEF Even
<1> QED
  BY <1>5, <1>6, <1>7, <1>8 DEF Forms

(* The last packet is the one built for its source and payload, and the    *)
(* source is of the family of the target.                                  *)
PacketInv == packet # None =>
  /\ packet.payload \in Payloads
  /\ packet.source[1] \in Forms /\ IsHost(packet.source[2])
  /\ packet.source[1] = "v4" <=> conf.family = "v4"
  /\ packet.octets = PacketFor(packet.source, packet.payload)

(* The source a packet is built with is of the family of the target. *)
LEMMA BuiltFacts ==
  ASSUME IInv, stage = "ready", mode.kind # "standard", NEW a \in Clients,
         SourceOf(a) # None, ~Mismatch(SourceOf(a))
  PROVE  LET b == BuiltSource(SourceOf(a)) IN
         /\ b[1] \in Forms /\ IsHost(b[2])
         /\ b[1] = "v4" <=> conf.family = "v4"
<1> DEFINE src == SourceOf(a)
<1>1. /\ conf \in Settings /\ Accepts(conf) /\ mode = ModeOf(conf)
      /\ conf.family \in {"v4", "v6"} /\ mode.address \in Configured \cup {None}
  BY ModeFacts DEF IInv, Settings
<1>2. /\ \A x \in Clients \cup Configured : x[1] \in Forms /\ IsHost(x[2])
  BY AddressFacts, OctetsAssumption DEF IsHost, HostOf
<1>3. RealSource(a)[1] \in Forms /\ IsHost(RealSource(a)[2])
  BY <1>2 DEF RealSource, HostOf, Forms
<1>4. src = mode.address \/ src = RealSource(a)
  BY DEF SourceOf, EffectiveSource
<1>5. src[1] \in Forms /\ IsHost(src[2])
  BY <1>1, <1>2, <1>3, <1>4
<1>6. ~(Family(src) = "v6" /\ conf.family = "v4")
  BY DEF Mismatch
<1> HIDE DEF src
<1>7. LET b == BuiltSource(src) IN
      /\ b[1] \in Forms /\ IsHost(b[2])
      /\ b[1] = "v4" <=> conf.family = "v4"
  BY <1>1, <1>5, <1>6 DEF BuiltSource, Nat64, Family, HostOf, Forms
<1> QED
  BY <1>7 DEF src

(* A step that keeps the packet and the settings, or that has no packet. *)
LEMMA PacketStays ==
  ASSUME PacketInv, packet' = None \/ UNCHANGED <<conf, packet>>
  PROVE  PacketInv'
BY DEF PacketInv, PacketFor, Target

LEMMA PacketStep ==
  ASSUME IInv, PacketInv, [Next]_vars
  PROVE  PacketInv'
<1>1. CASE Validate \/ Build \/ UNCHANGED vars
  BY <1>1, PacketStays DEF Validate, Build, vars
<1>2. CASE \E a \in Clients : Skip(a) \/ SendFails(a) \/ SendStandard(a)
  BY <1>2, PacketStays DEF Skip, SendFails, SendStandard
<1>3. ASSUME NEW a \in Clients, NEW payload \in Payloads, SendRaw(a, payload)
      PROVE  PacketInv'
  <2> DEFINE b == BuiltSource(SourceOf(a))
  <2>1. CASE packet' = None
    BY <2>1, PacketStays
  <2>2. CASE /\ SourceOf(a) # None /\ ~Mismatch(SourceOf(a))
             /\ packet' = [source |-> b, payload |-> payload, octets |-> PacketFor(b, payload)]
    <3>1. stage = "ready" /\ mode.kind # "standard" /\ UNCHANGED conf
      BY <1>3 DEF SendRaw, Sends
    <3>2. b[1] \in Forms /\ IsHost(b[2]) /\ (b[1] = "v4" <=> conf.family = "v4")
      BY <2>2, <3>1, BuiltFacts
    <3> HIDE DEF b
    <3>3. /\ packet'.source = b /\ packet'.payload = payload
          /\ packet'.octets = PacketFor(b, payload)
      BY <2>2
    <3>4. PacketFor(packet.source, packet.payload)' = PacketFor(b, payload)
      BY <3>1, <3>3 DEF PacketFor, Target
    <3> QED
      BY <3>1, <3>2, <3>3, <3>4 DEF PacketInv
  <2> QED
    BY <1>3, <2>1, <2>2 DEF SendRaw
<1> QED
  BY <1>1, <1>2, <1>3 DEF Next

LEMMA PacketInductive == Spec => [](IInv /\ PacketInv)
<1>1. Init => PacketInv
  BY DEF Init, PacketInv
<1> QED
  BY <1>1, InitIInv, StepIInv, PacketStep, PTL DEF Spec

(* The length fields of the packet hold its lengths: there is one in the   *)
(* UDP header, and in the IPv4 header, of twenty octets, another.          *)
Fits == packet # None =>
  /\ Short(8 + Len(packet.payload))
  /\ conf.family = "v4" => Short(28 + Len(packet.payload))

(* A receiver that sees the source chosen takes the packet for what it is. *)
LEMMA PacketsVerify ==
  ASSUME IInv, PacketInv, Fits
  PROVE  ChecksumsVerify
<1> SUFFICES ASSUME packet # None PROVE ChecksumsVerify
  BY DEF ChecksumsVerify
<1> DEFINE src == AddressOctets(packet.source)
           dst == Target
           pay == packet.payload
           octets == packet.octets
<1>1. /\ pay \in Payloads /\ packet.source[1] \in Forms /\ IsHost(packet.source[2])
      /\ packet.source[1] = "v4" <=> conf.family = "v4"
      /\ octets = PacketFor(packet.source, pay)
      /\ conf.family \in {"v4", "v6"}
  BY DEF PacketInv, IInv, Settings
<1>2. /\ pay \in Seq(Nat) /\ Short(8 + Len(pay))
      /\ conf.family = "v4" => Short(28 + Len(pay))
  <2>1. pay \in Seq(Octets)
    BY <1>1, OctetsAssumption
  <2>2. pay \in Seq(Nat)
    <3>1. Octets \subseteq Nat
      BY DEF Octets
    <3> QED
      BY <2>1, <3>1, SeqMonotonic
  <2> QED
    BY <2>2 DEF Fits
<1>3. Ports.src \in Nat /\ Ports.dst \in Nat
  <2> QED
    BY WordsFacts, OctetsAssumption, Zenon
<1>4. src \in Seq(Nat) /\ Even(src) /\ (packet.source[1] = "v4" => Len(src) = 4)
  BY <1>1, AddressLength
<1>5. dst \in Seq(Nat) /\ Even(dst) /\ (conf.family = "v4" => Len(dst) = 4)
  <2> DEFINE t == <<conf.family, TargetHost>>
  <2>1. t[1] = conf.family /\ t[1] \in Forms /\ IsHost(t[2])
    BY <1>1, OctetsAssumption DEF Forms, IsHost
  <2> HIDE DEF t
  <2>2. /\ AddressOctets(t) \in Seq(Nat) /\ Even(AddressOctets(t))
        /\ t[1] = "v4" => Len(AddressOctets(t)) = 4
    BY <2>1, AddressLength
  <2> QED
    BY <2>1, <2>2 DEF Target, t
<1>6. CASE conf.family = "v4"
  <2>1. octets = Ipv4UdpPacket(src, dst, Ports, pay)
    BY <1>1, <1>6 DEF PacketFor
  <2>2. Len(src) = 4 /\ Len(dst) = 4 /\ Short(28 + Len(pay))
    BY <1>1, <1>2, <1>4, <1>5, <1>6
  <2> HIDE DEF src, dst, pay, octets
  <2>3. IsPacket(octets, src, dst, pay)
    BY <1>2, <1>3, <1>4, <1>5, <2>1, <2>2, Ipv4Facts
  <2>4. 20 + 1 = 21
    OBVIOUS
  <2> QED
    BY <1>6, <2>3, <2>4 DEF ChecksumsVerify, IsPacket, IsSegment, src, dst, pay, octets
<1>7. CASE conf.family = "v6"
  <2>1. octets = SegmentOf(src, dst, Ports, pay)
    BY <1>1, <1>7 DEF PacketFor, Ipv6UdpPacket
  <2> HIDE DEF src, dst, pay, octets
  <2>2. IsSegment(octets, src, dst, pay)
    BY <1>2, <1>3, <1>4, <1>5, <2>1, SegmentFacts
  <2>3. SubSeq(octets, 0 + 1, Len(octets)) = octets
    BY <2>2, SubSeqFull DEF IsSegment
  <2> QED
    BY <1>7, <2>2, <2>3 DEF ChecksumsVerify, IsSegment, src, dst, pay, octets
<1> QED
  BY <1>1, <1>6, <1>7

(* raw_socket.rs:156-323: whatever payload whose length the headers hold,  *)
(* up to 65507 octets behind IPv4 and 65527 behind IPv6, the most that a   *)
(* UDP datagram of each has, and whatever addresses and ports, the         *)
(* checksums of every packet verify for a receiver that sees the source    *)
(* chosen, its lengths are the packet's own, and it holds the payload. An  *)
(* IPv4 target is such a receiver, an IPv6 target is not.                  *)
THEOREM ChecksumsHold == Spec => [](Fits => ChecksumsVerify)
<1>1. IInv /\ PacketInv => (Fits => ChecksumsVerify)
  BY PacketsVerify
<1> QED
  BY <1>1, PacketInductive, PTL
=============================================================================
