--------------------------- MODULE AuthorityProofs ---------------------------
(* Proofs about the re-mint gate (SwCap) and the three systems that mint through it:
   chains of delegation (Delegation), the versioned slot (VGate) and the trust store
   (TrustStore); for every word size and every choice of their other constants. *)
EXTENDS Delegation, VGate, TrustStore, TLAPS

(* The memory a root covers does not wrap around the address space. *)
Real(c) == c.base + c.length <= WordMod

(* A re-mint whose status is OK has passed every check, in particular these. *)
LEMMA RemintChecks ==
  ASSUME NEW cu, NEW pir, NEW r, cvsasx_sw_cap_remint(cu, pir, r).valid
  PROVE  /\ cvsasx_sw_cap_remint(cu, pir, r) = Derived(pir, r)
         /\ cu.initialized /\ cu.root.valid
         /\ pir.unsealed
         /\ sw_check_region(cu, r) /\ BoundsOK(pir, r)
         /\ pir.perms \cap FORBIDDEN_MASK = {} /\ ~WxViolation(pir.perms)
         /\ pir.perms \subseteq r.object_cap.perms
<1>1. RemintStatus(cu, pir, r) = "OK"
  BY Zenon DEF cvsasx_sw_cap_remint, NullCap
<1>2. cvsasx_sw_cap_remint(cu, pir, r) = Derived(pir, r)
  BY Zenon, <1>1 DEF cvsasx_sw_cap_remint
<1> QED BY Zenon, <1>1, <1>2 DEF RemintStatus

(* The sum the gate computes does not wrap, and what it derives lies in the
   region, which lies in the root. *)
LEMMA DerivedWithin ==
  ASSUME NEW root \in Cap, Real(root), NEW r \in Region, NEW pir \in PIR,
         Within(r.object_cap.base, r.object_cap.length, root.base, root.length),
         r.object_cap.length = r.object_length, BoundsOK(pir, r)
  PROVE  /\ Derived(pir, r) \in Cap
         /\ Derived(pir, r).base = r.object_cap.base + pir.offset
         /\ r.object_cap.base + pir.offset + pir.length
              <= r.object_cap.base + r.object_cap.length
         /\ root.base <= r.object_cap.base
         /\ r.object_cap.base + r.object_cap.length <= root.base + root.length
         /\ root.base + root.length <= WordMod
<1>1. /\ root.base \in Word /\ root.length \in Word
      /\ r.object_cap.base \in Word /\ r.object_cap.length \in Word /\ r.object_length \in Word
      /\ pir.offset \in Word /\ pir.length \in Word /\ pir.perms \subseteq Perm
  BY Zenon DEF Cap, Region, PIR
<1>2. WordMod \in Nat /\ WordMod > 0
  BY Zenon, WordAssumption
<1>3. /\ root.base <= r.object_cap.base
      /\ r.object_cap.base + r.object_cap.length <= root.base + root.length
      /\ root.base + root.length <= WordMod
  BY <1>1, <1>2 DEF Within, Real, Word
<1>4. /\ pir.length > 0 /\ r.object_cap.base + pir.offset + pir.length
                            <= r.object_cap.base + r.object_cap.length
  BY <1>1, <1>2 DEF BoundsOK, Word
<1>5. /\ r.object_cap.base + pir.offset < WordMod
      /\ Plus(r.object_cap.base, pir.offset) = r.object_cap.base + pir.offset
      /\ Plus(r.object_cap.base, pir.offset) \in Word
  BY <1>1, <1>2, <1>3, <1>4 DEF Plus, Word
<1> QED BY Zenon, <1>1, <1>3, <1>4, <1>5 DEF Derived, Cap

(* In memory that does not wrap, authority is an interval of addresses. *)
LEMMA AuthorityInterval ==
  ASSUME NEW c \in Cap, Real(c), NEW a \in Word, NEW p \in Perm
  PROVE  <<a, p>> \in Authority(c) <=> c.valid /\ p \in c.perms /\ c.base <= a /\ a < c.base + c.length
<1>1. c.base \in Word /\ c.length \in Word /\ WordMod \in Nat
  BY Zenon, WordAssumption DEF Cap
<1>2. ASSUME NEW k \in 0..(c.length - 1) PROVE Plus(c.base, k) = c.base + k
  BY <1>1 DEF Plus, Word, Real
<1>3. (\E k \in 0..(c.length - 1) : a = Plus(c.base, k)) <=> c.base <= a /\ a < c.base + c.length
  <2>1. ASSUME c.base <= a, a < c.base + c.length PROVE \E k \in 0..(c.length - 1) : a = Plus(c.base, k)
    <3>1. a - c.base \in 0..(c.length - 1) /\ a = c.base + (a - c.base)
      BY <1>1, <2>1 DEF Word
    <3> QED BY Zenon, <1>2, <3>1
  <2>2. ASSUME NEW k \in 0..(c.length - 1), a = Plus(c.base, k) PROVE c.base <= a /\ a < c.base + c.length
    BY <1>1, <1>2, <2>2 DEF Word
  <2> QED BY Zenon, <2>1, <2>2
<1> QED BY Zenon, <1>3 DEF Authority

(* A capability inside another, with no more permissions, is authority for no
   more. *)
LEMMA Nested ==
  ASSUME NEW c \in Cap, NEW d \in Cap, Real(d), d.valid,
         d.base <= c.base, c.base + c.length <= d.base + d.length, c.perms \subseteq d.perms
  PROVE  Real(c) /\ Authority(c) \subseteq Authority(d)
<1>1. /\ c.base \in Word /\ c.length \in Word /\ d.base \in Word /\ d.length \in Word
      /\ WordMod \in Nat
  BY Zenon, WordAssumption DEF Cap
<1>2. Real(c)
  BY <1>1 DEF Real, Word
<1>3. ASSUME NEW a \in Word, NEW p \in Perm, <<a, p>> \in Authority(c)
      PROVE  <<a, p>> \in Authority(d)
  <2>1. p \in c.perms /\ c.base <= a /\ a < c.base + c.length
    BY Zenon, <1>2, <1>3, AuthorityInterval
  <2>2. p \in d.perms /\ d.base <= a /\ a < d.base + d.length
    BY <1>1, <2>1 DEF Word
  <2> QED BY Zenon, <2>2, AuthorityInterval
<1> QED BY <1>2, <1>3 DEF Authority

(* The gate: whatever it mints is authority for nothing that the region's
   capability, or the root, is not authority for. *)
LEMMA GateNarrows ==
  ASSUME NEW cu \in Custodian, Real(cu.root), NEW pir \in PIR, NEW r \in Region,
         cvsasx_sw_cap_remint(cu, pir, r).valid
  PROVE  LET c == cvsasx_sw_cap_remint(cu, pir, r) IN
         /\ c \in Cap /\ Real(c)
         /\ c.base = r.object_cap.base + pir.offset /\ c.length = pir.length /\ c.perms = pir.perms
         /\ r.object_cap.base = r.object_base_addr /\ r.object_cap.length = r.object_length
         /\ pir.offset + pir.length <= r.object_length
         /\ Authority(c) \subseteq Authority(r.object_cap)
         /\ Authority(r.object_cap) \subseteq Authority(cu.root)
<1> DEFINE c == cvsasx_sw_cap_remint(cu, pir, r)
<1>1. /\ c = Derived(pir, r) /\ cu.root.valid
      /\ sw_check_region(cu, r) /\ BoundsOK(pir, r) /\ pir.perms \subseteq r.object_cap.perms
  BY Zenon, RemintChecks
<1>2. /\ cu.root \in Cap /\ r.object_cap \in Cap /\ r.object_length \in Word
      /\ pir.offset \in Word /\ pir.length \in Word
  BY Zenon DEF Custodian, Region, PIR
<1>3. /\ r.object_cap.valid /\ r.object_cap.perms \subseteq cu.root.perms
      /\ Within(r.object_cap.base, r.object_cap.length, cu.root.base, cu.root.length)
      /\ r.object_cap.base = r.object_base_addr /\ r.object_cap.length = r.object_length
  BY Zenon, <1>1 DEF sw_check_region
<1>4. /\ c \in Cap /\ c.base = r.object_cap.base + pir.offset
      /\ r.object_cap.base + pir.offset + pir.length
              <= r.object_cap.base + r.object_cap.length
      /\ cu.root.base <= r.object_cap.base
      /\ r.object_cap.base + r.object_cap.length <= cu.root.base + cu.root.length
  BY Zenon, <1>1, <1>2, <1>3, DerivedWithin
<1>5. c.length = pir.length /\ c.perms = pir.perms
  BY <1>1 DEF Derived
<1>6. Real(r.object_cap) /\ Authority(r.object_cap) \subseteq Authority(cu.root)
  BY Zenon, <1>1, <1>2, <1>3, <1>4, Nested
<1>7. /\ r.object_cap.base <= c.base /\ pir.offset + pir.length <= r.object_length
  BY <1>2, <1>3, <1>4 DEF Cap, Word
<1>8. Real(c) /\ Authority(c) \subseteq Authority(r.object_cap)
  BY Zenon, <1>1, <1>2, <1>3, <1>4, <1>5, <1>6, <1>7, Nested
<1> QED BY Zenon, <1>3, <1>4, <1>5, <1>6, <1>7, <1>8

-----------------------------------------------------------------------------
(* Delegation, for every set of nodes, roots, regions and presented PIRs, and chains
   of any length. *)

(* The bytes and permissions of the object that a PIR asks for. *)
PirAuthority(pir) ==
  {x \in Word \X Perm :
     x[2] \in pir.perms /\ pir.offset <= x[1] /\ x[1] < pir.offset + pir.length}

(* What is true of one held capability: it lies in its region as placed, it is
   hosted, and neither it nor its region exceeds the root or its chain's seed. *)
HeldOK(h) ==
  /\ Real(h.cap) /\ Real(h.root)
  /\ h.region.object_base_addr <= h.cap.base
  /\ h.cap.base + h.cap.length <= h.region.object_base_addr + h.region.object_length
  /\ Authority(h.cap) \subseteq Authority(h.region.object_cap)
  /\ Authority(h.region.object_cap) \subseteq Authority(h.root)
  /\ "SEAL" \notin h.cap.perms
  /\ "EXECUTE" \in h.cap.perms => "STORE" \notin h.cap.perms /\ "STORE_CAP" \notin h.cap.perms
  /\ ObjectAuthority(h.cap, h.region.object_base_addr) \subseteq h.seed

(* The inductive invariant.  The chain property needs the PIRs in transit: what
   an unsealed one asks for is in the seed of its chain. *)
DInv ==
  /\ TypeOK
  /\ \A n \in Node : Real(cust[n].root)
  /\ \A h \in held : HeldOK(h)
  /\ \A m \in wire : m.pir.unsealed => PirAuthority(m.pir) \subseteq m.seed

(* A node that accepts a PIR keeps the invariant, if the PIR asks for no more
   than the seed of its chain, or the capability is itself that seed. *)
LEMMA AcceptDInv ==
  ASSUME DInv, NEW n \in Node, NEW pir \in PIR, NEW r \in Regions,
         NEW seed \in SUBSET (Word \X Perm), Accept(n, pir, r, seed),
         \/ pir.unsealed => PirAuthority(pir) \subseteq seed
         \/ seed = ObjectAuthority(cvsasx_sw_cap_remint(cust[n], pir, r), r.object_base_addr)
  PROVE  DInv'
<1> DEFINE c == cvsasx_sw_cap_remint(cust[n], pir, r)
           h == Holding(n, c, cust[n].root, r, seed)
<1>1. c.valid /\ held' = held \cup {h} /\ cust' = cust /\ wire' = wire
  BY Zenon DEF Accept
<1>2. cust[n] \in Custodian /\ Real(cust[n].root) /\ cust[n].root \in Cap
  BY Zenon DEF DInv, TypeOK, Custodian
<1>3. r \in Region
  BY Zenon, DelegationAssumption
<1>4. /\ c \in Cap /\ Real(c)
      /\ c.base = r.object_cap.base + pir.offset /\ c.length = pir.length /\ c.perms = pir.perms
      /\ r.object_cap.base = r.object_base_addr /\ r.object_cap.length = r.object_length
      /\ pir.offset + pir.length <= r.object_length
      /\ Authority(c) \subseteq Authority(r.object_cap)
      /\ Authority(r.object_cap) \subseteq Authority(cust[n].root)
  BY Zenon, <1>1, <1>2, <1>3, GateNarrows
<1>5. pir.unsealed /\ pir.perms \cap FORBIDDEN_MASK = {} /\ ~WxViolation(pir.perms)
  BY Zenon, <1>1, RemintChecks
<1>6. /\ r.object_base_addr \in Word /\ r.object_length \in Word
      /\ pir.offset \in Word /\ pir.length \in Word /\ WordMod \in Nat
  BY Zenon, <1>3, WordAssumption DEF Region, PIR
<1>7. ObjectAuthority(c, r.object_base_addr) \subseteq PirAuthority(pir)
  BY <1>4, <1>6 DEF ObjectAuthority, PirAuthority, Word
<1>8. ObjectAuthority(c, r.object_base_addr) \subseteq seed
  BY Zenon, <1>5, <1>7
<1>9. /\ h.node = n /\ h.cap = c /\ h.root = cust[n].root /\ h.region = r /\ h.seed = seed
  BY Zenon DEF Holding
<1>10. HeldOK(h)
  <2>1. /\ r.object_base_addr <= c.base
        /\ c.base + c.length <= r.object_base_addr + r.object_length
    BY <1>4, <1>6 DEF Word
  <2>2. /\ "SEAL" \notin c.perms
        /\ "EXECUTE" \in c.perms => "STORE" \notin c.perms /\ "STORE_CAP" \notin c.perms
    BY Zenon, <1>4, <1>5 DEF FORBIDDEN_MASK, WxViolation, WRITE_ANY
  <2> HIDE DEF c, h
  <2> QED BY Zenon, <1>2, <1>4, <1>8, <1>9, <2>1, <2>2 DEF HeldOK
<1>11. TypeOK'
  <2> HIDE DEF c, h
  <2> QED BY Zenon, <1>1, <1>2, <1>4, <1>8, <1>9 DEF DInv, TypeOK
<1> HIDE DEF c, h
<1> QED BY Zenon, <1>1, <1>10, <1>11 DEF DInv

(* strip asks for exactly what the capability holds of the object. *)
LEMMA StripDInv ==
  ASSUME DInv, NEW h \in held, Strip(h)
  PROVE  DInv'
<1> DEFINE pir == cvsasx_sw_cap_strip(h.cap, h.region)
           m == [pir |-> pir, seed |-> h.seed]
<1>1. wire' = wire \cup {m} /\ cust' = cust /\ held' = held
  BY Zenon DEF Strip
<1>2. /\ h.cap \in Cap /\ h.region \in Region /\ h.seed \subseteq Word \X Perm /\ HeldOK(h)
  BY Zenon, DelegationAssumption DEF DInv, TypeOK
<1>3. /\ h.cap.base \in Word /\ h.cap.length \in Word /\ h.cap.perms \subseteq Perm
      /\ h.region.object_base_addr \in Word /\ h.region.hash \in Hash
      /\ WordMod \in Nat /\ WordMod > 0
  BY Zenon, <1>2, WordAssumption DEF Cap, Region
<1>4. h.cap.base - h.region.object_base_addr \in Word
  BY <1>2, <1>3 DEF HeldOK, Word
<1>5. pir \in PIR /\ (pir.unsealed => PirAuthority(pir) \subseteq h.seed)
  <2>1. CASE pir = OpaquePir
    BY <1>3, <2>1 DEF OpaquePir, PIR, Word
  <2>2. CASE pir # OpaquePir
    <3>1. /\ h.cap.valid
          /\ pir = [referent_hash |-> h.region.hash, offset |-> h.cap.base - h.region.object_base_addr,
                    length |-> h.cap.length, perms |-> h.cap.perms,
                    version_ok |-> TRUE, unsealed |-> TRUE, referent_valid |-> TRUE]
      BY Zenon, <2>2 DEF cvsasx_sw_cap_strip
    <3>2. pir \in PIR
      BY <1>3, <1>4, <3>1 DEF PIR
    <3>3. PirAuthority(pir) \subseteq ObjectAuthority(h.cap, h.region.object_base_addr)
      BY <3>1 DEF PirAuthority, ObjectAuthority
    <3> QED BY Zenon, <1>2, <3>2, <3>3 DEF HeldOK
  <2> QED BY Zenon, <2>1, <2>2
<1> HIDE DEF pir
<1>6. TypeOK'
  BY <1>1, <1>2, <1>5 DEF DInv, TypeOK
<1> QED BY SMTT(30), <1>1, <1>5, <1>6 DEF DInv, HeldOK

(* No custodian, nothing held, nothing in transit. *)
LEMMA InitDInv == Init => DInv
<1> SUFFICES ASSUME Init PROVE DInv
  BY Zenon
<1>1. NullCap \in Cap /\ Real(NullCap)
  BY WordAssumption DEF NullCap, Cap, Word, Real
<1> QED BY Zenon, <1>1 DEF Init, DInv, TypeOK, NoCustodian, Custodian

(* Every step keeps the invariant. *)
LEMMA NextDInv == DInv /\ [Next]_vars => DInv'
<1> SUFFICES ASSUME DInv, [Next]_vars PROVE DInv'
  BY Zenon
<1>1. ASSUME NEW n \in Node, NEW root \in Roots, Boot(n, root) PROVE DInv'
  <2>1. root \in Cap /\ Real(root)
    BY Zenon, DelegationAssumption DEF Real
  <2>2. NullCap \in Cap /\ Real(NullCap)
    BY WordAssumption DEF NullCap, Cap, Word, Real
  <2>3. cvsasx_sw_custodian_init(root) \in Custodian /\ Real(cvsasx_sw_custodian_init(root).root)
    BY Zenon, <2>1, <2>2 DEF cvsasx_sw_custodian_init, Custodian, NoCustodian
  <2>4. /\ cust' \in [Node -> Custodian] /\ \A k \in Node : Real(cust'[k].root)
        /\ held' = held /\ wire' = wire
    BY Zenon, <1>1, <2>3 DEF Boot, DInv, TypeOK
  <2> QED BY Zenon, <2>4 DEF DInv, TypeOK, HeldOK
<1>2. ASSUME NEW n \in Node, NEW r \in Regions, NEW pir \in Presented, Mint(n, pir, r) PROVE DInv'
  <2> DEFINE seed == ObjectAuthority(cvsasx_sw_cap_remint(cust[n], pir, r), r.object_base_addr)
  <2>1. pir \in PIR /\ seed \in SUBSET (Word \X Perm)
    BY Zenon, DelegationAssumption DEF ObjectAuthority
  <2>2. Accept(n, pir, r, seed)
    BY Zenon, <1>2 DEF Mint
  <2> QED BY Zenon, <2>1, <2>2, AcceptDInv
<1>3. ASSUME NEW n \in Node, NEW r \in Regions, NEW m \in wire, Receive(n, m, r) PROVE DInv'
  <2>1. m.pir \in PIR /\ m.seed \in SUBSET (Word \X Perm)
        /\ (m.pir.unsealed => PirAuthority(m.pir) \subseteq m.seed)
    BY Zenon DEF DInv, TypeOK
  <2> QED BY Zenon, <1>3, <2>1, AcceptDInv DEF Receive
<1>4. ASSUME NEW h \in held, Strip(h) PROVE DInv'
  BY Zenon, <1>4, StripDInv
<1>5. ASSUME NEW h \in held, Drop(h) PROVE DInv'
  BY Zenon, <1>5 DEF Drop, DInv, TypeOK, HeldOK
<1>6. ASSUME NEW m \in wire, Lose(m) PROVE DInv'
  BY Zenon, <1>6 DEF Lose, DInv, TypeOK, HeldOK
<1>7. CASE UNCHANGED vars
  BY Zenon, <1>7 DEF vars, DInv, TypeOK, HeldOK
<1> QED BY Zenon, <1>1, <1>2, <1>3, <1>4, <1>5, <1>6, <1>7 DEF Next

(* Confinement follows state by state. *)
LEMMA DInvConfined == DInv => Confined
<1> SUFFICES ASSUME DInv, NEW h \in held, NEW offset \in Word, NEW size \in Word, NEW p \in Perm,
                    cvsasx_swcap_check(h.cap, offset, size, {p}),
                    NEW k \in offset..(offset + size - 1)
             PROVE  /\ <<Plus(h.cap.base, k), p>> \in Authority(h.root)
                    /\ Plus(h.cap.base, k) - h.region.object_base_addr
                         \in 0..(h.region.object_length - 1)
  BY Zenon DEF Confined
<1>1. /\ h.cap \in Cap /\ h.cap.base \in Word /\ h.cap.length \in Word /\ h.region \in Region
      /\ h.region.object_base_addr \in Word /\ h.region.object_length \in Word /\ WordMod \in Nat
  BY Zenon, DelegationAssumption, WordAssumption DEF DInv, TypeOK, Cap, Region
<1>2. HeldOK(h)
  BY Zenon DEF DInv
<1>3. h.cap.valid /\ p \in h.cap.perms /\ k \in Int /\ 0 <= k /\ k < h.cap.length
  BY <1>1 DEF cvsasx_swcap_check, Word
<1>4. /\ Plus(h.cap.base, k) = h.cap.base + k /\ h.cap.base + k \in Word
      /\ h.cap.base <= h.cap.base + k /\ h.cap.base + k < h.cap.base + h.cap.length
  BY <1>1, <1>2, <1>3 DEF Plus, Word, HeldOK, Real
<1>5. <<Plus(h.cap.base, k), p>> \in Authority(h.cap)
  BY Zenon, <1>1, <1>2, <1>3, <1>4, AuthorityInterval DEF HeldOK
<1>6. Plus(h.cap.base, k) - h.region.object_base_addr \in 0..(h.region.object_length - 1)
  BY <1>1, <1>2, <1>3, <1>4 DEF HeldOK, Word
<1> QED BY Zenon, <1>2, <1>5, <1>6 DEF HeldOK

(* Anti-amplification, for every deployment: along chains of any length, over
   any nodes and placements, no capability that the re-mint gate lets through
   exceeds its region, its root or the first capability of its chain; none is
   writable and executable; and every access cvsasx_swcap_check grants lies in
   the object and under the root. *)
THEOREM AntiAmplification ==
  Spec => [](TypeOK /\ NoAmplification /\ AuthorityNarrows /\ Hosted)
<1>1. Init => DInv
  BY Zenon, InitDInv
<1>2. DInv /\ [Next]_vars => DInv'
  BY Zenon, NextDInv
<1>3. DInv => TypeOK /\ NoAmplification /\ ChainNarrows /\ Hosted
  BY Zenon DEF DInv, HeldOK, NoAmplification, ChainNarrows, Hosted
<1>4. DInv => Confined
  BY Zenon, DInvConfined
<1>5. DInv => TypeOK /\ NoAmplification /\ AuthorityNarrows /\ Hosted
  BY Zenon, <1>3, <1>4 DEF AuthorityNarrows
<1> QED BY <1>1, <1>2, <1>5, PTL DEF Spec

-----------------------------------------------------------------------------
(* VGate, for every ceiling, region and set of requests, and across the wrap of the
   version word. *)

(* The fields of the inactive buffer that vgate_commit has written by now are
   those of the replacement. *)
WrittenSoFar ==
  /\ pc \in {"length", "perms", "valid", "commit"} => buf[Inactive].base = rep.base
  /\ pc \in {"perms", "valid", "commit"} => buf[Inactive].length = rep.length
  /\ pc \in {"valid", "commit"} => buf[Inactive].perms = rep.perms
  /\ pc = "commit" => buf[Inactive].valid = rep.valid

VInv ==
  /\ VGateTypeOK
  /\ buf[Active] = committed /\ committed \in Mintable
  /\ pc # "ready" => rep \in Mintable
  /\ WrittenSoFar

(* The parity of the version alternates, also where the word wraps. *)
LEMMA BumpFlips ==
  ASSUME NEW v \in 0..(VersionMod - 1)
  PROVE  Bump(v) \in 0..(VersionMod - 1) /\ Bump(v) % 2 = 1 - (v % 2) /\ v % 2 \in {0, 1}
BY VGateAssumption DEF Bump, VersionMod

(* What the gate mints is a capability. *)
LEMMA MintableCap == Mintable \subseteq Cap
<1> SUFFICES ASSUME NEW pir \in Requests, Minted(pir).valid PROVE Minted(pir) \in Cap
  BY Zenon DEF Mintable
<1>1. Minted(pir) = Derived(pir, RegionCap)
  BY Zenon DEF Minted, cvsasx_sw_cap_remint, NullCap
<1>2. /\ pir.offset \in Word /\ pir.length \in Word /\ pir.perms \subseteq Perm
      /\ RegionCap.object_cap.base \in Word
  BY Zenon, VGateAssumption DEF PIR, Region, Cap
<1>3. Plus(RegionCap.object_cap.base, pir.offset) \in Word
  BY <1>2, WordAssumption DEF Plus, Word
<1> QED BY <1>1, <1>2, <1>3 DEF Derived, Cap

(* What the gate mints for the slot is under the ceiling. *)
LEMMA MintableUnderCeiling ==
  ASSUME NEW c \in Mintable PROVE Authority(c) \subseteq Authority(Ceiling)
<1>1. PICK pir \in Requests : c = cvsasx_sw_cap_remint(vg_cust, pir, RegionCap) /\ c.valid
  BY Zenon DEF Mintable, Minted
<1>2. vg_cust.initialized
  BY Zenon, <1>1, RemintChecks
<1>3. vg_cust = [root |-> Ceiling, initialized |-> TRUE]
  BY Zenon, <1>2 DEF vg_cust, cvsasx_sw_custodian_init, NoCustodian
<1>4. vg_cust \in Custodian /\ vg_cust.root = Ceiling /\ Real(vg_cust.root)
  BY Zenon, <1>3, VGateAssumption DEF Custodian, Real
<1> QED BY Zenon, <1>1, <1>4, GateNarrows, VGateAssumption

(* Writing one field touches the inactive buffer only, and only that field. *)
LEMMA WriteVInv ==
  ASSUME VInv, NEW field \in {"base", "length", "perms", "valid"}, NEW after,
         <<field, after>> \in {<<"base", "length">>, <<"length", "perms">>,
                               <<"perms", "valid">>, <<"valid", "commit">>},
         Write(field, after)
  PROVE  VInv'
<1>1. /\ pc = field /\ pc' = after /\ version' = version /\ rep' = rep /\ committed' = committed
      /\ buf' = [buf EXCEPT ![Inactive][field] = rep[field]]
  BY Zenon DEF Write
<1>2. /\ version \in 0..(VersionMod - 1) /\ buf \in [{0, 1} -> Cap] /\ rep \in Cap
  BY Zenon DEF VInv, VGateTypeOK
<1>3. Active \in {0, 1} /\ Inactive \in {0, 1} /\ Inactive # Active
  BY <1>2, BumpFlips DEF Active, Inactive
<1>4. Active' = Active /\ Inactive' = Inactive
  BY Zenon, <1>1 DEF Active, Inactive
<1>5. buf'[Active] = buf[Active] /\ buf'[Inactive] = [buf[Inactive] EXCEPT ![field] = rep[field]]
  BY Zenon, <1>1, <1>2, <1>3
<1>6. buf[Inactive] \in Cap
  BY Zenon, <1>2, <1>3
<1>7. /\ buf'[Inactive] \in Cap
      /\ buf'[Inactive].base = IF field = "base" THEN rep.base ELSE buf[Inactive].base
      /\ buf'[Inactive].length = IF field = "length" THEN rep.length ELSE buf[Inactive].length
      /\ buf'[Inactive].perms = IF field = "perms" THEN rep.perms ELSE buf[Inactive].perms
      /\ buf'[Inactive].valid = IF field = "valid" THEN rep.valid ELSE buf[Inactive].valid
  BY Zenon, <1>2, <1>5, <1>6 DEF Cap
<1>8. buf' \in [{0, 1} -> Cap]
  BY Zenon, <1>1, <1>2, <1>3, <1>5, <1>7
<1>9. VGateTypeOK'
  BY Zenon, <1>1, <1>8 DEF VInv, VGateTypeOK
<1>10. WrittenSoFar'
  BY Zenon, <1>1, <1>4, <1>7 DEF VInv, WrittenSoFar
<1> QED BY Zenon, <1>1, <1>3, <1>4, <1>5, <1>9, <1>10 DEF VInv

(* A whole replacement sits in the inactive buffer when the version is bumped. *)
LEMMA CommitVInv == ASSUME VInv, Commit PROVE VInv'
<1>1. /\ pc = "commit" /\ pc' = "ready" /\ committed' = rep /\ version' = Bump(version)
      /\ buf' = buf /\ rep' = rep
  BY Zenon DEF Commit
<1>2. /\ version \in 0..(VersionMod - 1) /\ buf \in [{0, 1} -> Cap] /\ rep \in Cap
  BY Zenon DEF VInv, VGateTypeOK
<1>3. version' \in 0..(VersionMod - 1) /\ Active' = Inactive /\ Inactive \in {0, 1}
  BY Zenon, <1>1, <1>2, BumpFlips DEF Active, Inactive
<1>4. buf[Inactive] = rep
  <2>1. buf[Inactive] \in Cap
    BY Zenon, <1>2, <1>3
  <2>2. /\ buf[Inactive].base = rep.base /\ buf[Inactive].length = rep.length
        /\ buf[Inactive].perms = rep.perms /\ buf[Inactive].valid = rep.valid
    BY Zenon, <1>1 DEF VInv, WrittenSoFar
  <2> QED BY <1>2, <2>1, <2>2 DEF Cap
<1>5. VGateTypeOK'
  BY Zenon, <1>1, <1>2, <1>3 DEF VInv, VGateTypeOK
<1> QED BY Zenon, <1>1, <1>3, <1>4, <1>5 DEF VInv, WrittenSoFar

(* buf[0] is minted before the first capture can happen. *)
LEMMA InitVInv == VGateInit => VInv
<1> SUFFICES ASSUME VGateInit PROVE VInv
  BY Zenon
<1>1. version \in 0..(VersionMod - 1) /\ Active = 0
  BY VGateAssumption DEF VGateInit, VersionMod, Active
<1>2. NullCap \in Cap
  BY WordAssumption DEF NullCap, Cap, Word
<1> QED BY Zenon, <1>1, <1>2, MintableCap DEF VGateInit, VInv, VGateTypeOK, WrittenSoFar

(* Every step keeps the invariant. *)
LEMMA NextVInv == VInv /\ [VGateNext]_vgvars => VInv'
<1> SUFFICES ASSUME VInv, [VGateNext]_vgvars PROVE VInv'
  BY Zenon
<1>1. ASSUME NEW pir \in Requests, Begin(pir) PROVE VInv'
  <2>1. /\ pc' = "base" /\ rep' \in Mintable /\ version' = version /\ buf' = buf
        /\ committed' = committed
    BY Zenon, <1>1 DEF Begin, Mintable
  <2>2. rep' \in Cap
    BY Zenon, <2>1, MintableCap
  <2> QED BY Zenon, <2>1, <2>2 DEF VInv, VGateTypeOK, WrittenSoFar, Active, Inactive
<1>2. ASSUME NEW field \in {"base", "length", "perms", "valid"}, NEW after,
             <<field, after>> \in {<<"base", "length">>, <<"length", "perms">>,
                                   <<"perms", "valid">>, <<"valid", "commit">>},
             Write(field, after)
      PROVE  VInv'
  BY <1>2, WriteVInv
<1>3. CASE Commit
  BY Zenon, <1>3, CommitVInv
<1>4. CASE UNCHANGED vgvars
  BY Zenon, <1>4 DEF vgvars, VInv, VGateTypeOK, WrittenSoFar, Active, Inactive
<1>5. ASSUME NEW pir \in Requests, Refuse(pir) PROVE VInv'
  BY Zenon, <1>4, <1>5 DEF Refuse
<1> QED BY <1>1, <1>2, <1>3, <1>4, <1>5 DEF VGateNext

(* A capture at any instant reads the last committed capability, whole and
   valid: vgate_commit never lets vg_capture see a torn one. *)
THEOREM NeverTorn == VGateSpec => [](VGateTypeOK /\ CaptureWhole)
<1>1. VInv => CaptureWhole /\ VGateTypeOK
  BY Zenon DEF VInv, CaptureWhole, Mintable
<1> QED BY <1>1, InitVInv, NextVInv, PTL DEF VGateSpec

(* "post never exceeds the ceiling": whatever is captured, and whenever. *)
THEOREM NeverOverCeiling == VGateSpec => []UnderCeiling
<1>1. VInv => UnderCeiling
  BY Zenon, MintableUnderCeiling DEF VInv, UnderCeiling
<1> QED BY <1>1, InitVInv, NextVInv, PTL DEF VGateSpec

(* vgate_commit, with its stores spread over time, implements the slot whose
   capability is replaced in one step by one the gate minted. *)
THEOREM SlotIsAtomic == VGateSpec => RefinesAtomicSlot
<1>1. VGateInit => Slot!Init
  BY Zenon, InitVInv DEF Slot!Init, VInv
<1>2. VInv /\ VInv' /\ [VGateNext]_vgvars => [Slot!Replace]_(buf[Active])
  BY Zenon DEF VInv, Slot!Replace
<1> QED BY <1>1, <1>2, InitVInv, NextVInv, PTL DEF VGateSpec, RefinesAtomicSlot, Slot!Spec

-----------------------------------------------------------------------------
(* TrustStore, for every set of keys, nonces, epochs and records, every size of the two
   tables, and records presented in any order, any number of times. *)

(* Until it is full, the table of nonces holds every nonce ever accepted. *)
NoncesKept ==
  Len(seen_nonces) < SEEN_MAX =>
    \A n \in Nonce : uses[n] <= 1 /\ (uses[n] = 1 => n \in Range(seen_nonces))

(* Until it is full, the revocation table holds every key ever revoked. *)
RevocationsKept ==
  /\ stage = "D" => revocations = {}
  /\ Len(TRUST.revoked) < TS_REVOKED_MAX => revocations \subseteq Range(TRUST.revoked)

TInv == TrustTypeOK /\ NoncesKept /\ RevocationsKept /\ RevokedStaysOut /\ GrantCapped

(* Appending adds one element to what a table holds. *)
LEMMA AppendRange ==
  ASSUME NEW S, NEW s \in Seq(S), NEW x \in S
  PROVE  /\ Append(s, x) \in Seq(S) /\ Len(Append(s, x)) = Len(s) + 1
         /\ Range(Append(s, x)) = Range(s) \cup {x}
<1>1. /\ Append(s, x) \in Seq(S) /\ Len(Append(s, x)) = Len(s) + 1 /\ Len(s) \in Nat
      /\ \A i \in 1..Len(s) : Append(s, x)[i] = s[i]
      /\ Append(s, x)[Len(s) + 1] = x
  OBVIOUS
<1>2. DOMAIN s = 1..Len(s) /\ DOMAIN Append(s, x) = (1..Len(s)) \cup {Len(s) + 1}
  BY <1>1
<1> QED BY <1>1, <1>2 DEF Range

(* A length the gate accepts is the source's own: the region is well formed
   only then. *)
LEMMA AntiAmpCapped ==
  ASSUME NEW len \in Word, NEW root, antiamp_remint(len, root).valid
  PROVE  antiamp_remint(len, root).length = SRC_CEILING
<1> DEFINE croot == [base |-> 0, length |-> SRC_CEILING, perms |-> {"LOAD", "STORE"}, valid |-> TRUE]
           reg   == [object_cap |-> croot, object_base_addr |-> 0,
                     object_length |-> len, hash |-> root]
           pir   == [cvsasx_sw_cap_strip(croot, reg) EXCEPT !.length = len]
           cu    == cvsasx_sw_custodian_init(croot)
<1>1. antiamp_remint(len, root) = cvsasx_sw_cap_remint(cu, pir, reg)
  BY Zenon DEF antiamp_remint
<1>2. pir.length = len
  BY Zenon DEF cvsasx_sw_cap_strip, OpaquePir
<1>3. reg.object_cap.length = SRC_CEILING /\ reg.object_length = len
  BY Zenon
<1> HIDE DEF croot, reg, pir, cu
<1>4. cvsasx_sw_cap_remint(cu, pir, reg) = Derived(pir, reg) /\ sw_check_region(cu, reg)
  BY Zenon, <1>1, RemintChecks
<1> QED BY SMTT(30), <1>1, <1>2, <1>3, <1>4 DEF sw_check_region, Derived

(* The checks shared by the two gates keep the invariant, for a signer that is
   not revoked. *)
LEMMA ChecksTInv ==
  ASSUME TInv, NEW kind \in {"AUTH", "MIGR"}, NEW signer, NEW r \in AuthRec, NEW served \in Hash,
         authz_checks_2to5(kind, signer, r, served),
         kind = "MIGR" => signer = TRUST.current_src_pk /\ ~ts_is_revoked(signer),
         UNCHANGED <<stage, TRUST, revocations>>
  PROVE  TInv'
<1> DEFINE early == EarlyVerdict(r, served)
           cap   == antiamp_remint(r.ceiling, served)
           v     == IF early # "OK" THEN early ELSE IF cap.valid THEN "ACCEPT" ELSE "ANTIAMP"
<1>1. /\ seen_nonces' = IF early = "OK" /\ Len(seen_nonces) < SEEN_MAX
                        THEN Append(seen_nonces, r.nonce) ELSE seen_nonces
      /\ last' = [kind |-> kind, verdict |-> v, signer |-> signer, granted |-> cap.length]
      /\ uses' = [uses EXCEPT ![r.nonce] = IF v = "ACCEPT" /\ @ < 2 THEN @ + 1 ELSE @]
      /\ stage' = stage /\ TRUST' = TRUST /\ revocations' = revocations
  BY Zenon DEF authz_checks_2to5
<1>2. v = "ACCEPT" => early = "OK" /\ cap.valid
  BY Zenon DEF EarlyVerdict
<1>3. early = "OK" => r.nonce \notin Range(seen_nonces)
  BY Zenon DEF EarlyVerdict, nonce_seen
<1>4. /\ r.nonce \in Nonce /\ r.ceiling \in Word /\ SEEN_MAX \in Nat /\ SRC_CEILING \in Int
      /\ seen_nonces \in Seq(Nonce) /\ Len(seen_nonces) \in Nat /\ uses \in [Nonce -> 0..2]
  <2>1. r.nonce \in Nonce /\ r.ceiling \in Word
    BY Zenon, TrustAssumption DEF AuthRec
  <2>2. SRC_CEILING \in Int /\ SEEN_MAX \in Nat
    BY TrustAssumption, WordAssumption DEF Word
  <2> QED BY <2>1, <2>2 DEF TInv, TrustTypeOK
<1>5. v = "ACCEPT" => cap.length = SRC_CEILING
  BY Zenon, <1>2, <1>4, AntiAmpCapped
<1> HIDE DEF early, cap, v
<1>6. /\ Append(seen_nonces, r.nonce) \in Seq(Nonce)
      /\ Len(Append(seen_nonces, r.nonce)) = Len(seen_nonces) + 1
      /\ Range(Append(seen_nonces, r.nonce)) = Range(seen_nonces) \cup {r.nonce}
  BY <1>4, AppendRange
<1>7. uses' \in [Nonce -> 0..2]
  BY <1>1, <1>4
<1>8. TrustTypeOK'
  BY SMTT(30), <1>1, <1>4, <1>6, <1>7 DEF TInv, TrustTypeOK
<1>9. NoncesKept'
  <2> SUFFICES ASSUME Len(seen_nonces') < SEEN_MAX, NEW n \in Nonce
               PROVE  uses'[n] <= 1 /\ (uses'[n] = 1 => n \in Range(seen_nonces'))
    BY Zenon DEF NoncesKept
  <2>1. Len(seen_nonces) < SEEN_MAX /\ Range(seen_nonces) \subseteq Range(seen_nonces')
    BY Zenon, <1>1, <1>4, <1>6
  <2>2. uses[n] <= 1 /\ (uses[n] = 1 => n \in Range(seen_nonces))
    BY Zenon, <2>1 DEF TInv, NoncesKept
  <2>3. CASE v = "ACCEPT" /\ n = r.nonce
    <3>1. uses[n] = 0
      BY <1>2, <1>3, <1>4, <2>2, <2>3
    <3>2. uses'[n] = 1 /\ n \in Range(seen_nonces')
      BY <1>1, <1>2, <1>4, <1>6, <2>1, <2>3, <3>1
    <3> QED BY <3>2
  <2>4. CASE ~(v = "ACCEPT" /\ n = r.nonce)
    BY Zenon, <1>1, <1>4, <2>1, <2>2, <2>4
  <2> QED BY Zenon, <2>3, <2>4
<1>10. RevocationsKept'
  BY Zenon, <1>1 DEF TInv, RevocationsKept
<1>11. RevokedStaysOut'
  BY Zenon, <1>1 DEF TInv, RevocationsKept, RevokedStaysOut, ts_is_revoked
<1>12. GrantCapped'
  BY <1>1, <1>4, <1>5 DEF GrantCapped
<1> QED BY Zenon, <1>8, <1>9, <1>10, <1>11, <1>12 DEF TInv

(* A verdict that leaves the tables alone keeps the invariant. *)
LEMMA VerdictTInv ==
  ASSUME TInv, NEW kind, NEW v, Verdict(kind, v), v # "ACCEPT",
         UNCHANGED <<stage, TRUST, revocations>>
  PROVE  TInv'
BY Zenon DEF TInv, Verdict, TrustTypeOK, NoncesKept, RevocationsKept, RevokedStaysOut, GrantCapped

(* An accepted lifecycle record keeps the invariant. *)
LEMMA AppliedTInv ==
  ASSUME TInv, NEW r \in LifeRec, stage = "K", r.op # "OTHER", Verdict("LIFE", "ACCEPT"),
         TRUST' = Applied(r), stage' = stage,
         revocations' = IF r.op = "REVOKE" THEN revocations \cup {r.subject_pk} ELSE revocations
  PROVE  TInv'
<1>1. /\ r.subject_pk \in Key /\ r.epoch \in Nat /\ TS_REVOKED_MAX \in Nat
      /\ TRUST.revoked \in Seq(Key) /\ Len(TRUST.revoked) \in Nat
      /\ Len(TRUST.revoked) <= TS_REVOKED_MAX
  <2>1. r.subject_pk \in Key /\ r.epoch \in Epoch
    BY Zenon DEF LifeRec
  <2>2. TRUST.revoked \in Seq(Key) /\ Len(TRUST.revoked) <= TS_REVOKED_MAX
    BY Zenon DEF TInv, TrustTypeOK
  <2>3. r.epoch \in Nat /\ TS_REVOKED_MAX \in Nat
    BY Zenon, <2>1, TrustAssumption
  <2>4. Len(TRUST.revoked) \in Nat
    BY <2>2
  <2> QED BY Zenon, <2>1, <2>2, <2>3, <2>4
<1>2. TRUST'.revoked = IF r.op = "REVOKE" /\ Len(TRUST.revoked) < TS_REVOKED_MAX
                      THEN Append(TRUST.revoked, r.subject_pk) ELSE TRUST.revoked
  BY Zenon DEF Applied
<1>3. /\ Append(TRUST.revoked, r.subject_pk) \in Seq(Key)
      /\ Len(Append(TRUST.revoked, r.subject_pk)) = Len(TRUST.revoked) + 1
      /\ Range(Append(TRUST.revoked, r.subject_pk)) = Range(TRUST.revoked) \cup {r.subject_pk}
  BY <1>1, AppendRange
<1>4. /\ UNCHANGED <<seen_nonces, uses>> /\ last'.kind = "LIFE" /\ last'.verdict = "ACCEPT"
  BY Zenon DEF Verdict
<1>5. TrustTypeOK'
  <2>1. TRUST'.revoked \in Seq(Key) /\ Len(TRUST'.revoked) <= TS_REVOKED_MAX
    BY <1>1, <1>2, <1>3
  <2>2. TRUST' \in [current_src_pk : Key \cup {NoKey}, lifecycle_epoch : Nat, revoked : Seq(Key)]
    <3> DEFINE k == IF r.op = "REVOKE" THEN TRUST.current_src_pk ELSE r.subject_pk
               s == IF r.op = "REVOKE" /\ Len(TRUST.revoked) < TS_REVOKED_MAX
                    THEN Append(TRUST.revoked, r.subject_pk) ELSE TRUST.revoked
    <3>1. TRUST' = [current_src_pk |-> k, lifecycle_epoch |-> r.epoch, revoked |-> s]
      BY Zenon DEF Applied
    <3>2. k \in Key \cup {NoKey} /\ s \in Seq(Key)
      BY Zenon, <1>1, <1>3 DEF TInv, TrustTypeOK
    <3> HIDE DEF k, s
    <3> QED BY <1>1, <3>1, <3>2
  <2>3. seen_nonces' = seen_nonces /\ uses' = uses /\ revocations' \subseteq Key
    BY Zenon, <1>1, <1>4 DEF TInv, TrustTypeOK
  <2> QED BY Zenon, <2>1, <2>2, <2>3 DEF TInv, TrustTypeOK
<1>6. RevocationsKept'
  BY Zenon, <1>1, <1>2, <1>3 DEF TInv, RevocationsKept
<1> QED BY Zenon, <1>4, <1>5, <1>6 DEF TInv, NoncesKept, RevokedStaysOut, GrantCapped

(* An empty trust store and an empty table of nonces. *)
LEMMA InitTInv == TrustInit => TInv
BY TrustAssumption DEF TrustInit, TInv, TrustTypeOK, NoncesKept, RevocationsKept, RevokedStaysOut,
                       GrantCapped, ts_init, NoRecord

(* Every step keeps the invariant. *)
LEMMA NextTInv == TInv /\ [TrustNext]_tvars => TInv'
<1> SUFFICES ASSUME TInv, [TrustNext]_tvars PROVE TInv'
  BY Zenon
<1>1. ASSUME NEW by \in Signer, NEW r \in AuthRec, NEW served \in Hash,
             authz_verify_and_remint(by, r, served)
      PROVE  TInv'
  BY Zenon, <1>1, ChecksTInv, VerdictTInv DEF authz_verify_and_remint
<1>2. CASE BeginK
  BY SMTT(30), <1>2, TrustAssumption DEF BeginK, TInv, TrustTypeOK, NoncesKept, RevocationsKept,
                               RevokedStaysOut, GrantCapped, ts_init, NoRecord
<1>3. ASSUME NEW by \in Signer, NEW r \in LifeRec, lifecycle_apply(by, r) PROVE TInv'
  BY Zenon, <1>3, AppliedTInv, VerdictTInv DEF lifecycle_apply
<1>4. ASSUME NEW by \in Signer, NEW signer \in Key, NEW r \in AuthRec, NEW served \in Hash,
             migrate_verify_lifecycle(by, signer, r, served)
      PROVE  TInv'
  BY Zenon, <1>4, ChecksTInv, VerdictTInv DEF migrate_verify_lifecycle
<1>5. CASE UNCHANGED tvars
  BY Zenon, <1>5 DEF tvars, TInv, TrustTypeOK, NoncesKept, RevocationsKept, RevokedStaysOut, GrantCapped
<1> QED BY Zenon, <1>1, <1>2, <1>3, <1>4, <1>5 DEF TrustNext

(* Whatever is presented to B's gates, in whatever order: until its table is
   full no nonce is accepted twice; until its table is full no key is good once
   revoked, whether it is rotated in again or not; and nothing is granted
   beyond the source's ceiling. *)
THEOREM AuthorizationSound == TrustSpec => [](TrustTypeOK /\ AcceptSound)
<1>1. TInv => TrustTypeOK /\ AcceptSound
  BY Zenon DEF TInv, NoncesKept, NonceOnce, AcceptSound
<1> QED BY <1>1, InitTInv, NextTInv, PTL DEF TrustSpec

(* lifecycle_apply changes the trust store only to a strictly later epoch, and
   nothing else changes it: a signed record is applied at most once. *)
THEOREM EpochsOnlyAdvance == TrustSpec => EpochsAdvance
<1>1. TrustTypeOK /\ [TrustNext]_tvars =>
        [(stage = "K" /\ TRUST' # TRUST) => TRUST'.lifecycle_epoch > TRUST.lifecycle_epoch]_tvars
  <2> SUFFICES ASSUME TrustTypeOK, TrustNext, stage = "K", TRUST' # TRUST
               PROVE  TRUST'.lifecycle_epoch > TRUST.lifecycle_epoch
    BY Zenon DEF tvars
  <2>1. PICK by \in Signer, r \in LifeRec : lifecycle_apply(by, r)
    BY Zenon DEF TrustNext, authz_verify_and_remint, BeginK, migrate_verify_lifecycle
  <2>2. FreshEpoch(r) /\ TRUST' = Applied(r)
    BY Zenon, <2>1 DEF lifecycle_apply
  <2>3. TRUST'.lifecycle_epoch = r.epoch
    BY Zenon, <2>2 DEF Applied
  <2> QED BY Zenon, <2>2, <2>3 DEF FreshEpoch
<1>2. TrustSpec => []TrustTypeOK
  BY InitTInv, NextTInv, PTL DEF TrustSpec, TInv
<1> QED BY <1>1, <1>2, PTL DEF TrustSpec, EpochsAdvance
=============================================================================
