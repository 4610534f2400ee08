----------------------------- MODULE TrustStore -----------------------------
(* kernel/nettest.c, steps 10 and 12: the authorization of a migration at the
   destination B.  Step 10 checks a signed record against the one source key;
   step 12 adds a trust store that authority-signed records enroll, rotate and
   revoke keys in, and checks the record against its current key.  Both end in
   the capability gate of SwCap.

   Records come off shared memory: any record may be presented at any time, any
   number of times, signed by any key.  Ed25519 is external: crypto_sign_open
   gives the body back under the key that signed it, and fails under another. *)
EXTENDS SwCap, Sequences, Functions

CONSTANTS Key, AUTH_PK, SRC_PK, NoKey,
          Nonce, Epoch, Expiry, Now,    \* Now: b_now, which no step advances
          Ceilings,                     \* the ceilings records may ask for
          SRC_CEILING,                  \* the source's authority, in bytes
          SEEN_MAX,                     \* entries of seen_nonces (64)
          TS_REVOKED_MAX                \* entries of revoked (16)

ASSUME TrustAssumption ==
  /\ AUTH_PK \notin Key /\ NoKey \notin Key /\ SRC_PK \in Key
  /\ Epoch \subseteq Nat \ {0} /\ Expiry \subseteq Nat /\ Now \in Nat
  /\ Ceilings \subseteq Word /\ SRC_CEILING \in Word
  /\ SEEN_MAX \in Nat /\ TS_REVOKED_MAX \in Nat

VARIABLES stage,            \* "D": step 10 (d_dest), then "K": step 12 (k_dest)
          TRUST,            \* trust_store_t
          seen_nonces,
          last,             \* the last verdict, whose record and what it granted
          uses, revocations \* history: acceptances of each nonce, keys revoked

tvars == <<stage, TRUST, seen_nonces, last, uses, revocations>>

AuthRec == [root : Hash, in_scope : BOOLEAN, ceiling : Ceilings, nonce : Nonce, expiry : Expiry]
LifeRec == [op : {"ENROLL", "ROTATE", "REVOKE", "OTHER"}, subject_pk : Key, epoch : Epoch]
Signer  == Key \cup {AUTH_PK}

ts_init == [current_src_pk |-> NoKey, lifecycle_epoch |-> 0, revoked |-> <<>>]
NoRecord == [kind |-> "none", verdict |-> "none"]

TrustInit ==
  /\ stage = "D" /\ TRUST = ts_init /\ seen_nonces = <<>> /\ last = NoRecord
  /\ uses = [n \in Nonce |-> 0] /\ revocations = {}
-----------------------------------------------------------------------------
(* antiamp_remint(want_len, root): region and referent are declared to have the
   length asked for, while the capability strip gets, and the region's, has the
   source's length. *)
antiamp_remint(want_len, root) ==
  LET croot == [base |-> 0, length |-> SRC_CEILING, perms |-> {"LOAD", "STORE"}, valid |-> TRUE]
      reg   == [object_cap |-> croot, object_base_addr |-> 0,
                object_length |-> want_len, hash |-> root]
      pir   == [cvsasx_sw_cap_strip(croot, reg) EXCEPT !.length = want_len]
  IN  cvsasx_sw_cap_remint(cvsasx_sw_custodian_init(croot), pir, reg)

nonce_seen(n) == n \in Range(seen_nonces)

(* the first of checks (2) to (4) that fails *)
EarlyVerdict(r, served) ==
  IF r.root # served                                    THEN "ROOT_MISMATCH"
  ELSE IF ~r.in_scope                                   THEN "WRONG_SCOPE"
  ELSE IF nonce_seen(r.nonce) \/ r.expiry < Now         THEN "REPLAY_OR_EXPIRED"
  ELSE "OK"

(* Mutant: the nonce is never marked. *)
ChecksUnmarked(kind, signer, r, served) ==
  LET early == EarlyVerdict(r, served)
      cap   == antiamp_remint(r.ceiling, served)
      v     == IF early # "OK" THEN early ELSE IF cap.valid THEN "ACCEPT" ELSE "ANTIAMP"
  IN  /\ UNCHANGED seen_nonces
      /\ last' = [kind |-> kind, verdict |-> v, signer |-> signer, granted |-> cap.length]
      /\ uses' = [uses EXCEPT ![r.nonce] = IF v = "ACCEPT" /\ @ < 2 THEN @ + 1 ELSE @]

(* authz_checks_2to5: the nonce is marked, if there is room, before the
   re-mint; uses saturates at 2 *)
authz_checks_2to5(kind, signer, r, served) ==
  LET early == EarlyVerdict(r, served)
      cap   == antiamp_remint(r.ceiling, served)
      v     == IF early # "OK" THEN early ELSE IF cap.valid THEN "ACCEPT" ELSE "ANTIAMP"
  IN  /\ seen_nonces' = IF early = "OK" /\ Len(seen_nonces) < SEEN_MAX
                        THEN Append(seen_nonces, r.nonce) ELSE seen_nonces
      /\ last' = [kind |-> kind, verdict |-> v, signer |-> signer, granted |-> cap.length]
      /\ uses' = [uses EXCEPT ![r.nonce] = IF v = "ACCEPT" /\ @ < 2 THEN @ + 1 ELSE @]

(* a verdict that ends the handler with the tables as they are *)
Verdict(kind, v) ==
  /\ last' = [kind |-> kind, verdict |-> v]
  /\ UNCHANGED <<seen_nonces, uses>>

(* step 10: the record must be signed by the one source key *)
authz_verify_and_remint(by, r, served) ==
  /\ stage = "D"
  /\ IF by # SRC_PK THEN Verdict("AUTH", "BAD_SIG")
     ELSE authz_checks_2to5("AUTH", SRC_PK, r, served)
  /\ UNCHANGED <<stage, TRUST, revocations>>

(* k_dest begins: a new trust store, an empty nonce set *)
BeginK ==
  /\ stage = "D" /\ stage' = "K"
  /\ TRUST' = ts_init /\ seen_nonces' = <<>> /\ last' = NoRecord
  /\ uses' = [n \in Nonce |-> 0] /\ UNCHANGED revocations

(* Mutant: the epoch may stay where it is. *)
FreshOrSame(r) == r.epoch >= TRUST.lifecycle_epoch
FreshEpoch(r)  == r.epoch > TRUST.lifecycle_epoch

(* what an accepted record makes of the trust store; a revocation the full
   table has no room for still raises the epoch *)
Applied(r) ==
  [current_src_pk  |-> IF r.op = "REVOKE" THEN TRUST.current_src_pk ELSE r.subject_pk,
   lifecycle_epoch |-> r.epoch,
   revoked         |-> IF r.op = "REVOKE" /\ Len(TRUST.revoked) < TS_REVOKED_MAX
                       THEN Append(TRUST.revoked, r.subject_pk) ELSE TRUST.revoked]
lifecycle_apply(by, r) ==
  /\ stage = "K"
  /\ IF by # AUTH_PK THEN Verdict("LIFE", "BAD_AUTHORITY") /\ UNCHANGED <<TRUST, revocations>>
     ELSE IF ~FreshEpoch(r) THEN Verdict("LIFE", "STALE_EPOCH") /\ UNCHANGED <<TRUST, revocations>>
     ELSE IF r.op = "OTHER" THEN Verdict("LIFE", "BAD_AUTHORITY") /\ UNCHANGED <<TRUST, revocations>>
     ELSE /\ Verdict("LIFE", "ACCEPT") /\ TRUST' = Applied(r)
          /\ revocations' = IF r.op = "REVOKE" THEN revocations \cup {r.subject_pk} ELSE revocations
  /\ UNCHANGED stage

ts_is_revoked(k) == k \in Range(TRUST.revoked)

(* Mutant: a key that is current is taken to be good. *)
MigrateCurrentOnly(by, signer, r, served) ==
  /\ stage = "K"
  /\ IF signer # TRUST.current_src_pk THEN Verdict("MIGR", "UNKNOWN_KEY")
     ELSE IF by # signer              THEN Verdict("MIGR", "BAD_SIG")
     ELSE authz_checks_2to5("MIGR", signer, r, served)
  /\ UNCHANGED <<stage, TRUST, revocations>>

(* step 12: signer is the key the wire presents, by the key that signed *)
migrate_verify_lifecycle(by, signer, r, served) ==
  /\ stage = "K"
  /\ IF signer # TRUST.current_src_pk THEN Verdict("MIGR", "UNKNOWN_KEY")
     ELSE IF ts_is_revoked(signer)    THEN Verdict("MIGR", "REVOKED_KEY")
     ELSE IF by # signer              THEN Verdict("MIGR", "BAD_SIG")
     ELSE authz_checks_2to5("MIGR", signer, r, served)
  /\ UNCHANGED <<stage, TRUST, revocations>>

TrustNext ==
  \/ \E by \in Signer, r \in AuthRec, served \in Hash : authz_verify_and_remint(by, r, served)
  \/ BeginK
  \/ \E by \in Signer, r \in LifeRec : lifecycle_apply(by, r)
  \/ \E by \in Signer, signer \in Key, r \in AuthRec, served \in Hash :
       migrate_verify_lifecycle(by, signer, r, served)

TrustSpec == TrustInit /\ [][TrustNext]_tvars
-----------------------------------------------------------------------------
(* Trust store, nonce table and verdicts have the right types. *)
TrustTypeOK ==
  /\ stage \in {"D", "K"}
  /\ TRUST \in [current_src_pk : Key \cup {NoKey}, lifecycle_epoch : Nat, revoked : Seq(Key)]
  /\ Len(TRUST.revoked) <= TS_REVOKED_MAX
  /\ seen_nonces \in Seq(Nonce) /\ Len(seen_nonces) <= SEEN_MAX
  /\ uses \in [Nonce -> 0..2] /\ revocations \subseteq Key

(* "single-use (replay defense)": while the table of seen nonces has room, no
   nonce has been accepted twice, in whatever order, under whatever keys and
   across rotations records were presented. *)
NonceOnce == Len(seen_nonces) < SEEN_MAX => \A n \in Nonce : uses[n] <= 1

(* "revoke appends permanently": while the revocation table has room, a record
   signed by a key that was ever revoked is not accepted, also when that key
   has been enrolled or rotated in again since. *)
RevokedStaysOut ==
  (last.kind = "MIGR" /\ last.verdict = "ACCEPT" /\ Len(TRUST.revoked) < TS_REVOKED_MAX)
    => last.signer \notin revocations /\ last.signer = TRUST.current_src_pk

(* "capped at SRC_CEILING via the UNMODIFIED swcap gate": nothing accepted is
   granted more than the source's authority. *)
GrantCapped ==
  (last.kind \in {"AUTH", "MIGR"} /\ last.verdict = "ACCEPT") => last.granted <= SRC_CEILING

(* What B's two gates accept, under any records in any order (authz_checks_2to5
   behind lifecycle_apply and migrate_verify_lifecycle): each nonce once, no key
   that was revoked, and no more than the source had. *)
AcceptSound == NonceOnce /\ RevokedStaysOut /\ GrantCapped

(* "a forged record (bad authority) or a stale/replayed epoch changes NOTHING":
   within step 12 the trust store changes only to a later epoch, so no signed
   record is ever applied twice. *)
EpochsAdvance ==
  [][(stage = "K" /\ TRUST' # TRUST) => TRUST'.lifecycle_epoch > TRUST.lifecycle_epoch]_tvars
=============================================================================
