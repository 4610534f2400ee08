----------------------------- MODULE AuthSuites -----------------------------
(* kernel/nettest.c, kmain and what the two machines do around the syncs: the
   role claim, the B1 token round trip, and the four suites in which A presents
   signed records and B answers with verdicts: D (step 10), K (step 12), DM
   (step 13, authority sets) and AM (step 14, attested authority sets).

   A suite is a script of cases.  A writes a case to shared memory, then its
   counter; B reads the case, decides it, writes the verdict, then its counter.
   In suite D a reader waits for the counter to differ from a baseline it took;
   in the others it waits for the counter to reach the number of the case.
   Gates and trust store are TrustStore's and SwCap's. *)
EXTENDS TrustStore, SequencesExt

CONSTANTS SRC2_PK, WRONG_PK,    \* the second source key, and one nobody trusts
          Root, OtherRoot,      \* base_root, and the root of another tree
          Sets                  \* authority sets A may own: sequences of caps

ASSUME SuitesAssumption ==
  /\ {SRC2_PK, WRONG_PK} \subseteq Key /\ {Root, OtherRoot} \subseteq Hash /\ Root # OtherRoot
  /\ \A s \in Sets : \A i \in DOMAIN s : s[i].hash \in Nat /\ s[i].length \in Word

VARIABLES magic, A2B, B2A,               \* the claim word, the B1 mailboxes
          box, seqA, seqB, verd,         \* per suite: case, counters, verdict
          a, b,                          \* the machines: where each is
          a_got, b_got, minted,          \* verdicts read and given, caps re-minted
          set                            \* A's authority set

shm   == <<magic, A2B, B2A, box, seqA, seqB, verd>>
trust == <<stage, TRUST, seen_nonces, last, uses, revocations>>
svars == <<shm, a, b, a_got, b_got, minted, set, trust>>

Suites == <<"D", "K", "DM", "AM">>
NCase  == [D |-> 8, K |-> 15, DM |-> 4, AM |-> 4]
Each(x) == [s \in DOMAIN NCase |-> x]
-----------------------------------------------------------------------------
(* The cases.  A message is signed by a key, and intact or altered since.
   Ed25519 gives the body back only to the key that signed it. *)
Sealed(by, body) == [by |-> by, intact |-> TRUE, body |-> body]
crypto_sign_open(m, pk) == m.by = pk /\ m.intact

FAR == Now + 1
Grant(ceiling, nonce) ==
  [root |-> Root, in_scope |-> TRUE, ceiling |-> ceiling, nonce |-> nonce, expiry |-> FAR]
CaseD(n) ==
  LET r == Grant(SRC_CEILING, n) IN
  CASE n = 2 -> [msg |-> Sealed(WRONG_PK, r), served |-> Root]
    [] n = 3 -> [msg |-> Sealed(SRC_PK, r), served |-> OtherRoot]
    [] n \in {4, 5} -> [msg |-> Sealed(SRC_PK, [r EXCEPT !.in_scope = FALSE]), served |-> Root]
    [] n = 6 -> [msg |-> Sealed(SRC_PK, [r EXCEPT !.ceiling = SRC_CEILING + 1]), served |-> Root]
    [] n = 7 -> [msg |-> Sealed(SRC_PK, [r EXCEPT !.nonce = 1]), served |-> Root]
    [] n = 8 -> [msg |-> Sealed(SRC_PK, [r EXCEPT !.expiry = 0]), served |-> Root]
    [] OTHER -> [msg |-> Sealed(SRC_PK, r), served |-> Root]

(* lifecycle steps: operation, subject, epoch, signer; the other steps migrate,
   signed by the key they present *)
Life == (1 :> <<"ENROLL", SRC_PK, 1, AUTH_PK>>)  @@ (4 :> <<"ROTATE", SRC2_PK, 9, WRONG_PK>>) @@
        (6 :> <<"ROTATE", SRC2_PK, 2, AUTH_PK>>) @@ (9 :> <<"ROTATE", SRC2_PK, 2, AUTH_PK>>)  @@
        (11 :> <<"REVOKE", SRC2_PK, 3, AUTH_PK>>) @@ (13 :> <<"ROTATE", SRC_PK, 5, AUTH_PK>>) @@
        (14 :> <<"REVOKE", SRC_PK, 6, WRONG_PK>>)
Presents(n) == IF n \in {3, 7, 10, 12} THEN SRC2_PK ELSE SRC_PK
CaseK(n) ==
  IF n \in DOMAIN Life
  THEN [kind |-> "LIFE",
        msg  |-> Sealed(Life[n][4], [op |-> Life[n][1], subject_pk |-> Life[n][2], epoch |-> Life[n][3]])]
  ELSE [kind |-> "MIGR", msg |-> Sealed(Presents(n), Grant(SRC_CEILING, 8 + n)),
        signer |-> Presents(n), served |-> Root]

(* dm_set_pack, a bubble sort by hash: equal hashes keep the caller's order *)
dm_set_pack(in) ==
  LET before(i) == {j \in DOMAIN in : in[j].hash < in[i].hash \/ (in[j].hash = in[i].hash /\ j < i)}
  IN  [k \in DOMAIN in |-> in[CHOOSE i \in DOMAIN in : Cardinality(before(i)) = k - 1]]

CaseDM(n) ==
  [msg |-> [by |-> IF n = 2 THEN WRONG_PK ELSE SRC_PK, intact |-> n \notin {3, 4}, body |-> dm_set_pack(set)]]
CaseAM(n) ==
  [msg |-> Sealed(IF n = 2 THEN WRONG_PK ELSE AUTH_PK,
                  [meas |-> n # 3, set |-> dm_set_pack(set), root |-> IF n = 4 THEN OtherRoot ELSE Root]),
   served |-> Root]
Script(s, n) == CASE s = "D" -> CaseD(n) [] s = "K" -> CaseK(n) [] s = "DM" -> CaseDM(n) [] OTHER -> CaseAM(n)
-----------------------------------------------------------------------------
At(pc, s, n, base) == [pc |-> pc, suite |-> s, n |-> n, base |-> base]
Stopped(x) == x.pc \in {"halted", "done"}

SuiteInit ==
  /\ TrustInit
  /\ magic = FALSE /\ A2B = "EMPTY" /\ B2A = "EMPTY"
  /\ box = Each([empty |-> TRUE]) /\ seqA = Each(0) /\ seqB = Each(0) /\ verd = Each("none")
  /\ a = At("boot", "D", 1, 0) /\ b = At("boot", "D", 1, 0)
  /\ a_got = Each(<<>>) /\ b_got = Each(<<>>) /\ minted = <<>>
  /\ set \in Sets

(* where a machine goes when case x.n is through: entering a suite, pc is first *)
SuiteAfter(s) == CASE s = "D" -> "K" [] s = "K" -> "DM" [] OTHER -> "AM"
Onward(x, first, again) ==
  IF x.n < NCase[x.suite] THEN [x EXCEPT !.pc = again, !.n = @ + 1]
  ELSE IF x.suite = "AM" THEN [x EXCEPT !.pc = "done"]
  ELSE At(first, SuiteAfter(x.suite), 1, 0)

(* Mutant: > for >=. *)
ReadyBeyond(x, ctr) == IF x.suite = "D" THEN ctr["D"] # x.base ELSE ctr[x.suite] > x.n
(* wait_seq in suite D, wait_seq_ge in the others *)
Ready(x, ctr) == IF x.suite = "D" THEN ctr["D"] # x.base ELSE ctr[x.suite] >= x.n

(* A: claim the region, B1, then each case *)
AClaim ==
  /\ a.pc = "boot" /\ magic' = TRUE /\ A2B' = "EMPTY" /\ B2A' = "EMPTY" /\ a' = [a EXCEPT !.pc = "token"]
  /\ UNCHANGED <<box, seqA, seqB, verd, b, a_got, b_got, minted, set, trust>>
AToken ==
  /\ a.pc = "token" /\ A2B' = "REQ" /\ a' = [a EXCEPT !.pc = "reply"]
  /\ UNCHANGED <<magic, B2A, box, seqA, seqB, verd, b, a_got, b_got, minted, set, trust>>
AReply ==
  /\ a.pc = "reply" /\ B2A = "REQ" /\ B2A' = "ACK" /\ a' = [a EXCEPT !.pc = "publish"]
  /\ UNCHANGED <<magic, A2B, box, seqA, seqB, verd, b, a_got, b_got, minted, set, trust>>
APublish ==
  /\ a.pc = "publish"
  /\ box' = [box EXCEPT ![a.suite] = Script(a.suite, a.n)] /\ a' = [a EXCEPT !.pc = "bump"]
  /\ UNCHANGED <<magic, A2B, B2A, seqA, seqB, verd, b, a_got, b_got, minted, set, trust>>
ABump ==
  /\ a.pc = "bump" /\ seqA' = [seqA EXCEPT ![a.suite] = a.n]
  /\ a' = [a EXCEPT !.pc = IF a.suite = "D" THEN "baseline" ELSE "wait"]
  /\ UNCHANGED <<magic, A2B, B2A, box, seqB, verd, b, a_got, b_got, minted, set, trust>>
ABaseline ==
  /\ a.pc = "baseline" /\ a' = [a EXCEPT !.pc = "wait", !.base = seqB["D"]]
  /\ UNCHANGED <<shm, b, a_got, b_got, minted, set, trust>>
AVerdictAtOnce ==                      \* mutant: the verdict is read without a wait
  /\ a.pc = "wait"
  /\ a_got' = [a_got EXCEPT ![a.suite] = Append(@, verd[a.suite])]
  /\ a' = Onward(a, "publish", "publish")
  /\ UNCHANGED <<shm, b, b_got, minted, set, trust>>
AVerdict ==
  /\ a.pc = "wait" /\ Ready(a, seqB)
  /\ a_got' = [a_got EXCEPT ![a.suite] = Append(@, verd[a.suite])]
  /\ a' = Onward(a, "publish", "publish")
  /\ UNCHANGED <<shm, b, b_got, minted, set, trust>>
ATimeout ==
  /\ \/ a.pc = "wait" /\ ~Ready(a, seqB)
     \/ a.pc = "reply" /\ B2A # "REQ"
  /\ a' = [a EXCEPT !.pc = "halted"]
  /\ UNCHANGED <<shm, b, a_got, b_got, minted, set, trust>>
-----------------------------------------------------------------------------
(* B: the second machine started sees the claim; B1; then each suite *)
BClaimed ==
  /\ b.pc = "boot" /\ magic /\ b' = [b EXCEPT !.pc = "token"]
  /\ UNCHANGED <<shm, a, a_got, b_got, minted, set, trust>>
BToken ==
  /\ b.pc = "token" /\ A2B = "REQ" /\ A2B' = "ACK" /\ B2A' = "REQ" /\ b' = [b EXCEPT !.pc = "enter"]
  /\ UNCHANGED <<magic, box, seqA, seqB, verd, a, a_got, b_got, minted, set, trust>>

BEnter ==
  /\ b.pc = "enter" /\ b' = [b EXCEPT !.pc = "wait", !.base = seqA[b.suite]]
  /\ IF b.suite = "K" THEN BeginK ELSE UNCHANGED trust
  /\ UNCHANGED <<shm, a, a_got, b_got, minted, set>>

(* dm_remint: a capability of cap_len within the source's object *)
dm_remint(cap_len) ==
  LET croot == [base |-> 0, length |-> SRC_CEILING, perms |-> {"LOAD", "STORE"}, valid |-> TRUE]
      reg   == [object_cap |-> croot, object_base_addr |-> 0, object_length |-> SRC_CEILING, hash |-> Root]
      pir   == [cvsasx_sw_cap_strip(croot, reg) EXCEPT !.length = cap_len]
  IN  cvsasx_sw_cap_remint(cvsasx_sw_custodian_init(croot), pir, reg)

(* the caps of a verified set are re-minted one by one, up to the first the
   gate refuses *)
Refused(caps) == {k \in DOMAIN caps : ~dm_remint(caps[k].length).valid}
RemintSet(caps) ==
  IF Refused(caps) = {} THEN [v |-> "ACCEPT", nr |-> Len(caps)]
  ELSE [v |-> "ANTIAMP", nr |-> Min(Refused(caps)) - 1]
Nothing(v) == [v |-> v, nr |-> 0]

(* dm_dest and am_dest on one case *)
DecideSet(s, c) ==
  IF s = "DM" THEN IF ~crypto_sign_open(c.msg, SRC_PK) THEN Nothing("BAD_SIG") ELSE RemintSet(c.msg.body)
  ELSE IF ~crypto_sign_open(c.msg, AUTH_PK) THEN Nothing("FORGED")
  ELSE IF ~c.msg.body.meas                  THEN Nothing("UNRECOGNIZED")
  ELSE IF c.msg.body.root # c.served        THEN Nothing("BINDING")
  ELSE RemintSet(c.msg.body.set)

(* the gates of TrustStore on one case of suites D and K *)
DecideRecord(c) ==
  IF b.suite = "D" THEN authz_verify_and_remint(c.msg.by, c.msg.body, c.served)
  ELSE IF c.kind = "LIFE" THEN lifecycle_apply(c.msg.by, c.msg.body)
  ELSE migrate_verify_lifecycle(c.msg.by, c.signer, c.msg.body, c.served)

Answer(v) ==
  /\ verd' = [verd EXCEPT ![b.suite] = v] /\ b_got' = [b_got EXCEPT ![b.suite] = Append(@, v)]
  /\ b' = [b EXCEPT !.pc = "bump", !.base = seqA[b.suite]]
  /\ UNCHANGED <<magic, A2B, B2A, box, seqA, seqB, a, a_got, set>>
BDecideRecord ==
  /\ b.pc = "wait" /\ Ready(b, seqA) /\ b.suite \in {"D", "K"}
  /\ DecideRecord(box[b.suite]) /\ Answer(last'.verdict) /\ UNCHANGED minted
BDecideSet ==
  /\ b.pc = "wait" /\ Ready(b, seqA) /\ b.suite \in {"DM", "AM"}
  /\ LET d == DecideSet(b.suite, box[b.suite]) IN
       /\ Answer(d.v)
       /\ minted' = Append(minted, [suite |-> b.suite, case |-> b.n, v |-> d.v, nr |-> d.nr])
  /\ UNCHANGED trust
BBump ==
  /\ b.pc = "bump" /\ seqB' = [seqB EXCEPT ![b.suite] = b.n] /\ b' = Onward(b, "enter", "wait")
  /\ UNCHANGED <<magic, A2B, B2A, box, seqA, verd, a, a_got, b_got, minted, set, trust>>
BTimeout ==
  /\ \/ b.pc = "wait" /\ ~Ready(b, seqA)
     \/ b.pc = "token" /\ A2B # "REQ"
  /\ b' = [b EXCEPT !.pc = "halted"]
  /\ UNCHANGED <<shm, a, a_got, b_got, minted, set, trust>>

A == AClaim \/ AToken \/ AReply \/ APublish \/ ABump \/ ABaseline \/ AVerdict
B == BClaimed \/ BToken \/ BEnter \/ BDecideRecord \/ BDecideSet \/ BBump
SuitesOver == Stopped(a) /\ Stopped(b) /\ UNCHANGED svars
SuiteNext == A \/ B \/ ATimeout \/ BTimeout \/ SuitesOver

(* two machines that both run; a wait need not run out of its budget *)
SuiteSpec == SuiteInit /\ [][SuiteNext]_svars /\ WF_svars(A) /\ WF_svars(B)
-----------------------------------------------------------------------------
WANT == <<"ACCEPT", "BAD_SIG", "ROOT_MISMATCH", "WRONG_SCOPE", "WRONG_SCOPE", "ANTIAMP",
          "REPLAY_OR_EXPIRED", "REPLAY_OR_EXPIRED">>
KWANT == <<"ACCEPT", "ACCEPT", "UNKNOWN_KEY", "BAD_AUTHORITY", "ACCEPT", "ACCEPT", "ACCEPT",
           "UNKNOWN_KEY", "STALE_EPOCH", "ACCEPT", "ACCEPT", "REVOKED_KEY", "ACCEPT",
           "BAD_AUTHORITY", "ACCEPT">>

(* "TRUST BOUNDARY CLOSED", "KEY LIFECYCLE CLOSED": however the two machines
   interleave, the verdicts B gives are those of its tables WANT and KWANT, and
   those A reads are those B gave, case by case. *)
VerdictTables ==
  /\ IsPrefix(b_got["D"], WANT) /\ IsPrefix(b_got["K"], KWANT)
  /\ \A s \in DOMAIN NCase : IsPrefix(a_got[s], b_got[s])

(* "minting nothing beyond the verified set (C_B' = C_A)": an accepted set is
   re-minted whole and each of its capabilities is within the source's
   authority; a case that fails a check before the gate re-mints nothing; and
   the verdict does not depend on the order in which A lists its set. *)
MintedIsVerified ==
  \A i \in DOMAIN minted :
    LET d == minted[i] IN
    /\ d.v = "ACCEPT" <=> d.case = 1 /\ \A k \in DOMAIN set : set[k].length \in 1..SRC_CEILING
    /\ d.v = "ACCEPT" => d.nr = Len(set)
    /\ d.v \notin {"ACCEPT", "ANTIAMP"} => d.nr = 0
    /\ d.v = "ANTIAMP" =>
         d.nr = Min({k \in DOMAIN set : dm_set_pack(set)[k].length \notin 1..SRC_CEILING}) - 1

(* "ABSOLUTE so a late-starting B still rendezvouses": once A is in the key
   lifecycle suite, both machines finish all suites unless a wait runs out of
   its budget, however far apart they run. *)
SuitesEnd == a.suite = "K" ~> (a.pc = "done" /\ b.pc = "done") \/ "halted" \in {a.pc, b.pc}
=============================================================================
