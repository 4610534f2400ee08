---------------------------- MODULE MCAuthority ----------------------------
(* The trust store alone, under any records, and the suites, under their scripts:
   a behaviour is of the part AuthInit chooses.

   trust: two source keys, a served root and another one, records fresh and expired,
   ceilings below, at and above the source's.  Two nonces and four epochs, so that
   keys can be rotated out and back, and tables that can run full. *)
EXTENDS AuthSuites

VARIABLE part
CONSTANT Parts

MCHash == {"R", "X"}
MCSets == {<<>>}        \* the suites' sets are below

(* suites: the scripts as they are, and every authority set of two capabilities,
   listed in either order, with lengths of nothing, below, at and above the ceiling *)
Pairs == {<<[hash |-> i, length |-> x], [hash |-> 3 - i, length |-> y]>> : i \in {1, 2}, x, y \in 0..3}
AS == INSTANCE AuthSuites WITH
        Key <- {"src", "src2", "wrong"}, AUTH_PK <- "auth", SRC_PK <- "src", SRC2_PK <- "src2",
        WRONG_PK <- "wrong", NoKey <- "nokey", Nonce <- 1..23, Epoch <- {1, 2, 3, 5, 6, 9}, Expiry <- {0, 2},
        Ceilings <- {2, 3}, SEEN_MAX <- 64, TS_REVOKED_MAX <- 16, Sets <- Pairs

net == <<shm, a, b, a_got, b_got, minted, set>>

AuthInit == /\ part \in Parts
            /\ \/ part = "trust"  /\ SuiteInit
               \/ part = "suites" /\ AS!SuiteInit

Trusts == part = "trust"  /\ TrustNext /\ UNCHANGED <<part, net>>
ARuns  == part = "suites" /\ AS!A /\ UNCHANGED part
BRuns  == part = "suites" /\ AS!B /\ UNCHANGED part

AuthNext == Trusts \/ (part = "suites" /\ AS!SuiteNext /\ UNCHANGED part)
AuthSpec ==
  /\ AuthInit /\ [][AuthNext]_<<part, svars>>
  /\ WF_<<part, svars>>(ARuns) /\ WF_<<part, svars>>(BRuns)

(* Both machines reach the verdicts the tables state, and B mints what it verified. *)
VerdictsAndMints == part = "suites" => AS!VerdictTables /\ AS!MintedIsVerified
(* The suites come to their end. *)
SuitesComplete == part # "suites" \/ AS!SuitesEnd
=============================================================================
