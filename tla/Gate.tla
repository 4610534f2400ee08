-------------------------------- MODULE Gate --------------------------------
(* gate/ with the software backend of carmix/: a Wasm module is read and lowered
   (wasm_frontend.c), checked (sfi_checker.c), optimized (optimize.c) and run
   (executor.c).  The bytes of the module are the choices of the reading actions.
   The front end emits no branch and no call_indirect, so the code here is
   straight-line.

   The module runs twice in step, as lowered and as optimized, on the same
   linear memory: a word is WORD_BYTES bytes, least significant first. *)
EXTENDS Integers, Sequences, SequencesExt, Bitwise

CONSTANTS BYTE_MOD, WORD_BYTES,      \* 256 and 4
          Consts, Offsets, Args,     \* immediates, static offsets and arguments explored
          Binary,                    \* the binary operations explored
          MemSizes,                  \* linear-memory sizes in bytes
          STACK_MAX, CodeCap

VARIABLES phase,       \* reading, lowering, lowered, loaded, checked, running, done or rejected
          have,        \* the sections read
          n_locals, code, fast_code, size,
          plain, fast  \* the two runs

gvars == <<phase, have, n_locals, code, fast_code, size, plain, fast>>

WORD_MOD == BYTE_MOD^WORD_BYTES
Word    == 0..(WORD_MOD - 1)
Inst(op, a, imm) == [op |-> op, a |-> a, imm |-> imm]
Idle == [pc |-> 0, stack |-> <<>>, locals |-> <<>>, mem |-> <<>>, fault |-> FALSE, wild |-> FALSE,
         status |-> "idle", out |-> 0]

GateInit ==
  /\ phase = "reading" /\ have = {} /\ n_locals = 0 /\ code = <<>> /\ fast_code = <<>>
  /\ size = 0 /\ plain = Idle /\ fast = Idle
-----------------------------------------------------------------------------
(* cvsasx_wasm_load: sections in the order the module has them; the one type
   has one parameter.  The code section counts the parameters read by then. *)
Section(s) ==
  /\ phase = "reading" /\ s \notin have
  /\ have' = have \cup {s}
  /\ UNCHANGED <<phase, n_locals, code, fast_code, size, plain, fast>>
CodeSection(declared) ==
  /\ phase = "reading" /\ "code" \notin have
  /\ phase' = "lowering" /\ n_locals' = declared + (IF "type" \in have THEN 1 ELSE 0)
  /\ UNCHANGED <<have, code, fast_code, size, plain, fast>>
Malformed ==
  /\ phase \in {"reading", "lowering"}
  /\ phase' = "rejected"
  /\ UNCHANGED <<have, n_locals, code, fast_code, size, plain, fast>>
EndOfModule(linmem_size) ==
  /\ phase = "reading" /\ {"type", "func", "code"} \subseteq have
  /\ phase' = "loaded" /\ size' = linmem_size
  /\ UNCHANGED <<have, n_locals, code, fast_code, plain, fast>>

(* lower_expr: one operator of the body *)
CanEmit(in) ==
  /\ Len(code) < CodeCap
  /\ in.op \in {"LOCAL_GET", "LOCAL_SET"} => in.a < n_locals
  /\ in.op \in {"LOAD", "STORE"} => "mem" \in have
lower_expr(in) ==
  /\ phase = "lowering"
  /\ IF CanEmit(in)
     THEN /\ code' = Append(code, in)
          /\ IF in.op = "END" THEN phase' = "reading" /\ have' = have \cup {"code"}
                              ELSE UNCHANGED <<phase, have>>
     ELSE phase' = "rejected" /\ UNCHANGED <<code, have>>
  /\ UNCHANGED <<n_locals, fast_code, size, plain, fast>>
Operators ==
  {Inst("CONST", 0, c) : c \in Consts} \cup {Inst(op, i, 0) : op \in {"LOCAL_GET", "LOCAL_SET"}, i \in 0..1}
  \cup {Inst(op, 0, o) : op \in {"LOAD", "STORE"}, o \in Offsets}
  \cup {Inst(op, 0, 0) : op \in Binary \cup {"EQZ", "DROP", "RETURN", "END"}}
-----------------------------------------------------------------------------
AllBinary == {"ADD", "SUB", "MUL", "AND", "OR", "XOR", "SHL", "SHRU", "LTU"}
Pops(op) ==
  IF op \in AllBinary \cup {"STORE"} THEN 2
  ELSE IF op \in {"LOCAL_SET", "EQZ", "LOAD", "DROP"} THEN 1 ELSE 0
Pushes(op) == IF op \in AllBinary \cup {"CONST", "LOCAL_GET", "EQZ", "LOAD"} THEN 1 ELSE 0

Enough(depth, op) == depth >= Pops(op)

(* cvsasx_gate_check: one pass with the depth of the operand stack; -1 once an
   instruction is refused *)
Checked(depth, in) ==
  IF /\ depth >= 0 /\ Enough(depth, in.op)
     /\ in.op \in {"LOCAL_GET", "LOCAL_SET"} => in.a < n_locals
     /\ in.op \in {"LOAD", "STORE"} => in.a = 0
     /\ depth - Pops(in.op) + Pushes(in.op) <= STACK_MAX
  THEN depth - Pops(in.op) + Pushes(in.op) ELSE -1
cvsasx_gate_check ==
  /\ phase = "loaded"
  /\ phase' = IF FoldLeft(Checked, 0, code) >= 0 THEN "checked" ELSE "rejected"
  /\ UNCHANGED <<have, n_locals, code, fast_code, size, plain, fast>>

(* cvsasx_gate_optimize: an abstract stack of known constants (-1 is unknown),
   and the code so far *)
Unknown == -1
Drop(s, n) == SubSeq(s, 1, IF n > Len(s) THEN 0 ELSE Len(s) - n)
Push(s, v) == IF Len(s) < STACK_MAX THEN Append(s, v) ELSE s
(* Mutant: the start of the access in bounds, not its end. *)
ProveStart(v, off) == v # Unknown /\ v + off < size
Proven(v, off) == v # Unknown /\ v + off + WORD_BYTES <= size
Optimized(c, in) ==
  LET known(n) == IF Len(c.cs) >= n THEN c.cs[Len(c.cs) - n + 1] ELSE Unknown
      raw == CASE in.op = "LOAD"  /\ Proven(known(1), in.imm) -> "LOAD_RAW"
               [] in.op = "STORE" /\ Proven(known(2), in.imm) -> "STORE_RAW"
               [] OTHER -> in.op
      left == Drop(c.cs, Pops(in.op))
  IN  [out |-> Append(c.out, [in EXCEPT !.op = raw]),
       cs  |-> IF in.op = "CONST" THEN Push(left, in.imm)
               ELSE IF Pushes(in.op) = 1 THEN Push(left, Unknown) ELSE left]
Start(args) == [Idle EXCEPT !.locals = [i \in 1..n_locals |-> IF i = 1 THEN args ELSE 0],
                            !.mem = [i \in 1..size |-> 0], !.status = "running"]
cvsasx_gate_optimize(arg) ==
  /\ phase = "checked"
  /\ fast_code' = FoldLeft(Optimized, [out |-> <<>>, cs |-> <<>>], code).out
  /\ phase' = "running" /\ plain' = Start(arg) /\ fast' = Start(arg)
  /\ UNCHANGED <<have, n_locals, code, size>>
-----------------------------------------------------------------------------
Apply(op, x, y) ==
  CASE op = "ADD"  -> (x + y) % WORD_MOD
    [] op = "SUB"  -> (x - y) % WORD_MOD
    [] op = "MUL"  -> (x * y) % WORD_MOD
    [] op = "AND"  -> x & y
    [] op = "OR"   -> x | y
    [] op = "XOR"  -> x ^^ y
    [] op = "SHL"  -> (x * 2^(y % 32)) % WORD_MOD
    [] op = "SHRU" -> x \div 2^(y % 32)
    [] op = "LTU"  -> IF x < y THEN 1 ELSE 0

(* backend_sw_gate.c: sw_inb, and the bytes of a word in memory.  What a raw
   access finds out of bounds is not linear memory. *)
sw_inb(addr) == ~(addr > size \/ size - addr < WORD_BYTES)
ByteOf(v, k) == (v \div BYTE_MOD^k) % BYTE_MOD
sw_load32(mem, addr) ==
  FoldLeft(LAMBDA v, k : v + mem[addr + k] * BYTE_MOD^(k - 1), 0, [k \in 1..WORD_BYTES |-> k])
sw_store32(mem, addr, v) ==
  [i \in DOMAIN mem |-> IF i - 1 \in addr..(addr + WORD_BYTES - 1) THEN ByteOf(v, i - 1 - addr) ELSE mem[i]]

(* cvsasx_gate_exec, one instruction of run r *)
Stopped(r, status) == [r EXCEPT !.status = status, !.out = IF r.stack = <<>> THEN 0 ELSE Last(r.stack)]
Access(r, in) ==
  LET raw   == in.op \in {"LOAD_RAW", "STORE_RAW"}
      load  == in.op \in {"LOAD", "LOAD_RAW"}
      sp    == Len(r.stack)
      addr  == (r.stack[IF load THEN sp ELSE sp - 1] + in.imm) % WORD_MOD
      rest  == Drop(r.stack, IF load THEN 1 ELSE 2)
      next  == [r EXCEPT !.pc = @ + 1, !.stack = IF load THEN Append(rest, 0) ELSE rest]
  IN  IF ~sw_inb(addr) THEN (IF raw THEN [next EXCEPT !.wild = TRUE] ELSE [next EXCEPT !.fault = TRUE])
      ELSE IF load THEN [next EXCEPT !.stack = Append(rest, sw_load32(r.mem, addr))]
      ELSE [next EXCEPT !.mem = sw_store32(r.mem, addr, Last(r.stack))]
Compute(r, in) ==
  LET sp == Len(r.stack)
      st == Drop(r.stack, Pops(in.op)) IN
  [r EXCEPT !.pc = @ + 1,
            !.locals = IF in.op = "LOCAL_SET" THEN [@ EXCEPT ![in.a + 1] = r.stack[sp]] ELSE @,
            !.stack = CASE in.op = "CONST"     -> Append(st, in.imm)
                        [] in.op = "LOCAL_GET" -> Append(st, r.locals[in.a + 1])
                        [] in.op = "EQZ"       -> Append(st, IF r.stack[sp] = 0 THEN 1 ELSE 0)
                        [] in.op \in AllBinary -> Append(st, Apply(in.op, r.stack[sp - 1], r.stack[sp]))
                        [] OTHER               -> st]
MemoryOps == {"LOAD", "STORE", "LOAD_RAW", "STORE_RAW"}
Needs(op) == IF op = "LOAD_RAW" THEN 1 ELSE IF op = "STORE_RAW" THEN 2 ELSE Pops(op)
cvsasx_gate_exec(r, text) ==
  IF r.status # "running" THEN r
  ELSE IF r.pc >= Len(text) THEN Stopped(r, "OK")
  ELSE IF Len(r.stack) >= STACK_MAX THEN [r EXCEPT !.status = "REJECT_STACK"]
  ELSE LET in == text[r.pc + 1] IN
       IF in.op \in {"RETURN", "END"} THEN Stopped(r, "OK")
       ELSE IF Len(r.stack) < Needs(in.op) THEN [r EXCEPT !.status = "underflow"]
       ELSE LET n == IF in.op \in MemoryOps THEN Access(r, in) ELSE Compute(r, in)
            IN  IF Len(n.stack) >= STACK_MAX THEN [n EXCEPT !.status = "REJECT_STACK"] ELSE n

Step ==
  /\ phase = "running"
  /\ plain' = cvsasx_gate_exec(plain, code) /\ fast' = cvsasx_gate_exec(fast, fast_code)
  /\ phase' = IF "running" \in {plain'.status, fast'.status} THEN "running" ELSE "done"
  /\ UNCHANGED <<have, n_locals, code, fast_code, size>>
Over == phase \in {"done", "rejected"} /\ UNCHANGED gvars

GateNext ==
  \/ \E s \in {"type", "func", "mem"} : Section(s)
  \/ \E d \in 0..1 : CodeSection(d)
  \/ Malformed
  \/ \E n \in MemSizes : EndOfModule(n)
  \/ \E in \in Operators : lower_expr(in)
  \/ cvsasx_gate_check
  \/ \E arg \in Args : cvsasx_gate_optimize(arg)
  \/ Step \/ Over

GateSpec == GateInit /\ [][GateNext]_gvars
-----------------------------------------------------------------------------
(* "each elided access is GENUINELY proven": the optimized module does, step by
   step, what the module as lowered does, faults included, and no access whose
   check the optimizer dropped is out of bounds. *)
ElisionSound == ~fast.wild /\ plain = fast

(* I5: a module the checker passed never finds an operand missing, and the
   executor's own guard stops it only when the stack is full to the ceiling. *)
CheckedRunsOn ==
  /\ plain.status # "underflow"
  /\ plain.status = "REJECT_STACK" => Len(plain.stack) = STACK_MAX
=============================================================================
