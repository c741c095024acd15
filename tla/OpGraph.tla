------------------------------- MODULE OpGraph --------------------------------
(***************************************************************************)
(* The graph of operations of src/src/nn: nodes made by make_op_*, graphs  *)
(* of derivatives built next to the graphs they are derivatives of and     *)
(* sharing nodes with them, and the cached values that compute_graph fills *)
(* in and reset_graph clears.                                              *)
(*                                                                         *)
(* A node is the number of the make_op call that made it, so its inputs    *)
(* are smaller numbers.  A float is a number modulo Modulus, which must be *)
(* prime, because the properties tell values apart and do not depend on    *)
(* rounding; Junk is both what an uninitialized output_value holds and     *)
(* what a division by zero gives, and everything computed from it.         *)
(* Allocations are taken to succeed.                                       *)
(***************************************************************************)
EXTENDS Integers, Sequences

CONSTANTS Modulus,     \* bound: how many values there are
          References,  \* the variables placeholders refer to
          Junk,
          Kinds,       \* bound: the pairwise operations made by hand
          MaxInputs,   \* bound: how many placeholders and constants are made
          MaxPairwise, \* bound: how many pairwise operations are made by hand
          Period       \* bound: after how many nodes fresh memory repeats itself

Number == 0 .. Modulus - 1
VARIABLES ops,              \* the operations made so far
          output_value,     \* op->output_value of each
          output_computed,  \* op->output_computed of each
          heap,             \* where fresh memory reads as not zero
          value,            \* what the references point to
          roots,            \* <<r>> or <<r, dr>>: dr is the derivative of r
          variable,         \* the reference dr is the derivative by
          forced,           \* roots reset with force, no change of value since
          settled,          \* roots reset, no change of value and no
                            \*    computation in between since
          initialized       \* roots reset with force at least once

vars == <<ops, output_value, output_computed, heap, value, roots, variable,
          forced, settled, initialized>>

Op(kind, inputs, arg) == [kind |-> kind, inputs |-> inputs, arg |-> arg]
placeholder(reference) == Op("placeholder", <<>>, reference)
const(c) == Op("const", <<>>, c)
pairwise(kind, a, b) == Op(kind, <<a, b>>, 0)

InputsOf(n) == {ops[n].inputs[i] : i \in 1 .. Len(ops[n].inputs)}

Init ==
    /\ ops = <<>> /\ output_value = <<>> /\ output_computed = <<>>
    /\ heap \in [0 .. Period - 1 -> BOOLEAN]
    /\ value = [r \in References |-> Junk]
    /\ roots = <<>>
    /\ variable \in References
    /\ forced = {} /\ settled = {} /\ initialized = {}

-------------------------------------------------------------------------------
(***************************************************************************)
(* Making operations.                                                      *)
(***************************************************************************)
(* malloc leaves output_value and output_computed as they come.            *)
Allocate(new) ==
    /\ ops' = ops \o new
    /\ output_value' = output_value \o [i \in 1 .. Len(new) |-> Junk]
    /\ output_computed' = output_computed \o 
          [i \in 1 .. Len(new) |-> heap[(Len(ops) + i) % Period]]

Building == roots = <<>>

make_op_input ==
    /\ Building
    /\ Len(ops) < MaxInputs
    /\ \E new \in {placeholder(r) : r \in References} \cup {const(1)} : Allocate(<<new>>)
    /\ UNCHANGED <<heap, value, roots, variable, forced, settled, initialized>>

make_op_pairwise ==
    /\ Building
    /\ Len(ops) \in MaxInputs .. MaxInputs + MaxPairwise - 1
    /\ \E kind \in Kinds, a, b \in 1 .. Len(ops) : Allocate(<<pairwise(kind, a, b)>>)
    /\ UNCHANGED <<heap, value, roots, variable, forced, settled, initialized>>

(* Mutation: the two inputs change places in the first product. *)
QuotientSwapped(in, d1, d2, top) ==
    << pairwise("mul", d1, in[1]), pairwise("mul", d2, in[2]),
       pairwise("sub", top + 1, top + 2), pairwise("mul", in[2], in[2]),
       pairwise("div", top + 3, top + 4) >>

(* What derivative_mul and derivative_div make after the derivatives d1    *)
(* and d2 of their inputs; top is the last node so far.                    *)
Product(in, d1, d2, top) ==
    << pairwise("mul", d1, in[2]), pairwise("mul", d2, in[1]),
       pairwise("add", top + 1, top + 2) >>

Quotient(in, d1, d2, top) ==
    << pairwise("mul", d1, in[2]), pairwise("mul", d2, in[1]),
       pairwise("sub", top + 1, top + 2), pairwise("mul", in[2], in[2]),
       pairwise("div", top + 3, top + 4) >>

(* The nodes vtable->derivative of op makes behind the first top nodes and *)
(* the derivatives s1 and s2 of its inputs.                                *)
DerivativeOf(op, s1, s2, top) ==
    LET d1 == top + Len(s1)
        d2 == d1 + Len(s2)
    IN  CASE op.kind = "const"       -> <<const(0)>>
          [] op.kind = "placeholder" -> <<const(IF op.arg = variable THEN 1 ELSE 0)>>
          [] op.kind \in {"add", "sub"} -> s1 \o s2 \o <<pairwise(op.kind, d1, d2)>>
          [] op.kind = "mul" -> s1 \o s2 \o Product(op.inputs, d1, d2, d2)
          [] op.kind = "div" -> s1 \o s2 \o Quotient(op.inputs, d1, d2, d2)

(* All that is made for root after the first last nodes.  The last of them *)
(* is the result.  A node reached twice has its derivative made twice.     *)
Derivative(root, last) ==
    LET nodes[n \in 1 .. root] == [top \in Nat |->
            LET in == ops[n].inputs
                s1 == nodes[in[1]][top]
                s2 == nodes[in[2]][top + Len(s1)]
            IN  DerivativeOf(ops[n], s1, s2, top)]
    IN  nodes[root][last]

(* dr = r->vtable->derivative(r, &value), for the latest operation r. *)
derivative ==
    /\ Building
    /\ Len(ops) = MaxInputs + MaxPairwise
    /\ LET new == Derivative(Len(ops), Len(ops))
       IN  /\ Allocate(new)
           /\ roots' = <<Len(ops), Len(ops) + Len(new)>>
    /\ UNCHANGED <<heap, value, variable, forced, settled, initialized>>

-------------------------------------------------------------------------------
(***************************************************************************)
(* Using the graphs.                                                       *)
(***************************************************************************)
Root == {roots[i] : i \in 1 .. Len(roots)}

SetValue ==
    /\ Root # {}
    /\ \E r \in References, v \in Number : value' = [value EXCEPT ![r] = v]
    /\ forced' = {} /\ settled' = {}
    /\ UNCHANGED <<ops, output_value, output_computed, heap, roots, variable, initialized>>

(* The nodes a walk from op calls itself on, if it goes on to the inputs   *)
(* of the nodes in Through only.                                           *)
Visited(op, Through) ==
    LET visited[n \in 1 .. op] ==
            n = op \/ \E m \in n + 1 .. op : m \in Through /\ n \in InputsOf(m) /\ visited[m]
    IN  {n \in 1 .. op : visited[n]}

Computed == {n \in 1 .. Len(ops) : output_computed[n]}

(* Mutation: the test for force is missing. *)
ResetNodesLazily(op, force) == Visited(op, Computed) \cap Computed

(* The nodes reset_graph(op, force) clears. *)
ResetNodes(op, force) ==
    IF force THEN Visited(op, 1 .. op) ELSE Visited(op, Computed) \cap Computed

reset_graph(op, force) ==
    /\ output_computed' =
          [n \in 1 .. Len(ops) |-> output_computed[n] /\ n \notin ResetNodes(op, force)]
    /\ forced' = IF force THEN forced \cup {op} ELSE forced
    /\ settled' = settled \cup {op}
    /\ initialized' = IF force THEN initialized \cup {op} ELSE initialized
    /\ UNCHANGED <<ops, output_value, heap, value, roots, variable>>

Divide(a, b) == CHOOSE c \in Number : (c * b) % Modulus = a

Combine(kind, a, b) ==
    CASE kind = "add" -> (a + b) % Modulus
      [] kind = "sub" -> (a - b) % Modulus
      [] kind = "mul" -> (a * b) % Modulus
      [] kind = "div" -> IF b = 0 THEN Junk ELSE Divide(a, b)

(* vtable->compute, for the values a and b of its inputs. *)
Apply(op, a, b, at) ==
    CASE op.kind = "const"       -> op.arg
      [] op.kind = "placeholder" -> at[op.arg]
      [] OTHER -> IF a = Junk \/ b = Junk THEN Junk ELSE Combine(op.kind, a, b)

(* The values of the nodes in order, the old ones except where Fresh. *)
Values(Fresh, at) ==
    LET val[n \in 1 .. Len(ops)] ==
            IF n \notin Fresh THEN output_value[n]
            ELSE IF ops[n].inputs = <<>> THEN Apply(ops[n], 0, 0, at)
            ELSE Apply(ops[n], val[ops[n].inputs[1]], val[ops[n].inputs[2]], at)
    IN  [n \in 1 .. Len(ops) |-> val[n]]

compute_graph(op) ==
    LET fresh == Visited(op, (1 .. op) \ Computed) \ Computed
    IN  /\ output_value' = Values(fresh, value)
        /\ output_computed' = [n \in 1 .. Len(ops) |-> output_computed[n] \/ n \in fresh]
        /\ settled' = IF settled = Root THEN settled ELSE {}
        /\ UNCHANGED <<ops, heap, value, roots, variable, forced, initialized>>

-------------------------------------------------------------------------------
Build == make_op_input \/ make_op_pairwise \/ derivative

Use ==
    \/ SetValue
    \/ \E op \in Root, force \in BOOLEAN : reset_graph(op, force)
    \/ \E op \in Root : compute_graph(op)

Next == Build \/ Use

Spec == Init /\ [][Next]_vars

-------------------------------------------------------------------------------
(***************************************************************************)
(* Properties.                                                             *)
(***************************************************************************)
TypeOK ==
    /\ \A n \in 1 .. Len(ops) : \A m \in InputsOf(n) : m \in 1 .. n - 1
    /\ Len(output_value) = Len(ops) /\ Len(output_computed) = Len(ops)
    /\ \A n \in 1 .. Len(ops) :
          output_value[n] \in Number \cup {Junk} /\ output_computed[n] \in BOOLEAN
    /\ heap \in [0 .. Period - 1 -> BOOLEAN] /\ value \in [References -> Number \cup {Junk}]
    /\ Len(roots) \in {0, 2} /\ Root \subseteq 1 .. Len(ops)
    /\ forced \subseteq Root /\ settled \subseteq Root /\ initialized \subseteq Root

(* What node n stands for when the references have the values at. *)
True(n, at) == Values(1 .. Len(ops), at)[n]

(* A root that has been reset with force since the last change of a value  *)
(* is computed to what it stands for, whatever the flags of its nodes were *)
(* and whatever was done with the other root, which shares nodes with it.  *)
ForcedResetSuffices ==
    \A r \in forced : output_computed[r] => output_value[r] = True(r, value)

(* A reset without force stops at nodes that are not computed.  It is      *)
(* enough if all roots are reset after a change and before anything is     *)
(* computed, once every flag has been initialized by a forced reset.       *)
LazyResetsSuffice ==
    (Root # {} /\ settled = Root /\ initialized = Root)
        => \A r \in Root : output_computed[r] => output_value[r] = True(r, value)

(* The derivative by variable of an operation that gives v, from the       *)
(* values and the derivatives of its inputs, by the rules for numbers      *)
(* a + a' * e with e * e = 0.                                              *)
SlopeOf(op, v, v1, v2, slope1, slope2) ==
    IF v = Junk THEN Junk ELSE
    CASE op.kind = "const" -> 0
      [] op.kind = "placeholder" -> IF op.arg = variable THEN 1 ELSE 0
      [] op.kind = "add" -> (slope1 + slope2) % Modulus
      [] op.kind = "sub" -> (slope1 - slope2) % Modulus
      [] op.kind = "mul" -> (slope1 * v2 + slope2 * v1) % Modulus
      [] op.kind = "div" -> \* v1 = v * v2, so slope1 = s * v2 + v * slope2
            CHOOSE s \in Number : (s * v2 + v * slope2) % Modulus = slope1

(* The derivative of each node where the references have the values at.    *)
Slope(at) ==
    LET v == Values(1 .. Len(ops), at)
        slope[n \in 1 .. Len(ops)] ==
            LET in == ops[n].inputs
            IN  SlopeOf(ops[n], v[n], v[in[1]], v[in[2]], slope[in[1]], slope[in[2]])
    IN  slope

(* The graph derivative makes stands for the derivative of r at every      *)
(* point where r is defined, and shares no node it must not.               *)
DerivativeIsRight ==
    roots # <<>> =>
        \A at \in [References -> Number] :
            True(roots[1], at) # Junk => True(roots[2], at) = Slope(at)[roots[1]]

(* Cached values that are believed are right. *)
CachesAreRight == TypeOK /\ ForcedResetSuffices /\ LazyResetsSuffice
===============================================================================
