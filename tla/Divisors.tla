------------------------------- MODULE Divisors -------------------------------
(***************************************************************************)
(* src/src/fork/divisors/main.c: main gives a number to THREADS child      *)
(* processes through an eventfd each; every child tries its share of the   *)
(* candidates up to the square root and puts the divisors it finds, in     *)
(* pairs, in slots of shared memory that it takes with fetch-and-add.      *)
(*                                                                         *)
(* A read of an eventfd waits until its counter is not zero, returns it    *)
(* and resets it; a write adds to it, so that writing 0 wakes nobody.  The *)
(* branch of loop_fd for value == 0 is therefore never taken.  When scanf  *)
(* finds no number main goes on with x = 0, and when a fork fails it goes  *)
(* on without that child.                                                  *)
(***************************************************************************)
EXTENDS Integers, FiniteSets

CONSTANTS THREADS,
          MAX_RESPONSES,   \* the length of the array responses
          PAGE_RESPONSES,  \* how many there is room for in the page mapped for it
          Value,         \* the numbers in the input
          MaxRequests    \* bound: how many numbers are read

Divides(d, k) == k % d = 0

(* The candidates that divide k: one of each pair of divisors. *)
SmallDivisors(k) == {d \in 2 .. k : d * d <= k /\ Divides(d, k)}

(* The code does not check that the answers fit the array.  Behind it they *)
(* go on in the rest of the page; the inputs here fit that.                *)
ASSUME InputAssumption ==
    /\ THREADS \in Nat \ {0}
    /\ MAX_RESPONSES \in Nat /\ PAGE_RESPONSES \in Nat
    /\ MAX_RESPONSES <= PAGE_RESPONSES
    /\ MaxRequests \in Nat
    /\ Value \subseteq Nat
    /\ \A k \in Value : 2 * Cardinality(SmallDivisors(k)) <= PAGE_RESPONSES

Id == 0 .. THREADS - 1
Slot == 0 .. PAGE_RESPONSES - 1

VARIABLES main_pc,         \* where main is
          x,               \* its x
          loop,            \* the i of its loops over the children
          requests,        \* how many numbers it has read
          input_fd,        \* the counters of the eventfds to the children
          output_fd,       \* the counters of the eventfds back
          response_size,   \* the shared context
          responses,
          pc,              \* where each child is
          value,           \* its value, and
          cand,            \* its candidate i
          slot             \* what its last fetch-and-add returned

mainVars == <<main_pc, x, loop, requests>>
childVars == <<pc, value, cand, slot>>
vars == <<mainVars, childVars, input_fd, output_fd, response_size, responses>>

(* After the loop of forks. *)
Init ==
    /\ main_pc = "scan" /\ x = 0 /\ loop = 0 /\ requests = 0
    /\ input_fd = [i \in Id |-> 0]
    /\ output_fd = [i \in Id |-> 0]
    /\ response_size = 0
    /\ responses = [s \in Slot |-> 0]
    /\ pc \in [Id -> {"read", "none"}]
    /\ value = [i \in Id |-> 0]
    /\ cand = [i \in Id |-> 0]
    /\ slot = [i \in Id |-> 0]

-------------------------------------------------------------------------------
(***************************************************************************)
(* The share of a child: candidates First(v, i) up to but not End(v, i).   *)
(***************************************************************************)
IntSqrt(v) == CHOOSE r \in 0 .. v : r * r <= v /\ (r + 1) * (r + 1) > v
SqrtPart(v) == IntSqrt(v) + 1
StepSize(v) == (SqrtPart(v) + THREADS - 1) \div THREADS
First(v, i) == IF StepSize(v) * i < 2 THEN 2 ELSE StepSize(v) * i
End(v, i) == StepSize(v) * (i + 1)

-------------------------------------------------------------------------------
(***************************************************************************)
(* main                                                                    *)
(***************************************************************************)

(* scanf, with x = 0 when it fails; response_size = 0 *)
ReadNumber ==
    /\ main_pc = "scan"
    /\ requests < MaxRequests
    /\ x' \in Value \cup {0}
    /\ requests' = requests + 1
    /\ response_size' = 0
    /\ loop' = 0
    /\ main_pc' = "request"
    /\ UNCHANGED <<input_fd, output_fd, responses, childVars>>

Request ==
    /\ main_pc = "request"
    /\ loop < THREADS
    /\ input_fd' = [input_fd EXCEPT ![loop] = @ + x]
    /\ loop' = loop + 1
    /\ UNCHANGED <<main_pc, x, requests, output_fd, response_size, responses, childVars>>

AllRequested ==
    /\ main_pc = "request"
    /\ loop = THREADS
    /\ loop' = 0
    /\ main_pc' = "collect"
    /\ UNCHANGED <<x, requests, input_fd, output_fd, response_size, responses, childVars>>

Collect ==
    /\ main_pc = "collect"
    /\ loop < THREADS
    /\ output_fd[loop] > 0
    /\ x' = output_fd[loop]
    /\ output_fd' = [output_fd EXCEPT ![loop] = 0]
    /\ loop' = loop + 1
    /\ UNCHANGED <<main_pc, requests, input_fd, response_size, responses, childVars>>

(* Mutation: the last child's answer is not waited for. *)
AllCollectedEarly ==
    /\ main_pc = "collect"
    /\ loop = THREADS - 1
    /\ main_pc' = "report"
    /\ UNCHANGED <<x, loop, requests, input_fd, output_fd, response_size, responses,
                   childVars>>

AllCollected ==
    /\ main_pc = "collect"
    /\ loop = THREADS
    /\ main_pc' = "report"
    /\ UNCHANGED <<x, loop, requests, input_fd, output_fd, response_size, responses,
                   childVars>>

(* Prints response_size and the responses, and goes on. *)
Report ==
    /\ main_pc = "report"
    /\ main_pc' = "scan"
    /\ UNCHANGED <<x, loop, requests, input_fd, output_fd, response_size, responses,
                   childVars>>

-------------------------------------------------------------------------------
(***************************************************************************)
(* loop_fd                                                                 *)
(***************************************************************************)
ReadInput(i) ==
    /\ pc[i] = "read"
    /\ input_fd[i] > 0
    /\ value' = [value EXCEPT ![i] = input_fd[i]]
    /\ input_fd' = [input_fd EXCEPT ![i] = 0]
    /\ cand' = [cand EXCEPT ![i] = First(input_fd[i], i)]
    /\ pc' = [pc EXCEPT ![i] = "loop"]
    /\ UNCHANGED <<mainVars, output_fd, response_size, responses, slot>>

(* Mutation: < for <= in the test for the square root. *)
MoreStrict(i) == cand[i] < End(value[i], i) /\ cand[i] * cand[i] < value[i]

More(i) == cand[i] < End(value[i], i) /\ cand[i] * cand[i] <= value[i]

Skip(i) ==
    /\ pc[i] = "loop"
    /\ More(i)
    /\ ~Divides(cand[i], value[i])
    /\ cand' = [cand EXCEPT ![i] = @ + 1]
    /\ UNCHANGED <<mainVars, input_fd, output_fd, response_size, responses,
                   pc, value, slot>>

(* __sync_fetch_and_add of response_size, for i or for j *)
TakeSlot(i) ==
    /\ \/ /\ pc[i] = "loop"
          /\ More(i)
          /\ Divides(cand[i], value[i])
          /\ pc' = [pc EXCEPT ![i] = "store_i"]
       \/ /\ pc[i] = "pair"
          /\ pc' = [pc EXCEPT ![i] = "store_j"]
    /\ slot' = [slot EXCEPT ![i] = response_size]
    /\ response_size' = response_size + 1
    /\ UNCHANGED <<mainVars, input_fd, output_fd, responses, value, cand>>

StoreCandidate(i) ==
    /\ pc[i] = "store_i"
    /\ responses' = [responses EXCEPT ![slot[i]] = cand[i]]
    /\ pc' = [pc EXCEPT ![i] = "pair"]
    /\ UNCHANGED <<mainVars, input_fd, output_fd, response_size, value, cand, slot>>

StoreQuotient(i) ==
    /\ pc[i] = "store_j"
    /\ responses' = [responses EXCEPT ![slot[i]] = value[i] \div cand[i]]
    /\ cand' = [cand EXCEPT ![i] = @ + 1]
    /\ pc' = [pc EXCEPT ![i] = "loop"]
    /\ UNCHANGED <<mainVars, input_fd, output_fd, response_size, value, slot>>

(* Mutation: a child answers with its id. *)
WriteOutputId(i) ==
    /\ pc[i] = "loop"
    /\ ~More(i)
    /\ output_fd' = [output_fd EXCEPT ![i] = @ + i]
    /\ pc' = [pc EXCEPT ![i] = "read"]
    /\ UNCHANGED <<mainVars, input_fd, response_size, responses, value, cand, slot>>

WriteOutput(i) ==
    /\ pc[i] = "loop"
    /\ ~More(i)
    /\ output_fd' = [output_fd EXCEPT ![i] = @ + value[i]]
    /\ pc' = [pc EXCEPT ![i] = "read"]
    /\ UNCHANGED <<mainVars, input_fd, response_size, responses, value, cand, slot>>

-------------------------------------------------------------------------------
MainStep ==
    ReadNumber \/ Request \/ AllRequested \/ Collect \/ AllCollected \/ Report

ChildStep(i) ==
    ReadInput(i) \/ Skip(i) \/ TakeSlot(i) \/ StoreCandidate(i) \/ StoreQuotient(i)
        \/ WriteOutput(i)

Next == MainStep \/ \E i \in Id : ChildStep(i)

Spec == Init /\ [][Next]_vars

(* The kernel runs every process. *)
FairSpec == Spec /\ WF_vars(MainStep) /\ \A i \in Id : WF_vars(ChildStep(i))

-------------------------------------------------------------------------------
(***************************************************************************)
(* Properties.                                                             *)
(***************************************************************************)
TypeOK ==
    /\ main_pc \in {"scan", "request", "collect", "report"}
    /\ x \in Nat /\ loop \in 0 .. THREADS /\ requests \in 0 .. MaxRequests
    /\ input_fd \in [Id -> Nat] /\ output_fd \in [Id -> Nat]
    /\ response_size \in 0 .. PAGE_RESPONSES
    /\ responses \in [Slot -> Nat]
    /\ pc \in [Id -> {"none", "read", "loop", "store_i", "pair", "store_j"}]
    /\ value \in [Id -> Nat] /\ cand \in [Id -> Nat]
    /\ slot \in [Id -> Nat]
    /\ \A i \in Id : pc[i] \in {"store_i", "store_j"} => slot[i] \in Slot

(* How often d is among the responses main prints. *)
Occurs(d) == Cardinality({s \in 0 .. response_size - 1 : responses[s] = d})

(* The answer main prints has each divisor of the number exactly once, but *)
(* 1 and the number itself, and a square root twice, whatever the order in *)
(* which the children take and fill their slots; nothing is left over from *)
(* the number before.                                                      *)
AnswerComplete ==
    main_pc = "report" =>
        /\ response_size = 2 * Cardinality(SmallDivisors(x))
        /\ \A d \in SmallDivisors(x) :
              IF d * d = x THEN Occurs(d) = 2
                           ELSE Occurs(d) = 1 /\ Occurs(x \div d) = 1

(* The shares of the children cover every candidate, each just once. *)
SharesPartition ==
    \A i \in Id : pc[i] = "loop" =>
        \A d \in SmallDivisors(value[i]) :
            Cardinality({j \in Id : d \in First(value[i], j) .. End(value[i], j) - 1}) = 1

(* While main resets the size or prints, no child works on a number: all   *)
(* eventfds are empty and every child waits for the next.                  *)
QuietBetweenRequests ==
    main_pc \in {"scan", "report"} =>
        \A i \in Id : pc[i] \in {"read", "none"} /\ input_fd[i] = 0 /\ output_fd[i] = 0

(* The children share out each number between them and rest in between. *)
Safety == TypeOK /\ SharesPartition /\ QuietBetweenRequests

(* What keeps them from step to step.  Each child that main has asked and  *)
(* not yet heard has the number before it, in its hands or behind it; the  *)
(* others rest.                                                            *)
Share(i) == {d \in SmallDivisors(x) : d \in First(x, i) .. End(x, i) - 1}
Works(i) == pc[i] \in {"loop", "store_i", "pair", "store_j"}
Asked(i) ==
    \/ main_pc = "request" /\ i < loop
    \/ main_pc = "collect" /\ i >= loop
Rests(i) == pc[i] \in {"read", "none"} /\ input_fd[i] = 0 /\ output_fd[i] = 0
Turn(i) ==
    \/ pc[i] \in {"read", "none"} /\ input_fd[i] = x /\ output_fd[i] = 0
    \/ Works(i) /\ x > 0 /\ value[i] = x /\ input_fd[i] = 0 /\ output_fd[i] = 0
    \/ pc[i] = "read" /\ x > 0 /\ input_fd[i] = 0 /\ output_fd[i] = x

Control ==
    /\ x \in Value \cup {0}
    /\ main_pc = "collect" /\ loop > 0 => x > 0
    /\ main_pc = "report" => loop = THREADS /\ x > 0
    /\ \A i \in Id :
          /\ IF Asked(i) THEN Turn(i) ELSE Rests(i)
          /\ Works(i) => First(x, i) <= cand[i] /\ (pc[i] # "loop" => cand[i] \in Share(i))

(* The answers for which a child has taken a slot: a divisor, "i", and its *)
(* quotient, "j", of each candidate the child has passed, and those of the *)
(* one it is at.                                                           *)
Passed(i) == output_fd[i] > 0 \/ (main_pc \in {"collect", "report"} /\ i < loop)
Given(i, d, k) ==
    /\ d \in Share(i)
    /\ \/ Passed(i)
       \/ Works(i) /\ d < cand[i]
       \/ /\ d = cand[i]
          /\ pc[i] \in (IF k = "i" THEN {"store_i", "pair", "store_j"} ELSE {"store_j"})
Answers == {a \in SmallDivisors(x) \X {"i", "j"} : \E i \in Id : Given(i, a[1], a[2])}
Shown(a) == IF a[2] = "i" THEN a[1] ELSE x \div a[1]

(* Every slot taken is that of one of these answers, and each of them has  *)
(* one slot; it holds the answer, or the child is about to store it there. *)
Storing(i) == pc[i] \in {"store_i", "store_j"}
Holds(f) ==
    /\ f \in [0 .. response_size - 1 -> Answers]
    /\ \A s, t \in 0 .. response_size - 1 : f[s] = f[t] => s = t
    /\ \A a \in Answers : \E s \in 0 .. response_size - 1 : f[s] = a
    /\ \A s \in 0 .. response_size - 1 :
          responses[s] = Shown(f[s]) \/ \E i \in Id : Storing(i) /\ slot[i] = s
    /\ \A i \in Id : Storing(i) =>
          /\ slot[i] \in 0 .. response_size - 1
          /\ f[slot[i]] = <<cand[i], IF pc[i] = "store_i" THEN "i" ELSE "j">>

IInv ==
    /\ TypeOK /\ Control
    /\ main_pc # "scan" => \E f \in [0 .. response_size - 1 -> Answers] : Holds(f)

(* Every number but 0 is answered if all children are there; without one,  *)
(* for a 0 or at the end of the input, main waits for ever.                *)
Answerable == x # 0 /\ \A i \in Id : pc[i] # "none"

AnsweredUnlessZero ==
    /\ (main_pc = "request" /\ Answerable) ~> main_pc = "report"
    /\ (main_pc = "request" /\ ~Answerable) ~> [](main_pc = "collect")
==============================================================================
