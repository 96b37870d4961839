----------------------------- MODULE ErrorResult -----------------------------
(***************************************************************************)
(* error: Error objects with their causes, and Result<T, Error> and        *)
(* Result<void, Error> objects, as a program makes, copies, moves,         *)
(* propagates and destroys them.  What is modelled is who owns which block *)
(* of the heap; codes, source locations and the wording of a message are   *)
(* left out.  T owns one block (a string, a vector), which a move takes.   *)
(*                                                                         *)
(* Where the code runs into undefined behaviour the step either has the    *)
(* effect a build shows, or ends the program ("undefined").                *)
(***************************************************************************)
EXTENDS Integers, Sequences, FiniteSets, Functions

CONSTANTS
    Errors,       \* variables of type Error
    Values,       \* variables of type Result<T, Error>
    Voids,        \* variables of type Result<void, Error>
    Blocks,       \* blocks of the heap
    MaxChain      \* bound on the length of a chain of causes

ASSUME ErrorAssumption ==
    /\ MaxChain \in Nat \ {0}
    /\ "inline" \notin Blocks /\ "none" \notin Blocks

Results == Values \union Voids

VARIABLES
    error,     \* each Error: its chain, the object first; <<>> before it is made
    result,    \* each Result
    heap,      \* the blocks in use
    lost,      \* history: blocks no destructor will free
    outcome    \* "running", "abort" or "undefined"

vars == <<error, result, heap, lost, outcome>>

(* A chain is a sequence of links: its place ("inline", or a block made by   *)
(* make_unique) and its text ("inline" for the small buffer, empty or not,   *)
(* or a block).                                                              *)
None == [life |-> "none"]
Ok(v) == [life |-> "alive", ok |-> TRUE, value |-> v, chain |-> <<>>]
Err(c) == [life |-> "alive", ok |-> FALSE, value |-> "none", chain |-> c]

Init ==
    /\ error = [e \in Errors |-> <<>>]
    /\ result = [r \in Results |-> None]
    /\ heap = {} /\ lost = {}
    /\ outcome = "running"

BlocksOf(c) == {b \in Blocks : \E i \in DOMAIN c : b \in {c[i].at, c[i].text}}
BlocksIn(r) == IF r = None THEN {} ELSE BlocksOf(r.chain) \union ({r.value} \cap Blocks)

Free == Blocks \ heap

\* is_ok(), is_err() and operator bool() of a Result that was made
IsOk(r) == result[r] # None /\ result[r].ok
IsErr(r) == result[r] # None /\ ~ result[r].ok

Running == outcome = "running"
Undefined == outcome' = "undefined" /\ UNCHANGED <<error, result, heap, lost>>

-----------------------------------------------------------------------------
(* Error *)

\* what a move leaves: the small buffer is only copied, the string and the
\* causes are taken
MovedFrom(c) == <<[at |-> c[1].at, text |-> "inline"]>>

\* the copy constructor: a block of its own for every block of the original
Needs(c) == ({i \in DOMAIN c : c[i].at \in Blocks} \X {"at"})
                \union ({i \in DOMAIN c : c[i].text \in Blocks} \X {"text"})
CopyInto(c, f) ==
    [i \in DOMAIN c |->
        [at |-> IF <<i, "at">> \in DOMAIN f THEN f[<<i, "at">>] ELSE c[i].at,
         text |-> IF <<i, "text">> \in DOMAIN f THEN f[<<i, "text">>] ELSE c[i].text]]
\* Mutant of Copies: the causes are shared with the original.
CopiesShared(c) ==
    {CopyInto(c, f) : f \in Injection(Needs(c) \cap {<<1, "text">>}, Free)}

Copies(c) == {CopyInto(c, f) : f \in Injection(Needs(c), Free)}

\* Error e(code, loc) or e(code, loc, fmt, ...)
NewError(e) ==
    /\ Running /\ error[e] = <<>>
    /\ \E t \in {"inline"} \union Free :
        /\ error' = [error EXCEPT ![e] = <<[at |-> "inline", text |-> t]>>]
        /\ heap' = heap \union ({t} \cap Blocks)
    /\ UNCHANGED <<result, lost, outcome>>

\* the copy constructor and the copy assignment
CopyError(e, f) ==
    /\ Running /\ e # f /\ error[f] # <<>>
    /\ \E c \in Copies(error[f]) :
           /\ error' = [error EXCEPT ![e] = c]
           /\ heap' = (heap \ BlocksOf(error[e])) \union BlocksOf(c)
    /\ UNCHANGED <<result, lost, outcome>>

\* the move constructor and the move assignment
MoveError(e, f) ==
    /\ Running /\ e # f /\ error[f] # <<>>
    /\ error' = [error EXCEPT ![e] = error[f], ![f] = MovedFrom(error[f])]
    /\ heap' = heap \ BlocksOf(error[e])
    /\ UNCHANGED <<result, lost, outcome>>

\* e.caused_by(std::move(f)), e itself included: the cause goes into a block of
\* its own, and a cause that e already had is destroyed
CausedBy(e, f) ==
    /\ Running /\ error[e] # <<>> /\ error[f] # <<>>
    /\ Len(error[f]) < MaxChain
    /\ LET moved == [error EXCEPT ![f] = MovedFrom(error[f])]
       IN  \E at \in Free :
           /\ error' = [moved EXCEPT
                  ![e] = <<Head(moved[e])>> \o [error[f] EXCEPT ![1].at = at]]
           /\ heap' = (heap \ BlocksOf(Tail(moved[e]))) \union {at}
    /\ UNCHANGED <<result, lost, outcome>>

\* ~Error()
DropError(e) ==
    /\ Running /\ error[e] # <<>>
    /\ error' = [error EXCEPT ![e] = <<>>]
    /\ heap' = heap \ BlocksOf(error[e])
    /\ UNCHANGED <<result, lost, outcome>>

-----------------------------------------------------------------------------
(* Making, moving and destroying a Result *)

\* Result(const T&), Result(const T&&): both copy the value
MakeValue(r) ==
    /\ Running /\ result[r] = None
    /\ \E b \in Free :
           /\ result' = [result EXCEPT ![r] = Ok(b)]
           /\ heap' = heap \union {b}
    /\ UNCHANGED <<error, lost, outcome>>

\* Result<void, E>(), OK()
MakeVoid(r) ==
    /\ Running /\ result[r] = None
    /\ result' = [result EXCEPT ![r] = Ok("none")]
    /\ UNCHANGED <<error, heap, lost, outcome>>

\* Result(const E&)
MakeErr(r, e) ==
    /\ Running /\ result[r] = None /\ error[e] # <<>>
    /\ \E c \in Copies(error[e]) :
           /\ result' = [result EXCEPT ![r] = Err(c)]
           /\ heap' = heap \union BlocksOf(c)
    /\ UNCHANGED <<error, lost, outcome>>

\* Result(E&&)
MakeErrMoved(r, e) ==
    /\ Running /\ result[r] = None /\ error[e] # <<>>
    /\ result' = [result EXCEPT ![r] = Err(error[e])]
    /\ error' = [error EXCEPT ![e] = MovedFrom(error[e])]
    /\ UNCHANGED <<heap, lost, outcome>>

\* the state of the source of a move: its tag stays
Emptied(s) == IF result[s].ok THEN Ok("none") ELSE Err(MovedFrom(result[s].chain))

\* Result<void, E> moves an E out of its buffer in either state: in the ok state
\* those bytes were never an E
ReadsRaw(s) == s \in Voids /\ result[s].ok

\* Result(Result&&)
MoveConstruct(r, s) ==
    /\ Running /\ result[r] = None /\ result[s] # None
    /\ \/ /\ result' = [result EXCEPT ![r] = result[s], ![s] = Emptied(s)]
          /\ UNCHANGED <<error, heap, lost, outcome>>
       \/ ReadsRaw(s) /\ Undefined

\* operator=(Result&&) of Result<T, E>: the tag is taken first, so the destructor
\* that runs is that of the new state; over an object of the other state it ends
\* the program or leaves what that object owned
MoveAssignValue(r, s) ==
    /\ Running /\ r # s /\ result[r] # None /\ result[s] # None
    /\ \/ /\ result' = [result EXCEPT ![r] = result[s], ![s] = Emptied(s)]
          /\ IF result[r].ok = result[s].ok
             THEN /\ heap' = heap \ BlocksIn(result[r])
                  /\ UNCHANGED lost
             ELSE /\ lost' = lost \union BlocksIn(result[r])
                  /\ UNCHANGED heap
          /\ UNCHANGED <<error, outcome>>
       \/ result[r].ok # result[s].ok /\ Undefined

\* operator=(Result&&) of Result<void, E>: the old error is never destroyed
MoveAssignVoid(r, s) ==
    /\ Running /\ r # s /\ result[r] # None /\ result[s] # None
    /\ \/ /\ result' = [result EXCEPT ![r] = result[s], ![s] = Emptied(s)]
          /\ lost' = lost \union BlocksIn(result[r])
          /\ UNCHANGED <<error, heap, outcome>>
       \/ ReadsRaw(s) /\ Undefined

\* ~Result()
Destroy(r) ==
    /\ Running /\ result[r] # None
    /\ heap' = heap \ BlocksIn(result[r])
    /\ result' = [result EXCEPT ![r] = None]
    /\ UNCHANGED <<error, lost, outcome>>

-----------------------------------------------------------------------------
(* Taking a value or an error out of a Result *)

\* unwrap(), unwrap_move() of an error
UnwrapError(r) ==
    /\ Running /\ IsErr(r)
    /\ outcome' = "abort"
    /\ UNCHANGED <<error, result, heap, lost>>

\* *r = v and r->..., which assign to the value in place: a value that a move left
\* empty takes a block, another keeps its own; over an error they abort
AssignThrough(r) ==
    \/ UnwrapError(r)
    \/ /\ Running /\ IsOk(r)
       /\ \E b \in IF result[r].value \in Blocks THEN {result[r].value} ELSE Free :
            /\ result' = [result EXCEPT ![r] = Ok(b)]
            /\ heap' = heap \union {b}
       /\ UNCHANGED <<error, lost, outcome>>

\* unwrap_move(), and value_or(T&&) of a value: what comes out dies with the
\* statement; the Result stays ok, its value is empty
TakeValue(r) ==
    /\ Running /\ IsOk(r)
    /\ heap' = heap \ BlocksIn(result[r])
    /\ result' = [result EXCEPT ![r] = Ok("none")]
    /\ UNCHANGED <<error, lost, outcome>>

\* Error e = r.unwrap_err(): the state is not looked at
UnwrapErr(e, r) ==
    /\ Running /\ error[e] = <<>> /\ result[r] # None
    /\ IF result[r].ok THEN Undefined
       ELSE /\ \E c \in Copies(result[r].chain) :
                   /\ error' = [error EXCEPT ![e] = c]
                   /\ heap' = heap \union BlocksOf(c)
            /\ UNCHANGED <<result, lost, outcome>>

\* EF_TRY in a function that returns q: an error is returned by copy, and the
\* local Result is destroyed after it
Try(q, r) ==
    /\ Running /\ q # r /\ result[q] = None /\ IsErr(r)
    /\ \E c \in Copies(result[r].chain) :
           /\ result' = [result EXCEPT ![q] = Err(c), ![r] = None]
           /\ heap' = (heap \union BlocksOf(c)) \ BlocksIn(result[r])
    /\ UNCHANGED <<error, lost, outcome>>

-----------------------------------------------------------------------------
SameKind(r, s) == (r \in Values) <=> (s \in Values)

Next ==
    \/ \E e \in Errors : NewError(e) \/ DropError(e)
    \/ \E e, f \in Errors : CopyError(e, f) \/ MoveError(e, f) \/ CausedBy(e, f)
    \/ \E r \in Values : MakeValue(r) \/ UnwrapError(r) \/ AssignThrough(r) \/ TakeValue(r)
    \/ \E r \in Voids : MakeVoid(r)
    \/ \E r \in Results, e \in Errors : MakeErr(r, e) \/ MakeErrMoved(r, e) \/ UnwrapErr(e, r)
    \/ \E r, s \in Results : SameKind(r, s) /\ MoveConstruct(r, s)
    \/ \E r, s \in Values : MoveAssignValue(r, s)
    \/ \E r, s \in Voids : MoveAssignVoid(r, s)
    \/ \E q, r \in Results : Try(q, r)
    \/ \E r \in Results : Destroy(r)

Spec == Init /\ [][Next]_vars

-----------------------------------------------------------------------------
(* Properties *)

\* the places that own a block, each a triple: variable, link, field
Owners(b) ==
    {p \in Errors \X (1..MaxChain) \X {"at", "text"} :
        p[2] \in DOMAIN error[p[1]] /\ error[p[1]][p[2]][p[3]] = b}
    \union
    {p \in Results \X (1..MaxChain) \X {"at", "text"} :
        /\ result[p[1]] # None /\ p[2] \in DOMAIN result[p[1]].chain
        /\ result[p[1]].chain[p[2]][p[3]] = b}
    \union
    {p \in Results \X {0} \X {"value"} : result[p[1]] # None /\ result[p[1]].value = b}

\* Through any sequence of copies, moves, causes and propagations, every block in
\* use has exactly one owner that will free it, unless an assignment to a Result
\* over an object of the other state, or over an error of a Result<void, E>, left
\* it behind; and nothing owns a block that was freed.
OneOwner ==
    \A b \in Blocks : Cardinality(Owners(b)) = IF b \in heap \ lost THEN 1 ELSE 0
=============================================================================
