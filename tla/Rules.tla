------------------------------- MODULE Rules -------------------------------
(***************************************************************************)
(* The rules of a symbol (struct _pmath_rulecache_t in                     *)
(* pmath-util/symbol-values-private.c).  Rules for constant patterns are   *)
(* in a hash table behind a spin lock; all others, and every rule with a   *)
(* condition on its right hand side, are in a linked list that is ordered  *)
(* from special to general and that threads change without a lock: a       *)
(* thread walks to the place of its rule, and links the rule in only if    *)
(* the pointer it came by still points to the rule it saw, else starts     *)
(* again.                                                                  *)
(*                                                                         *)
(* A rule of the list is an index into cells, 0 is the null pointer; as a  *)
(* base, 0 is the head _more and i the field next of rule i.               *)
(***************************************************************************)
EXTENDS Naturals, FiniteSets

CONSTANTS
    Threads,
    Consts,     \* constant patterns, each is the expression it matches
    Generals,   \* patterns that match every expression
    Rank,       \* _pmath_pattern_compare: special patterns have a low rank
    Bodies,     \* right hand sides
    MaxRules,   \* bound: number of list entries that are ever made
    None

Patterns == Consts \union Generals
Cells == 1 .. MaxRules
Pointer == 0 .. MaxRules

ASSUME RankAssumption == Rank \in [Patterns -> Nat]
ASSUME MaxRulesAssumption == MaxRules \in Nat
ASSUME PatternAssumption == Patterns # {} /\ Bodies # {}
ASSUME NoneAssumption == None \notin Bodies /\ None \notin Threads

VARIABLES
    table,      \* _table: the rules of constant patterns
    owner,      \* who holds the lock of _table
    more,       \* _more: head of the list
    cells,      \* the list entries (struct _pmath_multirule_t)
    made,       \* number of entries made so far
    pc,
    call,       \* the rule a thread defines; pat alone for a search
    at,         \* where a thread is in the list: rule_base and rule
    got,        \* what a search found
    calm        \* history: nothing was removed or lost since the call began, and
                \* when a search began there was a rule that had to answer it

vars == <<table, owner, more, cells, made, pc, call, at, got, calm>>

Rule == [pat : Patterns, body : Bodies, cond : BOOLEAN]
Cell == [pat : Patterns, body : Bodies, cond : BOOLEAN, next : Pointer]

PCs == {"idle", "define", "start", "walk", "failed", "remove", "unlock", "find",
        "list", "scan", "found", "unassigned", "clear"}

TypeOK ==
    /\ table \in [Consts -> Bodies \union {None}]
    /\ owner \in Threads \union {None}
    /\ more \in Pointer
    /\ cells \in [Cells -> Cell]
    /\ made \in Pointer
    /\ pc \in [Threads -> PCs]
    /\ call \in [Threads -> Rule]
    /\ at \in [Threads -> [base : Pointer, rule : Pointer]]
    /\ got \in [Threads -> Bodies \union {None}]
    /\ calm \in [Threads -> BOOLEAN]
    /\ \A t \in Threads : pc[t] \in {"find", "list", "scan"} => call[t].pat \in Consts

Blank == CHOOSE c \in Cell : c.next = 0
NoCall == CHOOSE r \in Rule : TRUE
Nowhere == [base |-> 0, rule |-> 0]

Init ==
    /\ table = [p \in Consts |-> None]
    /\ owner = None
    /\ more = 0
    /\ cells = [c \in Cells |-> Blank]
    /\ made = 0
    /\ pc = [t \in Threads |-> "idle"]
    /\ call = [t \in Threads |-> NoCall]
    /\ at = [t \in Threads |-> Nowhere]
    /\ got = [t \in Threads |-> None]
    /\ calm = [t \in Threads |-> FALSE]

----------------------------------------------------------------------------
(* Helpers                                                                 *)

Matches(e, p) == p = e \/ p \in Generals

\* Patterns that compare equal match the same expressions.
ASSUME SameRankAssumption ==
    \A p, q \in Patterns : Rank[p] = Rank[q] => \A e \in Consts : Matches(e, p) = Matches(e, q)

\* what a pointer points to
Target(base) == IF base = 0 THEN more ELSE cells[base].next

\* The entries that are linked from a pointer: those in every set that has the
\* entry it points to, and with each entry the next.
Closed(links, S) == \A c \in S : links[c].next # 0 => links[c].next \in S
From(links, r) ==
    {c \in Cells : \A S \in SUBSET Cells : (r # 0 => r \in S) /\ Closed(links, S) => c \in S}
Listed == From(cells, more)

\* A thread on its way is in the list, and not in one that was cleared.
Inside(t) == at[t].base \in Listed \union {0} /\ at[t].rule \in Listed \union {0}

\* The rule without a condition is on its way from the table to the list.
Moving(t) ==
    /\ owner = t
    /\ ~call[t].cond
    /\ pc[t] = "start" \/ (pc[t] = "walk" /\ Inside(t))

\* a rule that applies to e whatever conditions say, wherever it is kept
MustAnswer(e) ==
    \/ e \in Consts /\ table[e] # None
    \/ \E c \in Listed : Matches(e, cells[c].pat) /\ ~cells[c].cond
    \/ \E t \in Threads : Moving(t) /\ Matches(e, call[t].pat)

\* Mutant: rules with a condition are not told from those without.
BehindGeneral(r, c) == Rank[r.pat] > Rank[c.pat]

\* The rule of the call goes behind rule c: it is more general, or it has the
\* same pattern and c has a condition.
Behind(r, c) ==
    \/ Rank[r.pat] > Rank[c.pat]
    \/ Rank[r.pat] = Rank[c.pat] /\ c.cond

\* It takes the place of rule c: same pattern, and neither has a condition.
SameRule(r, c) == Rank[r.pat] = Rank[c.pat] /\ ~r.cond /\ ~c.cond

\* nobody may rely any more on what was there
Disturb == calm' = [t \in Threads |-> FALSE]

Goto(t, label) == pc' = [pc EXCEPT ![t] = label]

\* the call returns, its variables are gone
Return(t) ==
    /\ Goto(t, "idle")
    /\ call' = [call EXCEPT ![t] = NoCall]
    /\ at' = [at EXCEPT ![t] = Nowhere]
    /\ calm' = [calm EXCEPT ![t] = FALSE]

\* where a thread goes when its rule is in the list
Then(t) ==
    \/ owner # t /\ Return(t)
    \/ owner = t /\ Goto(t, IF call[t].cond THEN "remove" ELSE "unlock")
                 /\ UNCHANGED <<call, at, calm>>

\* Bound: a call makes one entry, and may make a second if it has a condition.
Changing == {t \in Threads : pc[t] \in {"define", "start", "walk", "failed", "remove"}}
RoomFor(r) ==
    LET claims == Cardinality(Changing) + Cardinality({t \in Changing : call[t].cond})
    IN  made + claims + (IF r.cond THEN 2 ELSE 1) <= MaxRules

----------------------------------------------------------------------------
(* Defining a rule: _pmath_rulecache_change with a right hand side         *)

Define(t) ==
    /\ pc[t] = "idle"
    /\ \E r \in Rule : RoomFor(r) /\ call' = [call EXCEPT ![t] = r]
    /\ calm' = [calm EXCEPT ![t] = TRUE]
    /\ Goto(t, "define")
    /\ UNCHANGED <<table, owner, more, cells, made, at, got>>

\* Without a condition: one critical section of the table puts the rule of a
\* constant pattern there, any other rule goes to the list.
StoreConst(t) ==
    /\ call[t].pat \in Consts
    /\ table' = [table EXCEPT ![call[t].pat] = call[t].body]
    /\ Return(t)

\* So does a constant one when there is no memory for a new entry of the table.
StoreGeneral(t) ==
    /\ call[t].pat \in Consts => table[call[t].pat] = None
    /\ Goto(t, "start")
    /\ UNCHANGED <<table, call, at, calm>>

\* The table cannot be made or cannot grow: the code asserts that this does not
\* happen; without assertions the rule is lost.
StoreNowhere(t) ==
    /\ call[t].pat \in Consts /\ table[call[t].pat] = None
    /\ Return(t)
    /\ UNCHANGED table

Store(t) ==
    /\ pc[t] = "define"
    /\ ~call[t].cond
    /\ owner = None
    /\ StoreConst(t) \/ StoreGeneral(t) \/ StoreNowhere(t)
    /\ UNCHANGED <<owner, more, cells, made, got>>

\* With a condition: the table stays locked until the call is done.
LockTable(t) ==
    /\ pc[t] = "define"
    /\ call[t].cond
    /\ owner = None
    /\ owner' = t
    /\ Goto(t, "start")
    /\ UNCHANGED <<table, more, cells, made, call, at, got, calm>>

\* Mutant: unlocks the table before the entry is in the list.
RemoveAndUnlock(t) ==
    /\ pc[t] = "remove"
    /\ owner' = None
    /\ IF call[t].pat \in Consts /\ table[call[t].pat] # None
       THEN /\ table' = [table EXCEPT ![call[t].pat] = None]
            /\ call' = [call EXCEPT ![t].body = table[call[t].pat],
                                    ![t].cond = FALSE]
            /\ Goto(t, "start")
       ELSE /\ Goto(t, "unlock")
            /\ UNCHANGED <<table, call>>
    /\ UNCHANGED <<more, cells, made, at, got, calm>>

\* Afterwards the rule without a condition of the same pattern leaves the table
\* and is put into the list, behind the new one.
RemoveEntry(t) ==
    /\ pc[t] = "remove"
    /\ IF call[t].pat \in Consts /\ table[call[t].pat] # None
       THEN /\ table' = [table EXCEPT ![call[t].pat] = None]
            /\ call' = [call EXCEPT ![t].body = table[call[t].pat],
                                    ![t].cond = FALSE]
            /\ Goto(t, "start")
       ELSE /\ Goto(t, "unlock")
            /\ UNCHANGED <<table, call>>
    /\ UNCHANGED <<owner, more, cells, made, at, got, calm>>

UnlockTable(t) ==
    /\ pc[t] = "unlock"
    /\ owner' = None
    /\ Return(t)
    /\ UNCHANGED <<table, more, cells, made, got>>

----------------------------------------------------------------------------
(* Changing the list: _pmath_multirule_change                              *)

Start(t) ==
    /\ pc[t] = "start"
    /\ at' = [at EXCEPT ![t] = [base |-> 0, rule |-> more]]
    /\ Goto(t, "walk")
    /\ UNCHANGED <<table, owner, more, cells, made, call, got, calm>>

Pass(t) ==
    /\ pc[t] = "walk"
    /\ at[t].rule # 0
    /\ Behind(call[t], cells[at[t].rule])
    /\ at' = [at EXCEPT ![t] = [base |-> @.rule, rule |-> cells[@.rule].next]]
    /\ UNCHANGED <<table, owner, more, cells, made, pc, call, got, calm>>

\* its place is before the rule it has come to, or at the end of the list
AtPlace(t) == at[t].rule # 0 => ~Behind(call[t], cells[at[t].rule])
Replaces(t) == at[t].rule # 0 /\ SameRule(call[t], cells[at[t].rule])

\* Mutant: does not compare the pointer again.
UndisturbedAlways(t) == TRUE

\* The place is found; the base pointer is locked and compared.
Undisturbed(t) == Target(at[t].base) = at[t].rule

Replace(t) ==
    /\ pc[t] = "walk"
    /\ Replaces(t)
    /\ Undisturbed(t)
    /\ cells' = [cells EXCEPT ![at[t].rule].pat = call[t].pat,
                              ![at[t].rule].body = call[t].body]
    /\ Then(t)
    /\ UNCHANGED <<table, owner, more, made, got>>

NewCell(t) == [pat |-> call[t].pat, body |-> call[t].body,
               cond |-> call[t].cond, next |-> at[t].rule]

Link(base, c, entry) ==
    IF base = 0
    THEN more' = c /\ cells' = [cells EXCEPT ![c] = entry]
    ELSE more' = more /\ cells' = [cells EXCEPT ![c] = entry, ![base].next = c]

\* No memory for the entry: the pointer is not compared and nothing is linked in.
\* A rule that comes from the table is lost.
OutOfMemory(t) ==
    /\ pc[t] = "walk"
    /\ AtPlace(t) /\ ~Replaces(t)
    /\ Goto(t, "failed")
    /\ IF owner = t /\ ~call[t].cond THEN Disturb ELSE UNCHANGED calm
    /\ UNCHANGED <<table, owner, more, cells, made, call, at, got>>

\* Success is reported all the same, so that the caller does not try for ever.
ReportSuccess(t) ==
    /\ pc[t] = "failed"
    /\ Then(t)
    /\ UNCHANGED <<table, owner, more, cells, made, got>>

Insert(t) ==
    /\ pc[t] = "walk"
    /\ AtPlace(t) /\ ~Replaces(t)
    /\ Undisturbed(t)
    /\ made < MaxRules
    /\ made' = made + 1
    /\ Link(at[t].base, made + 1, NewCell(t))
    /\ Then(t)
    /\ UNCHANGED <<table, owner, got>>

\* Mutant: reports success although it was disturbed.
GiveUp(t) ==
    /\ pc[t] = "walk"
    /\ AtPlace(t)
    /\ ~Undisturbed(t)
    /\ Then(t)
    /\ UNCHANGED <<table, owner, more, cells, made, got>>

\* another thread annoyed us
Retry(t) ==
    /\ pc[t] = "walk"
    /\ AtPlace(t)
    /\ ~Undisturbed(t)
    /\ Goto(t, "start")
    /\ at' = [at EXCEPT ![t] = Nowhere]
    /\ UNCHANGED <<table, owner, more, cells, made, call, got, calm>>

----------------------------------------------------------------------------
(* Applying rules: _pmath_rulecache_find                                   *)

Find(t) ==
    /\ pc[t] = "idle"
    /\ \E e \in Consts :
          /\ call' = [call EXCEPT ![t].pat = e]
          /\ calm' = [calm EXCEPT ![t] = MustAnswer(e)]
    /\ Goto(t, "find")
    /\ UNCHANGED <<table, owner, more, cells, made, at, got>>

LookUp(t) ==
    /\ pc[t] = "find"
    /\ owner = None
    /\ got' = [got EXCEPT ![t] = table[call[t].pat]]
    /\ Goto(t, IF table[call[t].pat] # None THEN "found" ELSE "list")
    /\ UNCHANGED <<table, owner, more, cells, made, call, at, calm>>

ReadHead(t) ==
    /\ pc[t] = "list"
    /\ at' = [at EXCEPT ![t] = [base |-> 0, rule |-> more]]
    /\ Goto(t, "scan")
    /\ UNCHANGED <<table, owner, more, cells, made, call, got, calm>>

\* the rule matches and its condition, if it has one, evaluates to True
Apply(t) ==
    /\ pc[t] = "scan"
    /\ at[t].rule # 0
    /\ Matches(call[t].pat, cells[at[t].rule].pat)
    /\ got' = [got EXCEPT ![t] = cells[at[t].rule].body]
    /\ Goto(t, "found")
    /\ UNCHANGED <<table, owner, more, cells, made, call, at, calm>>

\* it does not match or its condition fails
Skip(t) ==
    /\ pc[t] = "scan"
    /\ at[t].rule # 0
    /\ Matches(call[t].pat, cells[at[t].rule].pat) => cells[at[t].rule].cond
    /\ at' = [at EXCEPT ![t] = [base |-> 0, rule |-> cells[at[t].rule].next]]
    /\ UNCHANGED <<table, owner, more, cells, made, pc, call, got, calm>>

NoRule(t) ==
    /\ pc[t] = "scan"
    /\ at[t].rule = 0
    /\ Goto(t, "found")
    /\ UNCHANGED <<table, owner, more, cells, made, call, at, got, calm>>

Answer(t) ==
    /\ pc[t] \in {"found", "unassigned"}
    /\ Return(t)
    /\ got' = [got EXCEPT ![t] = None]
    /\ UNCHANGED <<table, owner, more, cells, made>>

----------------------------------------------------------------------------
(* Removing rules: _pmath_rulecache_change with PMATH_UNDEFINED as the     *)
(* right hand side, and _pmath_rulecache_clear                             *)

RemoveRule(p) ==
    IF p \in Consts THEN table' = [table EXCEPT ![p] = None] ELSE UNCHANGED table

Unassign(t) ==
    /\ pc[t] = "idle"
    /\ owner = None
    /\ \E p \in Patterns :
          /\ call' = [call EXCEPT ![t].pat = p]
          /\ RemoveRule(p)
    /\ Disturb
    /\ Goto(t, "unassigned")
    /\ UNCHANGED <<owner, more, cells, made, at, got>>

ClearList(t) ==
    /\ pc[t] = "idle"
    /\ more' = 0
    /\ Disturb
    /\ Goto(t, "clear")
    /\ UNCHANGED <<table, owner, cells, made, call, at, got>>

ClearTable(t) ==
    /\ pc[t] = "clear"
    /\ owner = None
    /\ table' = [p \in Consts |-> None]
    /\ Disturb
    /\ Goto(t, "idle")
    /\ UNCHANGED <<owner, more, cells, made, call, at, got>>

Step(t) ==
    \/ Define(t) \/ Store(t) \/ LockTable(t) \/ RemoveEntry(t) \/ UnlockTable(t)
    \/ Start(t) \/ Pass(t) \/ Replace(t) \/ Insert(t) \/ Retry(t)
    \/ OutOfMemory(t) \/ ReportSuccess(t)
    \/ Find(t) \/ LookUp(t) \/ ReadHead(t) \/ Apply(t) \/ Skip(t) \/ NoRule(t)
    \/ Answer(t)
    \/ Unassign(t) \/ ClearList(t) \/ ClearTable(t)

Next == \E t \in Threads : Step(t)

Spec == Init /\ [][Next]_vars

----------------------------------------------------------------------------
(* Properties                                                              *)

Before(c, d) ==
    \/ Rank[c.pat] < Rank[d.pat]
    \/ Rank[c.pat] = Rank[d.pat] /\ c.cond

\* Every list, also one that was cleared while threads walk on it, goes from
\* special to general patterns; of one pattern it has at most one rule without a
\* condition, behind all that have one.
InOrder == \A c \in Cells : cells[c].next # 0 => Before(cells[c], cells[cells[c].next])

\* What one thread does to the list never takes the rule of another out of it:
\* an entry stays in the list until the list is cleared.
Kept == [][more' # 0 => Listed \subseteq Listed']_vars

Has(r) == \E c \in Listed : /\ cells[c].pat = r.pat
                            /\ cells[c].body = r.body
                            /\ cells[c].cond = r.cond

\* A thread that is done with the list has its rule there, however often others
\* came between, unless the rules were removed meanwhile or there was no memory
\* for it.
Recorded ==
    [][\A t \in Threads :
          pc[t] = "walk" /\ pc'[t] \notin {"walk", "start", "failed"} /\ calm[t]
              => \A r \in Rule : r = call[t] => Has(r)']_vars

\* A search that begins when some rule must answer it finds a rule, also while
\* that rule is on its way from the table to the list, unless rules are removed
\* meanwhile or memory runs out while a rule is on this way.
NeverMissed ==
    \A t \in Threads : pc[t] = "found" /\ calm[t] => got[t] # None
=============================================================================
