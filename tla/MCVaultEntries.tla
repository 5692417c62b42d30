---------------------------- MODULE MCVaultEntries ----------------------------
(***************************************************************************)
(* VaultEntries on a small instance, under two regimes chosen at the       *)
(* start: requests one at a time, or together.  Bodies change the form,    *)
(* the password, the value and the optional columns, or move or empty.     *)
(***************************************************************************)
EXTENDS VaultEntries, TLC

VARIABLE serial

Lists == {[kind |-> "items", held |-> s] : s \in {<<v>> : v \in Value} \cup (Value \X Value)}
Texts == {[kind |-> "text", held |-> <<v>>] : v \in Value}

MCBody == [type: Form \cup {Keep}, set: SUBSET Extra, clear: {{}},
           pwd: Value \cup {None, Keep}, blob: Lists \cup Texts \cup {Keep}, to: {Keep}]
          \cup [type: {Keep}, set: {{}}, clear: {Extra}, pwd: {Keep}, blob: {Keep},
                to: Collection \cup {Keep}]

OneByOne == \A q, r \in Req : req[q] # Idle /\ req[r] # Idle => q = r

MCInit == Init /\ serial \in BOOLEAN

MCNext == Next /\ UNCHANGED serial /\ (serial => OneByOne')

MCSpec == MCInit /\ [][MCNext]_<<vars, serial>>

\* While requests do not overlap, an entry of a personal vault holds what its form
\* carries and nothing else: no column left behind by a conversion, none written
\* by a client that does not know the form.
SerialClean == serial => \A i \in In("personal") : Clean(row[i])

\* While requests do not overlap, neither a conversion nor a move of a personal
\* entry loses a value: the server takes it from one column, or table, to another.
SerialContents == [][serial => KeepsContents("personal")]_vars

Symmetry == Permutations(Req) \cup Permutations(Item) \cup Permutations(MovedId)
            \cup Permutations(Collection)
=============================================================================
