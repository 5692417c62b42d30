----------------------------- MODULE VaultEntries -----------------------------
(***************************************************************************)
(* The entries of the vaults: one person's own (VaultEntry) and those of   *)
(* team collections (TeamVaultEntry).  app/api/vault/entries,              *)
(* lib/vault-entry-handlers.ts, lib/vault-entry-types.ts,                  *)
(* app/api/plugin/vault, app/api/vault/ssh-keys.                           *)
(*                                                                         *)
(* An entry has a form, which decides what its row may carry: a LOGIN      *)
(* extras and a password, a SECRET a password, a LIST and a NOTE one       *)
(* encrypted blob.  A handler reads the row, computes from what it read    *)
(* the columns to write, and writes them by id later; what it does not     *)
(* write is left as it is by then.                                         *)
(*                                                                         *)
(* Callers are the owner of the personal vault and editors of the          *)
(* collections.  Names, tags, favourites, the owner's folders, strength    *)
(* scores and rotation dates are left out.                                 *)
(***************************************************************************)
EXTENDS Naturals, Sequences, FiniteSets

CONSTANTS
    Req,         \* requests that may be in flight together
    Item,        \* ids of the entries created
    MovedId,     \* ids of the rows an entry gets when it is moved
    Collection,  \* team collections
    Value,       \* passwords, values of a list, texts of a note
    PrivateKey,  \* SSH private keys
    Extra,       \* the other columns of a LOGIN
    Body,        \* the bodies clients send
    HistoryCap,  \* ROTATION_HISTORY_CAP
    None,        \* null
    Keep         \* a column not written

ASSUME ExtraAssumption == Extra \subseteq {"url", "username", "totp"}
ASSUME IdAssumption == Item \cap MovedId = {} /\ HistoryCap \in Nat

VARIABLES
    row,   \* VaultEntry, TeamVaultEntry and AppAccount rows
    open,  \* collections that exist
    req    \* requests in flight

vars == <<row, open, req>>

Row == Item \cup MovedId
Form == {"LOGIN", "SECRET", "LIST", "NOTE"}

\* CARRIES.
Extras(f) == IF f = "LOGIN" THEN Extra ELSE {}
HasPassword(f) == f \in {"LOGIN", "SECRET"}
BlobKind(f) == CASE f = "LIST" -> "items" [] f = "NOTE" -> "text" [] OTHER -> "none"

\* normalizeEntryType.
Normal(t) == IF t \in Form THEN t ELSE "LOGIN"

NoBlob == [kind |-> "none", held |-> <<>>]
\* A list holds values, a note one text or an empty one.
Plain == {NoBlob} \cup [kind: {"items"}, held: Seq(Value)]
                  \cup [kind: {"text"}, held: {<<>>} \cup {<<v>> : v \in Value}]
Blob == Plain \cup [kind: {"key"}, held: Seq(PrivateKey)]

Place == {"personal", "team", "account"}
Entry == [place: Place, coll: Collection \cup {None}, item: Item,
          type: Form \cup {"SSH_KEY"}, extras: SUBSET Extra, pwd: Value \cup {None},
          blob: Blob, past: Seq(Value)]
Unborn == [place |-> "unborn"]
Gone == [place |-> "gone"]

\* What a client sends, to create an entry or to change one.
BodyType == [type: Form \cup {Keep}, set: SUBSET Extra, clear: SUBSET Extra,
             pwd: Value \cup {None, Keep},
             blob: Plain \cup {Keep}, to: Collection \cup {Keep}]
ASSUME MarkAssumption == None \notin Value /\ Keep \notin Form \cup Value \cup {None} \cup Plain
ASSUME BodyAssumption == Body \subseteq BodyType

\* The columns a handler writes.
Update == [type: Form \cup {Keep}, set: SUBSET Extra, clear: SUBSET Extra,
           pwd: Value \cup {None, Keep}, blob: Plain \cup {Keep},
           past: Seq(Value) \cup {Keep}, to: Collection \cup {Keep}]

Idle == [at |-> "idle"]
Request ==
    {Idle} \cup [at: {"update"}, row: Row, update: Update, gives: BOOLEAN]
           \cup [at: {"delete"}, row: Row]
           \cup [at: {"move"}, row: Row, copy: Entry]
           \cup [at: {"key"}, key: PrivateKey]

TypeOK ==
    /\ row \in [Row -> Entry \cup {Unborn, Gone}]
    /\ open \subseteq Collection
    /\ req \in [Req -> Request]

Init ==
    /\ row = [i \in Row |-> Unborn]
    /\ open = Collection
    /\ req = [r \in Req |-> Idle]

In(p) == {i \in Row : row[i].place = p}
Enter(r, state) == req' = [req EXCEPT ![r] = state] /\ UNCHANGED <<row, open>>
Leave(r) == req' = [req EXCEPT ![r] = Idle] /\ UNCHANGED open

-----------------------------------------------------------------------------
(* Creation.                                                               *)

\* The form decides what is stored, whatever the body holds.
Created(i, p, c, b) ==
    [place |-> p, coll |-> c, item |-> i, type |-> b.type,
     extras |-> b.set \cap Extras(b.type),
     pwd |-> IF HasPassword(b.type) /\ b.pwd # Keep THEN b.pwd ELSE None,
     blob |-> IF b.blob # Keep /\ b.blob.kind = BlobKind(b.type) THEN b.blob ELSE NoBlob,
     past |-> <<>>]

\* POST of an entry, an autosave, an entry of an import (of a note the import of
\* a team keeps the name only).
CreatePersonal(i) ==
    /\ row[i] = Unborn
    /\ \E b \in Body :
        /\ b.type # Keep
        /\ row' = [row EXCEPT ![i] = Created(i, "personal", None, b)]
    /\ UNCHANGED <<open, req>>

CreateTeam(i, c) ==
    /\ row[i] = Unborn /\ c \in open
    /\ \E b \in Body :
        /\ b.type # Keep
        /\ row' = [row EXCEPT ![i] = Created(i, "team", c, b)]
    /\ UNCHANGED <<open, req>>

\* The rows that hold a private key.
Holding(k) == {i \in In("personal") : row[i].blob = [kind |-> "key", held |-> <<k>>]}

\* POST /api/vault/ssh-keys: the search for the same key, then the creation.
AskKey(r, k) ==
    /\ req[r] = Idle
    /\ Holding(k) = {}
    /\ Enter(r, [at |-> "key", key |-> k])

CreateKey(r, i) ==
    /\ req[r].at = "key" /\ row[i] = Unborn
    /\ row' = [row EXCEPT ![i] =
                 [place |-> "personal", coll |-> None, item |-> i, type |-> "SSH_KEY",
                  extras |-> {}, pwd |-> None,
                  blob |-> [kind |-> "key", held |-> <<req[r].key>>], past |-> <<>>]]
    /\ Leave(r)

-----------------------------------------------------------------------------
(* Changes of an entry: what a handler decides from the row it read.       *)

\* Mutant: a list of several values may be converted.
BlockedByExtrasOnly(x, f) == Normal(x.type) # f /\ ~(x.extras \subseteq Extras(f))

\* conversionBlocker: it reads the columns in clear only.
Blocked(x, f) ==
    /\ Normal(x.type) # f
    /\ \/ ~(x.extras \subseteq Extras(f))
       \/ x.type = "LIST" /\ x.blob.kind = "items" /\ Len(x.blob.held) > 1

\* readSingleValue.
Single(x) ==
    IF HasPassword(x.type) THEN x.pwd
    ELSE IF x.blob.kind = BlobKind(x.type) /\ x.blob.held # <<>> THEN x.blob.held[1]
    ELSE None
BlobOf(f, v) == IF v = None THEN NoBlob ELSE [kind |-> BlobKind(f), held |-> <<v>>]

\* The form an entry has once patched, and the extras it loses.
FormAfter(x, b) == IF b.type = Keep THEN Normal(x.type) ELSE b.type
Dropped(b, f, converts) ==
    (b.clear \cap Extras(f)) \cup (IF converts THEN Extra \ Extras(f) ELSE {})

\* Does the body hold itself what the new form carries?
Gives(b, f) == IF HasPassword(f) THEN b.pwd # Keep
               ELSE b.blob # Keep /\ b.blob.kind = BlobKind(f)

\* PATCH of a personal entry: a conversion takes the single value along, unless
\* the body gives one.
PersonalUpdate(x, b) ==
    LET f == FormAfter(x, b)
        converts == f # Normal(x.type)
        moved == converts /\ ~(HasPassword(Normal(x.type)) /\ HasPassword(f))
        pwd == IF HasPassword(f)
               THEN IF b.pwd = Keep /\ moved THEN Single(x) ELSE b.pwd
               ELSE IF converts THEN None ELSE Keep
        blob == IF HasPassword(f) THEN IF converts THEN NoBlob ELSE Keep
                ELSE IF Gives(b, f) THEN b.blob
                ELSE IF converts THEN BlobOf(f, Single(x)) ELSE Keep
    IN  [type |-> IF converts THEN f ELSE Keep, set |-> b.set \cap Extras(f),
         clear |-> Dropped(b, f, converts), pwd |-> pwd, blob |-> blob,
         past |-> Keep, to |-> Keep]

\* Mutant: an SSH key is patched as any entry.
PatchPersonalUnguarded(r, i) ==
    /\ req[r] = Idle
    /\ row[i].place = "personal"
    /\ \E b \in Body :
        /\ ~Blocked(row[i], FormAfter(row[i], b))
        /\ Enter(r, [at |-> "update", row |-> i, update |-> PersonalUpdate(row[i], b),
                     gives |-> Gives(b, FormAfter(row[i], b))])

\* Of an SSH key only left-out columns may change.
PatchPersonal(r, i) ==
    /\ req[r] = Idle
    /\ row[i].place = "personal" /\ row[i].type # "SSH_KEY"
    /\ \E b \in Body :
        /\ ~Blocked(row[i], FormAfter(row[i], b))
        /\ Enter(r, [at |-> "update", row |-> i, update |-> PersonalUpdate(row[i], b),
                     gives |-> Gives(b, FormAfter(row[i], b))])

\* validateEntryPatch: no blob without a type, no blob left out for a LIST or a
\* NOTE.
ValidPatch(b) ==
    IF b.type = Keep THEN b.blob = Keep ELSE HasPassword(b.type) \/ Gives(b, b.type)

\* patchEntry: any body that names a form, the same one too, writes what the body
\* holds and nothing of what the row had.
TeamUpdate(x, b) ==
    LET f == FormAfter(x, b)
        converts == b.type # Keep
    IN  [type |-> b.type, set |-> b.set \cap Extras(f), clear |-> Dropped(b, f, converts),
         pwd |-> IF HasPassword(f) THEN b.pwd ELSE IF converts THEN None ELSE Keep,
         blob |-> IF ~converts THEN Keep ELSE IF HasPassword(f) THEN NoBlob ELSE b.blob,
         past |-> Keep, to |-> b.to]

PatchTeam(r, i) ==
    /\ req[r] = Idle
    /\ row[i].place = "team"
    /\ \E b \in Body :
        /\ ValidPatch(b)
        /\ ~Blocked(row[i], FormAfter(row[i], b))
        /\ b.to \in open \cup {Keep}
        /\ Enter(r, [at |-> "update", row |-> i, update |-> TeamUpdate(row[i], b),
                     gives |-> Gives(b, FormAfter(row[i], b))])

SiteFields == Extra \cap {"url", "username"}

\* Mutant: the extension saves into any personal entry that has a password.
SaveFromSiteAnywhere(r, i) ==
    /\ req[r] = Idle
    /\ row[i].place \in {"personal", "team"} /\ HasPassword(row[i].type)
    /\ \E sent \in SUBSET SiteFields, v \in Value :
        Enter(r, [at |-> "update", row |-> i, gives |-> TRUE,
                  update |-> [type |-> Keep, set |-> sent, clear |-> SiteFields \ sent,
                              pwd |-> v, blob |-> Keep, past |-> Keep, to |-> Keep]])

\* POST /api/plugin/vault, update: it writes the site's fields and the password of
\* a personal LOGIN, and of a LOGIN or a SECRET of a team.
SaveFromSite(r, i) ==
    /\ req[r] = Idle
    /\ \/ row[i].place = "personal" /\ row[i].type = "LOGIN"
       \/ row[i].place = "team" /\ HasPassword(row[i].type)
    /\ \E sent \in SUBSET SiteFields, v \in Value :
        Enter(r, [at |-> "update", row |-> i, gives |-> TRUE,
                  update |-> [type |-> Keep, set |-> sent, clear |-> SiteFields \ sent,
                              pwd |-> v, blob |-> Keep, past |-> Keep, to |-> Keep]])

\* pushRotationHistory.
Pushed(v, past) ==
    LET all == <<v>> \o past
    IN  SubSeq(all, 1, IF Len(all) < HistoryCap THEN Len(all) ELSE HistoryCap)

\* rotateEntry with a new password, whatever the form.
Rotate(r, i) ==
    /\ req[r] = Idle
    /\ row[i].place = "team"
    /\ \E v \in Value :
        Enter(r, [at |-> "update", row |-> i, gives |-> TRUE,
                  update |-> [type |-> Keep, set |-> {}, clear |-> {}, pwd |-> v, blob |-> Keep,
                              past |-> IF row[i].pwd = None THEN Keep
                                       ELSE Pushed(row[i].pwd, row[i].past),
                              to |-> Keep]])

-----------------------------------------------------------------------------
(* The write, by id: it fails when the row, or the collection it goes to,  *)
(* is no more.                                                             *)

Written(new, old) == IF new = Keep THEN old ELSE new
Updated(x, u) ==
    [x EXCEPT !.type = Written(u.type, @), !.extras = (@ \ u.clear) \cup u.set,
              !.pwd = Written(u.pwd, @), !.blob = Written(u.blob, @),
              !.past = Written(u.past, @), !.coll = Written(u.to, @)]

EndUpdate(r) ==
    /\ req[r].at = "update"
    /\ LET i == req[r].row
           u == req[r].update
       IN  row' = IF row[i] # Gone /\ u.to \in open \cup {Keep}
                  THEN [row EXCEPT ![i] = Updated(@, u)] ELSE row
    /\ Leave(r)

AskDelete(r, i) ==
    /\ req[r] = Idle
    /\ row[i].place \in {"personal", "team"}
    /\ Enter(r, [at |-> "delete", row |-> i])

EndDelete(r) ==
    /\ req[r].at = "delete"
    /\ row' = [row EXCEPT ![req[r].row] = Gone]
    /\ Leave(r)

\* The deletion of a collection takes its entries along.
DropCollection(c) ==
    /\ c \in open
    /\ open' = open \ {c}
    /\ row' = [i \in Row |-> IF i \in In("team") /\ row[i].coll = c THEN Gone ELSE row[i]]
    /\ UNCHANGED req

-----------------------------------------------------------------------------
(* POST /api/vault/entries/[id]/move: an entry of the owner becomes an     *)
(* entry of a team or an account of a project.                             *)

AskMoveToTeam(r, i, c) ==
    /\ req[r] = Idle
    /\ row[i].place = "personal" /\ row[i].type # "SSH_KEY"
    /\ c \in open
    /\ Enter(r, [at |-> "move", row |-> i,
                 copy |-> [row[i] EXCEPT !.place = "team", !.coll = c]])

\* An account holds a user name and a password.
AskMoveToAccount(r, i) ==
    /\ req[r] = Idle
    /\ row[i].place = "personal" /\ HasPassword(row[i].type)
    /\ Enter(r, [at |-> "move", row |-> i,
                 copy |-> [row[i] EXCEPT !.place = "account", !.type = "LOGIN", !.blob = NoBlob,
                                         !.extras = @ \cap {"username"}]])

\* Mutant: the source need not be there to be deleted.
CanMoveTwice(r) == req[r].copy.coll \in open \cup {None}

\* The copy is created and the source deleted in one transaction: without the
\* source or the collection it is rolled back.
CanMove(r) == row[req[r].row] # Gone /\ req[r].copy.coll \in open \cup {None}

EndMove(r, j) ==
    /\ req[r].at = "move" /\ row[j] = Unborn
    /\ row' = IF CanMove(r)
              THEN [row EXCEPT ![req[r].row] = Gone, ![j] = req[r].copy] ELSE row
    /\ Leave(r)

Next ==
    \/ \E i \in Item : CreatePersonal(i)
    \/ \E i \in Item, c \in Collection : CreateTeam(i, c)
    \/ \E c \in Collection : DropCollection(c)
    \/ \E r \in Req :
        \/ \E k \in PrivateKey : AskKey(r, k)
        \/ \E i \in Item : CreateKey(r, i)
        \/ EndUpdate(r) \/ EndDelete(r)
        \/ \E j \in MovedId : EndMove(r, j)
        \/ \E i \in Row :
            \/ PatchPersonal(r, i) \/ PatchTeam(r, i)
            \/ SaveFromSite(r, i) \/ Rotate(r, i)
            \/ AskDelete(r, i)
            \/ AskMoveToAccount(r, i) \/ \E c \in Collection : AskMoveToTeam(r, i, c)

Spec == Init /\ [][Next]_vars

-----------------------------------------------------------------------------
(* Properties.                                                             *)

RowsOf(o) == {i \in Row : row[i].place \in Place /\ row[i].item = o}

Where(o) ==
    IF RowsOf(o) = {} THEN IF row[o] = Unborn THEN "unborn" ELSE "gone"
    ELSE IF Cardinality(RowsOf(o)) > 1 THEN "copied"
    ELSE LET x == row[CHOOSE i \in RowsOf(o) : TRUE]
         IN  IF x.place = "personal" /\ x.type = "SSH_KEY" THEN "key" ELSE x.place

Custody == INSTANCE VaultCustody WITH where <- [o \in Item |-> Where(o)]

\* However moves, deletions and edits of one entry overlap, it is never in two
\* places nor lost on the way, it comes back from no team, and no SSH key leaves
\* its owner's vault.
ImplementsCustody == Custody!Spec

\* A key and nothing else, or no key.
Whole(x) ==
    IF x.type = "SSH_KEY"
    THEN /\ x.place = "personal" /\ x.extras = {} /\ x.pwd = None
         /\ \E k \in PrivateKey : x.blob = [kind |-> "key", held |-> <<k>>]
    ELSE x.blob.kind # "key"

\* An SSH key's row holds its private key and nothing else as long as it lives,
\* and no other row ever holds one: no conversion, edit or move reaches a key.
KeysStayWhole == \A i \in Row : row[i].place \in Place => Whole(row[i])

\* A row holds what its form carries and nothing else.
Clean(x) ==
    IF x.type = "SSH_KEY" THEN x.extras = {} /\ x.pwd = None
    ELSE /\ x.extras \subseteq Extras(x.type)
         /\ x.pwd # None \/ x.past # <<>> => HasPassword(x.type)
         /\ x.blob.kind \in {"none", BlobKind(x.type)}

\* The values an entry is there to keep.
Contents(x) ==
    IF HasPassword(x.type) THEN IF x.pwd = None THEN <<>> ELSE <<x.pwd>> ELSE x.blob.held

\* A request that gives no new value and is not a deletion leaves the values of its
\* entry as they were, whatever form it gives it and wherever it moves it, and a
\* change of form drops no extra.
KeepsContents(p) ==
    \A r \in Req :
        /\ req[r].at = "move" \/ (req[r].at = "update" /\ ~req[r].gives)
        /\ req'[r] = Idle
        /\ row[req[r].row].place = p
        => LET x == row[req[r].row] IN
           \A j \in Row :
               /\ row'[j].place \in Place /\ row'[j].item = x.item
               => /\ Contents(row'[j]) = Contents(x)
                  /\ row'[j].type # x.type => x.extras \subseteq row'[j].extras
=============================================================================
