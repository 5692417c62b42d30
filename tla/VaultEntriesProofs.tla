-------------------------- MODULE VaultEntriesProofs --------------------------
(***************************************************************************)
(* VaultEntries for any number of requests, entries, collections and       *)
(* values: keys stay whole, the vaults implement VaultCustody, and, while  *)
(* requests do not overlap, rows stay clean and keep their values.         *)
(***************************************************************************)
EXTENDS MCVaultEntries, FiniteSetTheorems, SequenceTheorems, TLAPS

Live(i) == row[i].place \in Place

\* A row is for one item, an item has one row at most, and its first row was made.
Identity ==
    /\ \A i \in Item : Live(i) => row[i].item = i
    /\ \A i \in Row : Live(i) => row[row[i].item] # Unborn
    /\ \A i, j \in Row : Live(i) /\ Live(j) /\ row[i].item = row[j].item => i = j

\* What a request in state c may still take for granted of its row.
Aimed(c) ==
    /\ c.at \in {"update", "delete", "move"} => row[c.row] # Unborn
    /\ c.at = "update" /\ Live(c.row) => row[c.row].type # "SSH_KEY"
    /\ c.at = "delete" /\ Live(c.row) => row[c.row].place \in {"personal", "team"}
    /\ c.at = "move" => /\ c.copy.place \in {"team", "account"} /\ c.copy.type # "SSH_KEY"
                        /\ c.copy.blob.kind # "key"
    /\ c.at = "move" /\ Live(c.row) => /\ row[c.row].place = "personal"
                                       /\ row[c.row].type # "SSH_KEY"
                                       /\ c.copy.item = row[c.row].item

Aims == \A r \in Req : Aimed(req[r])

Inv == TypeOK /\ KeysStayWhole /\ Identity /\ Aims

LEMMA Blanks ==
    /\ Unborn.place = "unborn" /\ Gone.place = "gone" /\ Unborn # Gone
    /\ \A x \in Entry : x.place \in Place /\ x # Unborn /\ x # Gone
<1>1. Unborn.place = "unborn" /\ Gone.place = "gone"
  BY DEF Unborn, Gone
<1>2. \A x \in Entry : x.place \in Place
  BY DEF Entry
<1> QED
  BY <1>1, <1>2 DEF Place

LEMMA RowIs ==
    ASSUME TypeOK, NEW i \in Row
    PROVE  /\ Live(i) <=> row[i] \in Entry
           /\ Live(i) \/ row[i] = Unborn \/ row[i] = Gone
           /\ Live(i) => row[i] # Unborn /\ row[i] # Gone
<1>1. row[i] \in Entry \cup {Unborn, Gone}
  BY DEF TypeOK
<1>2. "unborn" \notin Place /\ "gone" \notin Place
  BY DEF Place
<1> QED
  BY <1>1, <1>2, Blanks DEF Live

LEMMA IdleIs == Idle \in Request /\ Idle.at = "idle"
  BY DEF Idle, Request

LEMMA IdleAims == Aimed(Idle) /\ Aimed(Idle)'
  BY IdleIs DEF Aimed

LEMMA InitInv == Init => Inv
<1> SUFFICES ASSUME Init PROVE Inv
  OBVIOUS
<1>1. TypeOK
  BY IdleIs DEF Init, TypeOK
<1>2. \A i \in Row : ~Live(i)
  BY Blanks DEF Init, Live, Place
<1>3. KeysStayWhole
  BY <1>2 DEF KeysStayWhole, In, Live, Place
<1>4. Identity
  BY <1>2 DEF Identity, Row
<1>5. Aims
  BY IdleAims DEF Init, Aims
<1> QED
  BY <1>1, <1>3, <1>4, <1>5 DEF Inv

\* A request by what it is at.
LEMMA At ==
    ASSUME NEW c \in Request
    PROVE  /\ c.at \in {"update", "delete", "move"} => c.row \in Row
           /\ c.at = "update" => c.update \in Update
           /\ c.at = "move" => c.copy \in Entry
           /\ c.at = "key" => c.key \in PrivateKey
  BY DEF Request, Idle

-----------------------------------------------------------------------------
(* How the rows move.                                                      *)

\* No row is made again, nor becomes that of something else.
Follows ==
    \A i \in Row :
        /\ row[i] # Unborn => row'[i] # Unborn
        /\ row[i] # Unborn /\ Live(i)' =>
             /\ Live(i) /\ row'[i].place = row[i].place /\ row'[i].item = row[i].item
             /\ row'[i].type = "SSH_KEY" => row[i].type = "SSH_KEY"

LEMMA AimedOn ==
    ASSUME Follows, NEW c \in Request, Aimed(c)
    PROVE  Aimed(c)'
<1>1. c.at \in {"update", "delete", "move"} => c.row \in Row
  BY At
<1> QED
  BY <1>1 DEF Aimed, Follows

\* One request goes on, the others stay well aimed.
LEMMA Stepped ==
    ASSUME Inv, NEW r \in Req, NEW c \in Request, req' = [req EXCEPT ![r] = c],
           row' \in [Row -> Entry \cup {Unborn, Gone}], open' \subseteq Collection,
           Follows, Aimed(c)', KeysStayWhole', Identity'
    PROVE  Inv'
<1>1. req' \in [Req -> Request] /\ req'[r] = c /\ \A q \in Req \ {r} : req'[q] = req[q]
  BY DEF Inv, TypeOK
<1>2. ASSUME NEW q \in Req PROVE Aimed(req[q])'
  <2>1. CASE q = r
    BY <1>1, <2>1 DEF Aimed
  <2>2. CASE q # r
    <3>1. PICK d \in Request : d = req[q]
      BY DEF Inv, TypeOK
    <3>2. Aimed(d)
      BY <3>1 DEF Inv, Aims
    <3>3. Aimed(d)'
      BY <3>2, AimedOn
    <3>4. req'[q] = d
      BY <1>1, <2>2, <3>1
    <3> QED
      BY <3>3, <3>4 DEF Aimed
  <2> QED
    BY <2>1, <2>2
<1>3. TypeOK'
  BY <1>1 DEF TypeOK
<1> QED
  BY <1>2, <1>3 DEF Inv, Aims

\* No request does.
LEMMA Made ==
    ASSUME Inv, UNCHANGED req,
           row' \in [Row -> Entry \cup {Unborn, Gone}], open' \subseteq Collection,
           Follows, KeysStayWhole', Identity'
    PROVE  Inv'
<1>1. ASSUME NEW q \in Req PROVE Aimed(req[q])'
  <2>1. PICK d \in Request : d = req[q]
    BY DEF Inv, TypeOK
  <2>2. Aimed(d)
    BY <2>1 DEF Inv, Aims
  <2>3. Aimed(d)'
    BY <2>2, AimedOn
  <2> QED
    BY <2>1, <2>3 DEF Aimed
<1>2. TypeOK'
  BY DEF Inv, TypeOK
<1> QED
  BY <1>1, <1>2 DEF Inv, Aims

LEMMA Entered ==
    ASSUME Inv, NEW r \in Req, NEW c \in Request, Enter(r, c), Aimed(c)
    PROVE  Inv'
<1>1. req' = [req EXCEPT ![r] = c] /\ row' = row /\ open' = open
  BY DEF Enter
<1>2. Follows
  <2>1. \A i \in Row : row[i] # Unborn /\ Live(i)' => Live(i)
    BY <1>1 DEF Live
  <2> QED
    BY <1>1, <2>1 DEF Follows
<1>3. Aimed(c)'
  BY <1>2, AimedOn
<1>4. KeysStayWhole' /\ Identity'
  BY <1>1 DEF Inv, KeysStayWhole, In, Identity, Live
<1>5. row' \in [Row -> Entry \cup {Unborn, Gone}] /\ open' \subseteq Collection
  BY <1>1 DEF Inv, TypeOK
<1> QED
  BY <1>1, <1>2, <1>3, <1>4, <1>5, Stepped

-----------------------------------------------------------------------------
(* What is written of a row.                                               *)

LEMMA WholeRows ==
    /\ KeysStayWhole <=> \A i \in Row : Live(i) => Whole(row[i])
    /\ KeysStayWhole' <=> \A i \in Row : Live(i)' => Whole(row'[i])
  BY DEF KeysStayWhole, Live, Whole

LEMMA Born ==
    ASSUME Inv, NEW i \in Item, row[i] = Unborn, NEW x \in Entry, x.item = i, Whole(x),
           row' = [row EXCEPT ![i] = x]
    PROVE  /\ row' \in [Row -> Entry \cup {Unborn, Gone}]
           /\ Follows /\ KeysStayWhole' /\ Identity'
<1>i. i \in Row
  BY DEF Row
<1>1. /\ row' \in [Row -> Entry \cup {Unborn, Gone}]
      /\ row'[i] = x /\ \A j \in Row \ {i} : row'[j] = row[j]
  BY <1>i DEF Inv, TypeOK
<1>2. /\ ~Live(i) /\ Live(i)' /\ x # Unborn
      /\ \A j \in Row \ {i} : Live(j)' <=> Live(j)
  BY <1>1, Blanks DEF Live, Place
<1>3. Follows
  BY <1>1, <1>2 DEF Follows
<1>4. KeysStayWhole'
  BY <1>1, <1>2, WholeRows DEF Inv
<1>5. Identity'
  <2>1. \A j \in Row : Live(j) => row[j].item # i
    BY DEF Inv, Identity
  <2>2. \A j \in Row \ {i} : row[j] # Unborn => row'[j] # Unborn
    BY <1>1
  <2>3. \A j \in Row : Live(j) => row[j].item \in Row
    BY RowIs DEF Inv, Row, Entry
  <2>4. \A j \in Item : Live(j)' => row'[j].item = j
    BY <1>1, <1>2 DEF Inv, Identity, Row
  <2>5. \A j \in Row : Live(j)' => row'[row'[j].item] # Unborn
    BY <1>1, <1>2, <2>1, <2>2, <2>3 DEF Inv, Identity
  <2>6. \A j, k \in Row : Live(j)' /\ Live(k)' /\ row'[j].item = row'[k].item => j = k
    BY <1>1, <1>2, <2>1 DEF Inv, Identity
  <2> QED
    BY <2>4, <2>5, <2>6 DEF Identity
<1> QED
  BY <1>1, <1>3, <1>4, <1>5

LEMMA Changed ==
    ASSUME Inv, NEW i \in Row, Live(i), NEW x \in Entry, Whole(x),
           x.item = row[i].item, x.place = row[i].place,
           x.type = "SSH_KEY" => row[i].type = "SSH_KEY",
           row' = [row EXCEPT ![i] = x]
    PROVE  /\ row' \in [Row -> Entry \cup {Unborn, Gone}]
           /\ Follows /\ KeysStayWhole' /\ Identity'
<1>1. /\ row' \in [Row -> Entry \cup {Unborn, Gone}]
      /\ row'[i] = x /\ \A j \in Row \ {i} : row'[j] = row[j]
  BY DEF Inv, TypeOK
<1>2. /\ Live(i)' /\ x # Unborn /\ row[i] # Unborn
      /\ \A j \in Row : (Live(j)' <=> Live(j)) /\ (row'[j] = Unborn <=> row[j] = Unborn)
  BY <1>1, Blanks, RowIs DEF Live, Inv
<1>3. Follows
  BY <1>1, <1>2 DEF Follows
<1>4. KeysStayWhole'
  BY <1>1, <1>2, WholeRows DEF Inv
<1>5. Identity'
  <2>1. \A j \in Row : Live(j) => row[j].item \in Row /\ row'[j].item = row[j].item
    BY <1>1, RowIs DEF Inv, Row, Entry
  <2> QED
    BY <1>2, <2>1 DEF Inv, Identity, Row
<1> QED
  BY <1>1, <1>3, <1>4, <1>5

\* The rows of a set are deleted.
Clears(S) == row' = [i \in Row |-> IF i \in S THEN Gone ELSE row[i]]

LEMMA Removed ==
    ASSUME Inv, NEW S, \A i \in Row : i \in S => row[i] # Unborn, Clears(S)
    PROVE  /\ row' \in [Row -> Entry \cup {Unborn, Gone}]
           /\ Follows /\ KeysStayWhole' /\ Identity'
<1>1. /\ row' \in [Row -> Entry \cup {Unborn, Gone}]
      /\ \A i \in Row : row'[i] = row[i] \/ (row[i] # Unborn /\ row'[i] = Gone)
  BY DEF Inv, TypeOK, Clears
<1>2. \A i \in Row : Live(i)' => Live(i) /\ row'[i] = row[i]
  BY <1>1, Blanks DEF Live, Place
<1>3. \A i \in Row : row[i] # Unborn => row'[i] # Unborn
  BY <1>1, Blanks
<1>4. Follows
  BY <1>2, <1>3 DEF Follows
<1>5. KeysStayWhole'
  BY <1>2, WholeRows DEF Inv
<1>6. Identity'
  <2>1. \A j \in Row : Live(j) => row[j].item \in Row
    BY RowIs DEF Inv, Row, Entry
  <2> QED
    BY <1>2, <1>3, <2>1 DEF Inv, Identity, Row
<1> QED
  BY <1>1, <1>4, <1>5, <1>6

\* A row that is live is replaced by a new row of its item.
Goes(i, j, x) == row' = [row EXCEPT ![i] = Gone, ![j] = x]

LEMMA MovedTo ==
    ASSUME Inv, NEW i \in Row, Live(i), NEW j \in MovedId, row[j] = Unborn,
           NEW x \in Entry, Whole(x), x.item = row[i].item,
           Goes(i, j, x)
    PROVE  /\ row' \in [Row -> Entry \cup {Unborn, Gone}]
           /\ Follows /\ KeysStayWhole' /\ Identity'
<1>j. j \in Row /\ j \notin Item
  BY IdAssumption DEF Row
<1>1. i # j
  BY Blanks DEF Live, Place
<1>2. /\ row' \in [Row -> Entry \cup {Unborn, Gone}]
      /\ row'[i] = Gone /\ row'[j] = x /\ \A k \in Row \ {i, j} : row'[k] = row[k]
  BY <1>j, <1>1 DEF Inv, TypeOK, Goes
<1>3. /\ ~Live(i)' /\ Live(j)' /\ ~Live(j) /\ x # Unborn
      /\ \A k \in Row \ {i, j} : Live(k)' <=> Live(k)
  BY <1>2, Blanks DEF Live, Place
<1>4. Follows
  BY <1>2, <1>3, Blanks DEF Follows
<1>5. KeysStayWhole'
  BY <1>2, <1>3, WholeRows DEF Inv
<1>6. Identity'
  <2>1. \A k \in Row : Live(k) => row[k].item \in Row /\ row[k].item # j
    BY <1>j, RowIs DEF Inv, Row, Entry
  <2>2. \A k \in Row : row[k] # Unborn => row'[k] # Unborn
    BY <1>2, <1>3, Blanks
  <2>3. \A k \in Item : Live(k)' => row'[k].item = k
    BY <1>j, <1>2, <1>3 DEF Inv, Identity, Row
  <2>4. \A k \in Row : Live(k)' => row'[row'[k].item] # Unborn
    BY <1>2, <1>3, <2>1, <2>2 DEF Inv, Identity
  <2>5. \A k, l \in Row : Live(k)' /\ Live(l)' /\ row'[k].item = row'[l].item => k = l
    BY <1>2, <1>3 DEF Inv, Identity
  <2> QED
    BY <2>3, <2>4, <2>5 DEF Identity
<1> QED
  BY <1>2, <1>4, <1>5, <1>6

-----------------------------------------------------------------------------
(* What handlers compute is of its type.                                   *)

LEMMA Forms == \A f \in Form : /\ Extras(f) \subseteq Extra /\ f # "SSH_KEY"
                              /\ BlobKind(f) \in {"none", "items", "text"}
                              /\ HasPassword(f) \in BOOLEAN
  BY DEF Form, Extras, BlobKind, HasPassword

LEMMA PlainBlobs ==
    /\ NoBlob \in Plain /\ Plain \subseteq Blob /\ \A b \in Plain : b.kind # "key"
    /\ \A b \in Blob : b.kind # "key" => b \in Plain
<1>1. <<>> \in Seq(Value)
  OBVIOUS
<1> QED
  BY <1>1 DEF NoBlob, Plain, Blob

LEMMA BlobOfIs ==
    ASSUME NEW f \in Form, ~HasPassword(f), NEW v \in Value \cup {None}
    PROVE  BlobOf(f, v) \in Plain
<1>1. CASE v = None
  BY <1>1, PlainBlobs DEF BlobOf
<1>2. CASE v # None
  <2>1. v \in Value /\ <<v>> \in Seq(Value)
    BY <1>2
  <2>2. BlobKind(f) \in {"items", "text"}
    BY DEF BlobKind, HasPassword, Form
  <2> DEFINE b == [kind |-> BlobKind(f), held |-> <<v>>]
  <2>3. b.kind = BlobKind(f) /\ b.held = <<v>> /\ BlobOf(f, v) = b
    BY <1>2 DEF BlobOf
  <2>4. b \in [kind: {"items"}, held: Seq(Value)]
              \cup [kind: {"text"}, held: {<<w>> : w \in Value}]
    BY <2>1, <2>2
  <2> HIDE DEF b
  <2> QED
    BY <2>3, <2>4 DEF Plain
<1> QED
  BY <1>1, <1>2

\* What a row keeps besides its password: values, one at most in a text.
LEMMA HeldIs ==
    ASSUME NEW b \in Plain
    PROVE  /\ b.held \in Seq(Value)
           /\ b.kind = "text" => Len(b.held) <= 1
           /\ b.kind = "none" => b.held = <<>>
           /\ b.kind \in {"none", "items", "text"}
<1>0. <<>> \in Seq(Value) /\ Len(<<>>) = 0
  OBVIOUS
<1>1. CASE b = NoBlob
  BY <1>0, <1>1 DEF NoBlob
<1>2. CASE b \in [kind: {"items"}, held: Seq(Value)]
  BY <1>2
<1>3. CASE b \in [kind: {"text"}, held: {<<>>} \cup {<<v>> : v \in Value}]
  <2>1. CASE b.held = <<>>
    BY <1>0, <1>3, <2>1
  <2>2. ASSUME NEW v \in Value, b.held = <<v>>
        PROVE  b.held \in Seq(Value) /\ Len(b.held) <= 1
    BY <2>2
  <2> QED
    BY <1>3, <2>1, <2>2
<1> QED
  BY <1>1, <1>2, <1>3 DEF Plain

LEMMA SingleIs ==
    ASSUME NEW x \in Entry, x.blob.kind # "key"
    PROVE  Single(x) \in Value \cup {None}
<1>1. x.pwd \in Value \cup {None} /\ x.blob \in Plain
  BY PlainBlobs DEF Entry
<1>2. x.blob.held \in Seq(Value)
  BY <1>1, HeldIs
<1>3. x.blob.held # <<>> => x.blob.held[1] \in Value
  BY <1>2
<1> QED
  BY <1>1, <1>3 DEF Single

LEMMA BodyIs ==
    ASSUME NEW b \in Body
    PROVE  /\ b.type \in Form \cup {Keep} /\ b.set \in SUBSET Extra /\ b.clear \in SUBSET Extra
           /\ b.pwd \in Value \cup {None, Keep} /\ b.blob \in Plain \cup {Keep}
           /\ b.to \in Collection \cup {Keep}
  BY BodyAssumption DEF BodyType

LEMMA CreatedIs ==
    ASSUME NEW i \in Item, NEW p \in {"personal", "team"}, NEW c \in Collection \cup {None},
           NEW b \in Body, b.type # Keep
    PROVE  /\ Created(i, p, c, b) \in Entry /\ Created(i, p, c, b).item = i
           /\ Created(i, p, c, b).place = p
           /\ Created(i, p, c, b).type # "SSH_KEY" /\ Whole(Created(i, p, c, b))
<1> DEFINE pwd == IF HasPassword(b.type) /\ b.pwd # Keep THEN b.pwd ELSE None
           blob == IF b.blob # Keep /\ b.blob.kind = BlobKind(b.type) THEN b.blob ELSE NoBlob
<1>1. b.type \in Form /\ b.type # "SSH_KEY" /\ b.set \cap Extras(b.type) \in SUBSET Extra
  BY BodyIs, Forms
<1>2. pwd \in Value \cup {None}
  BY BodyIs
<1>3. blob \in Blob /\ blob.kind # "key"
  BY BodyIs, PlainBlobs
<1>4. <<>> \in Seq(Value)
  OBVIOUS
<1> HIDE DEF pwd, blob
<1>5. Created(i, p, c, b) =
        [place |-> p, coll |-> c, item |-> i, type |-> b.type,
         extras |-> b.set \cap Extras(b.type), pwd |-> pwd, blob |-> blob, past |-> <<>>]
  BY DEF Created, pwd, blob
<1> QED
  BY <1>1, <1>2, <1>3, <1>4, <1>5 DEF Entry, Place, Whole

LEMMA FormAfterIs ==
    ASSUME NEW x, NEW b \in Body
    PROVE  FormAfter(x, b) \in Form /\ Normal(x.type) \in Form
  BY BodyIs DEF FormAfter, Normal, Form

LEMMA PersonalUpdateIs ==
    ASSUME NEW x \in Entry, x.blob.kind # "key", NEW b \in Body
    PROVE  PersonalUpdate(x, b) \in Update
<1> DEFINE f == FormAfter(x, b)
           converts == f # Normal(x.type)
           moved == converts /\ ~(HasPassword(Normal(x.type)) /\ HasPassword(f))
           pwd == IF HasPassword(f)
                  THEN IF b.pwd = Keep /\ moved THEN Single(x) ELSE b.pwd
                  ELSE IF converts THEN None ELSE Keep
           blob == IF HasPassword(f) THEN IF converts THEN NoBlob ELSE Keep
                   ELSE IF Gives(b, f) THEN b.blob
                   ELSE IF converts THEN BlobOf(f, Single(x)) ELSE Keep
           type == IF converts THEN f ELSE Keep
           set == b.set \cap Extras(f)
           clear == Dropped(b, f, converts)
<1>1. f \in Form /\ Single(x) \in Value \cup {None}
  BY FormAfterIs, SingleIs
<1>2. type \in Form \cup {Keep}
  BY <1>1
<1>3. set \in SUBSET Extra /\ clear \in SUBSET Extra
  BY <1>1, BodyIs, Forms DEF Dropped
<1>4. pwd \in Value \cup {None, Keep}
  BY <1>1, BodyIs
<1>5. blob \in Plain \cup {Keep}
  BY <1>1, BodyIs, PlainBlobs, BlobOfIs
<1>6. PersonalUpdate(x, b) = [type |-> type, set |-> set, clear |-> clear, pwd |-> pwd,
                              blob |-> blob, past |-> Keep, to |-> Keep]
  BY DEF PersonalUpdate
<1> HIDE DEF type, set, clear, pwd, blob
<1> QED
  BY <1>2, <1>3, <1>4, <1>5, <1>6 DEF Update

LEMMA TeamUpdateIs ==
    ASSUME NEW x \in Entry, NEW b \in Body
    PROVE  TeamUpdate(x, b) \in Update
<1> DEFINE f == FormAfter(x, b)
           converts == b.type # Keep
           set == b.set \cap Extras(f)
           clear == Dropped(b, f, converts)
           pwd == IF HasPassword(f) THEN b.pwd ELSE IF converts THEN None ELSE Keep
           blob == IF ~converts THEN Keep ELSE IF HasPassword(f) THEN NoBlob ELSE b.blob
<1>1. f \in Form
  BY FormAfterIs
<1>2. set \in SUBSET Extra /\ clear \in SUBSET Extra
  BY <1>1, BodyIs, Forms DEF Dropped
<1>3. pwd \in Value \cup {None, Keep}
  BY BodyIs
<1>4. blob \in Plain \cup {Keep}
  BY BodyIs, PlainBlobs
<1>5. TeamUpdate(x, b) = [type |-> b.type, set |-> set, clear |-> clear, pwd |-> pwd,
                          blob |-> blob, past |-> Keep, to |-> b.to]
  BY DEF TeamUpdate
<1> HIDE DEF set, clear, pwd, blob
<1> QED
  BY <1>2, <1>3, <1>4, <1>5, BodyIs DEF Update

LEMMA PushedIs ==
    ASSUME NEW v \in Value, NEW past \in Seq(Value)
    PROVE  Pushed(v, past) \in Seq(Value)
<1> DEFINE all == <<v>> \o past
           n == IF Len(all) < HistoryCap THEN Len(all) ELSE HistoryCap
<1>1. <<v>> \in Seq(Value)
  OBVIOUS
<1>2. all \in Seq(Value)
  BY <1>1, ConcatProperties
<1> HIDE DEF all
<1>3. n \in Int /\ n <= Len(all)
  BY <1>2, IdAssumption
<1> HIDE DEF n
<1>4. \A i \in 1..n : all[i] \in Value
  BY <1>2, <1>3
<1>5. SubSeq(all, 1, n) \in Seq(Value)
  BY <1>3, <1>4, SubSeqProperties
<1> QED
  BY <1>5 DEF Pushed, all, n

LEMMA UpdatedIs ==
    ASSUME NEW x \in Entry, NEW u \in Update, x.type # "SSH_KEY", x.blob.kind # "key"
    PROVE  /\ Updated(x, u) \in Entry /\ Whole(Updated(x, u))
           /\ Updated(x, u).item = x.item /\ Updated(x, u).place = x.place
           /\ Updated(x, u).type # "SSH_KEY"
<1> DEFINE type == Written(u.type, x.type)
           extras == (x.extras \ u.clear) \cup u.set
           pwd == Written(u.pwd, x.pwd)
           blob == Written(u.blob, x.blob)
           past == Written(u.past, x.past)
           coll == Written(u.to, x.coll)
<1>1. type \in Form /\ type # "SSH_KEY"
  BY Forms DEF Written, Entry, Update
<1>2. extras \in SUBSET Extra
  BY DEF Entry, Update
<1>3. pwd \in Value \cup {None}
  BY DEF Written, Entry, Update
<1>4. blob \in Blob /\ blob.kind # "key"
  BY PlainBlobs DEF Written, Entry, Update
<1>5. past \in Seq(Value)
  BY DEF Written, Entry, Update
<1>6. coll \in Collection \cup {None}
  BY DEF Written, Entry, Update
<1>7. Updated(x, u) = [x EXCEPT !.type = type, !.extras = extras, !.pwd = pwd, !.blob = blob,
                                !.past = past, !.coll = coll]
  BY DEF Updated
<1> HIDE DEF type, extras, pwd, blob, past, coll
<1> QED
  BY <1>1, <1>2, <1>3, <1>4, <1>5, <1>6, <1>7 DEF Entry, Whole

-----------------------------------------------------------------------------
(* Every action keeps Inv.                                                 *)

LEMMA Editable ==
    ASSUME Inv, NEW i \in Row, Live(i), row[i].type # "SSH_KEY"
    PROVE  row[i] \in Entry /\ row[i].blob.kind # "key" /\ row[i] # Unborn
  BY RowIs, WholeRows DEF Inv, Whole

LEMMA TeamRow ==
    ASSUME Inv, NEW i \in Row, row[i].place = "team"
    PROVE  Live(i) /\ row[i].type # "SSH_KEY"
<1>1. Live(i)
  BY DEF Live, Place
<1> QED
  BY <1>1, WholeRows DEF Inv, Whole

LEMMA StaysRow ==
    ASSUME Inv, UNCHANGED row
    PROVE  /\ row' \in [Row -> Entry \cup {Unborn, Gone}]
           /\ Follows /\ KeysStayWhole' /\ Identity'
<1>1. Follows
  BY DEF Follows, Live
<1>2. KeysStayWhole' /\ Identity'
  BY DEF Inv, KeysStayWhole, Identity, Live
<1> QED
  BY <1>1, <1>2 DEF Inv, TypeOK

LEMMA CreationKeeps ==
    ASSUME Inv, NEW i \in Item, row[i] = Unborn, NEW p \in {"personal", "team"},
           NEW c \in Collection \cup {None}, NEW b \in Body, b.type # Keep,
           row' = [row EXCEPT ![i] = Created(i, p, c, b)], UNCHANGED <<open, req>>
    PROVE  Inv'
<1>1. PICK x \in Entry : x = Created(i, p, c, b)
  BY CreatedIs
<1>2. x.item = i /\ Whole(x) /\ row' = [row EXCEPT ![i] = x]
  BY <1>1, CreatedIs
<1>3. open' \subseteq Collection /\ UNCHANGED req
  BY DEF Inv, TypeOK
<1> QED
  BY <1>2, <1>3, Born, Made

LEMMA UpdateAsked ==
    ASSUME Inv, NEW r \in Req, NEW i \in Row, Live(i), row[i].type # "SSH_KEY",
           NEW u \in Update, NEW g \in BOOLEAN,
           Enter(r, [at |-> "update", row |-> i, update |-> u, gives |-> g])
    PROVE  Inv'
<1> DEFINE c == [at |-> "update", row |-> i, update |-> u, gives |-> g]
<1>1. c \in Request
  BY DEF Request
<1>2. Aimed(c)
  BY Editable DEF Aimed
<1> QED
  BY <1>1, <1>2, Entered

LEMMA AskKeyKeeps ==
    ASSUME Inv, NEW r \in Req, NEW k \in PrivateKey, AskKey(r, k) PROVE Inv'
<1> DEFINE c == [at |-> "key", key |-> k]
<1>1. c \in Request
  BY DEF Request
<1>2. Aimed(c)
  BY DEF Aimed
<1> QED
  BY <1>1, <1>2, Entered DEF AskKey

LEMMA GivesIs == \A b, f : Gives(b, f) \in BOOLEAN
  BY DEF Gives

LEMMA PatchPersonalKeeps ==
    ASSUME Inv, NEW r \in Req, NEW i \in Row, PatchPersonal(r, i) PROVE Inv'
<1>1. Live(i) /\ row[i].type # "SSH_KEY"
  BY DEF PatchPersonal, Live, Place
<1>2. PICK b \in Body : Enter(r, [at |-> "update", row |-> i,
                                  update |-> PersonalUpdate(row[i], b),
                                  gives |-> Gives(b, FormAfter(row[i], b))])
  BY DEF PatchPersonal
<1>3. PersonalUpdate(row[i], b) \in Update
  BY <1>1, Editable, PersonalUpdateIs
<1> QED
  BY <1>1, <1>2, <1>3, GivesIs, UpdateAsked

LEMMA PatchTeamKeeps ==
    ASSUME Inv, NEW r \in Req, NEW i \in Row, PatchTeam(r, i) PROVE Inv'
<1>1. Live(i) /\ row[i].type # "SSH_KEY"
  BY TeamRow DEF PatchTeam
<1>2. PICK b \in Body : Enter(r, [at |-> "update", row |-> i,
                                  update |-> TeamUpdate(row[i], b),
                                  gives |-> Gives(b, FormAfter(row[i], b))])
  BY DEF PatchTeam
<1>3. TeamUpdate(row[i], b) \in Update
  BY <1>1, Editable, TeamUpdateIs
<1> QED
  BY <1>1, <1>2, <1>3, GivesIs, UpdateAsked

LEMMA SaveFromSiteKeeps ==
    ASSUME Inv, NEW r \in Req, NEW i \in Row, SaveFromSite(r, i) PROVE Inv'
<1>1. Live(i) /\ row[i].type # "SSH_KEY"
  BY TeamRow DEF SaveFromSite, Live, Place
<1>2. PICK sent \in SUBSET SiteFields, v \in Value :
        Enter(r, [at |-> "update", row |-> i, gives |-> TRUE,
                  update |-> [type |-> Keep, set |-> sent, clear |-> SiteFields \ sent,
                              pwd |-> v, blob |-> Keep, past |-> Keep, to |-> Keep]])
  BY DEF SaveFromSite
<1> DEFINE u == [type |-> Keep, set |-> sent, clear |-> SiteFields \ sent,
                 pwd |-> v, blob |-> Keep, past |-> Keep, to |-> Keep]
<1>3. u \in Update
  BY DEF Update, SiteFields
<1>4. Enter(r, [at |-> "update", row |-> i, update |-> u, gives |-> TRUE])
  BY <1>2
<1> HIDE DEF u
<1> QED
  BY <1>1, <1>3, <1>4, UpdateAsked

LEMMA RotateKeeps ==
    ASSUME Inv, NEW r \in Req, NEW i \in Row, Rotate(r, i) PROVE Inv'
<1>1. Live(i) /\ row[i].type # "SSH_KEY" /\ row[i] \in Entry
  BY TeamRow, Editable DEF Rotate
<1> DEFINE past == IF row[i].pwd = None THEN Keep ELSE Pushed(row[i].pwd, row[i].past)
<1>2. PICK v \in Value :
        Enter(r, [at |-> "update", row |-> i, gives |-> TRUE,
                  update |-> [type |-> Keep, set |-> {}, clear |-> {}, pwd |-> v, blob |-> Keep,
                              past |-> past, to |-> Keep]])
  BY DEF Rotate
<1>3. past \in Seq(Value) \cup {Keep}
  <2>1. row[i].past \in Seq(Value) /\ (row[i].pwd # None => row[i].pwd \in Value)
    BY <1>1 DEF Entry
  <2> QED
    BY <2>1, PushedIs
<1> HIDE DEF past
<1> DEFINE u == [type |-> Keep, set |-> {}, clear |-> {}, pwd |-> v, blob |-> Keep,
                 past |-> past, to |-> Keep]
<1>4. u \in Update
  BY <1>3 DEF Update
<1>5. Enter(r, [at |-> "update", row |-> i, update |-> u, gives |-> TRUE])
  BY <1>2
<1> HIDE DEF u
<1> QED
  BY <1>1, <1>4, <1>5, UpdateAsked

LEMMA AskDeleteKeeps ==
    ASSUME Inv, NEW r \in Req, NEW i \in Row, AskDelete(r, i) PROVE Inv'
<1> DEFINE c == [at |-> "delete", row |-> i]
<1>1. c \in Request
  BY DEF Request
<1>2. Live(i) /\ row[i] # Unborn
  BY RowIs DEF AskDelete, Live, Place, Inv
<1>3. Aimed(c)
  BY <1>2 DEF Aimed, AskDelete
<1> QED
  BY <1>1, <1>3, Entered DEF AskDelete

\* A move carries a copy of the row it read.
LEMMA MoveAsked ==
    ASSUME Inv, NEW r \in Req, NEW i \in Row, row[i].place = "personal",
           row[i].type # "SSH_KEY", NEW x \in Entry, x.place \in {"team", "account"},
           x.type # "SSH_KEY", x.blob.kind # "key", x.item = row[i].item,
           Enter(r, [at |-> "move", row |-> i, copy |-> x])
    PROVE  Inv'
<1> DEFINE c == [at |-> "move", row |-> i, copy |-> x]
<1>1. c \in Request
  BY DEF Request
<1>2. row[i] # Unborn
  BY Editable DEF Live, Place
<1>3. Aimed(c)
  BY <1>2 DEF Aimed
<1> QED
  BY <1>1, <1>3, Entered

LEMMA AskMoveToTeamKeeps ==
    ASSUME Inv, NEW r \in Req, NEW i \in Row, NEW c \in Collection, AskMoveToTeam(r, i, c)
    PROVE  Inv'
<1>1. row[i] \in Entry /\ row[i].blob.kind # "key"
  BY Editable DEF AskMoveToTeam, Live, Place
<1> DEFINE x == [row[i] EXCEPT !.place = "team", !.coll = c]
<1>2. /\ x \in Entry /\ x.place = "team" /\ x.type = row[i].type /\ x.blob = row[i].blob
      /\ x.item = row[i].item
  BY <1>1 DEF Entry, Place
<1>3. Enter(r, [at |-> "move", row |-> i, copy |-> x])
  BY DEF AskMoveToTeam
<1> HIDE DEF x
<1> QED
  BY <1>1, <1>2, <1>3, MoveAsked DEF AskMoveToTeam

LEMMA AskMoveToAccountKeeps ==
    ASSUME Inv, NEW r \in Req, NEW i \in Row, AskMoveToAccount(r, i) PROVE Inv'
<1>0. row[i].place = "personal" /\ row[i].type # "SSH_KEY"
  BY DEF AskMoveToAccount, HasPassword
<1>1. row[i] \in Entry
  BY <1>0, Editable DEF Live, Place
<1> DEFINE x == [row[i] EXCEPT !.place = "account", !.type = "LOGIN", !.blob = NoBlob,
                               !.extras = @ \cap {"username"}]
<1>2. /\ x \in Entry /\ x.place = "account" /\ x.type # "SSH_KEY" /\ x.blob.kind # "key"
      /\ x.item = row[i].item
  <2>1. NoBlob \in Blob /\ NoBlob.kind # "key"
    BY PlainBlobs
  <2> QED
    BY <1>1, <2>1 DEF Entry, Place, Form
<1>3. Enter(r, [at |-> "move", row |-> i, copy |-> x])
  BY DEF AskMoveToAccount
<1> HIDE DEF x
<1> QED
  BY <1>0, <1>2, <1>3, MoveAsked

LEMMA CreateKeyKeeps ==
    ASSUME Inv, NEW r \in Req, NEW i \in Item, CreateKey(r, i) PROVE Inv'
<1>1. PICK k \in PrivateKey : k = req[r].key
  BY At DEF CreateKey, Inv, TypeOK
<1> DEFINE x == [place |-> "personal", coll |-> None, item |-> i, type |-> "SSH_KEY",
                 extras |-> {}, pwd |-> None, blob |-> [kind |-> "key", held |-> <<k>>],
                 past |-> <<>>]
<1>2. x \in Entry
  <2>1. <<k>> \in Seq(PrivateKey) /\ <<>> \in Seq(Value)
    OBVIOUS
  <2> QED
    BY <2>1 DEF Entry, Place, Blob
<1>3. x.item = i /\ Whole(x)
  BY DEF Whole
<1>4. row' = [row EXCEPT ![i] = x] /\ row[i] = Unborn
  BY <1>1 DEF CreateKey
<1> HIDE DEF x
<1>5. /\ row' \in [Row -> Entry \cup {Unborn, Gone}]
      /\ Follows /\ KeysStayWhole' /\ Identity'
  BY <1>2, <1>3, <1>4, Born
<1>6. open' \subseteq Collection /\ req' = [req EXCEPT ![r] = Idle]
  BY DEF CreateKey, Leave, Inv, TypeOK
<1> QED
  BY <1>5, <1>6, IdleIs, IdleAims, Stepped

LEMMA UpdateIs ==
    ASSUME Inv, NEW r \in Req, EndUpdate(r)
    PROVE  \/ UNCHANGED row
           \/ \E i \in Row, x \in Entry :
                 /\ Live(i) /\ row[i].type # "SSH_KEY" /\ Whole(x) /\ x.type # "SSH_KEY"
                 /\ x.item = row[i].item /\ x.place = row[i].place
                 /\ row' = [row EXCEPT ![i] = x]
<1>1. PICK c \in Request : c = req[r]
  BY DEF Inv, TypeOK
<1>2. PICK i \in Row : i = c.row
  BY <1>1, At DEF EndUpdate
<1>3. PICK u \in Update : u = c.update
  BY <1>1, At DEF EndUpdate
<1>4. Aimed(c) /\ c.at = "update"
  BY <1>1 DEF Inv, Aims, EndUpdate
<1>5. CASE row[i] # Gone /\ u.to \in open \cup {Keep}
  <2>1. Live(i)
    BY <1>2, <1>4, <1>5, RowIs DEF Inv, Aimed
  <2>2. row[i].type # "SSH_KEY" /\ row[i] \in Entry /\ row[i].blob.kind # "key"
    BY <1>2, <1>4, <2>1, Editable DEF Aimed
  <2>3. PICK x \in Entry : x = Updated(row[i], u)
    BY <2>2, UpdatedIs
  <2>4. Whole(x) /\ x.item = row[i].item /\ x.place = row[i].place /\ x.type # "SSH_KEY"
    BY <2>2, <2>3, UpdatedIs
  <2>5. row' = [row EXCEPT ![i] = x]
    BY <1>1, <1>2, <1>3, <1>5, <2>3 DEF EndUpdate
  <2> QED
    BY <2>1, <2>2, <2>4, <2>5
<1>6. CASE ~(row[i] # Gone /\ u.to \in open \cup {Keep})
  BY <1>1, <1>2, <1>3, <1>6 DEF EndUpdate
<1> QED
  BY <1>5, <1>6

LEMMA EndUpdateKeeps ==
    ASSUME Inv, NEW r \in Req, EndUpdate(r) PROVE Inv'
<1>1. /\ row' \in [Row -> Entry \cup {Unborn, Gone}]
      /\ Follows /\ KeysStayWhole' /\ Identity'
  <2>1. CASE UNCHANGED row
    BY <2>1, StaysRow
  <2>2. CASE ~UNCHANGED row
    <3>1. PICK i \in Row, x \in Entry :
                 /\ Live(i) /\ row[i].type # "SSH_KEY" /\ Whole(x) /\ x.type # "SSH_KEY"
                 /\ x.item = row[i].item /\ x.place = row[i].place
                 /\ row' = [row EXCEPT ![i] = x]
      BY <2>2, UpdateIs
    <3> QED
      BY <3>1, Changed
  <2> QED
    BY <2>1, <2>2
<1>2. open' \subseteq Collection /\ req' = [req EXCEPT ![r] = Idle]
  BY DEF EndUpdate, Leave, Inv, TypeOK
<1> QED
  BY <1>1, <1>2, IdleIs, IdleAims, Stepped

LEMMA EndDeleteKeeps ==
    ASSUME Inv, NEW r \in Req, EndDelete(r) PROVE Inv'
<1>1. PICK c \in Request : c = req[r]
  BY DEF Inv, TypeOK
<1>2. PICK i \in Row : i = c.row
  BY <1>1, At DEF EndDelete
<1>3. row[i] # Unborn
  BY <1>1, <1>2 DEF Inv, Aims, Aimed, EndDelete
<1>4. Clears({i})
  BY <1>1, <1>2 DEF EndDelete, Inv, TypeOK, Clears
<1>5. /\ row' \in [Row -> Entry \cup {Unborn, Gone}]
      /\ Follows /\ KeysStayWhole' /\ Identity'
  BY <1>3, <1>4, Removed
<1>6. open' \subseteq Collection /\ req' = [req EXCEPT ![r] = Idle]
  BY DEF EndDelete, Leave, Inv, TypeOK
<1> QED
  BY <1>5, <1>6, IdleIs, IdleAims, Stepped

\* The rows a collection takes along.
Taken(c) == {i \in Row : row[i].place = "team" /\ row[i].coll = c}

LEMMA DropTakes ==
    ASSUME Inv, NEW c \in Collection, DropCollection(c)
    PROVE  Clears(Taken(c))
  BY DEF DropCollection, Taken, In, Clears

LEMMA DropCollectionKeeps ==
    ASSUME Inv, NEW c \in Collection, DropCollection(c) PROVE Inv'
<1>1. \A i \in Row : i \in Taken(c) => row[i] # Unborn
  BY RowIs DEF Taken, Live, Place, Inv
<1>2. /\ row' \in [Row -> Entry \cup {Unborn, Gone}]
      /\ Follows /\ KeysStayWhole' /\ Identity'
  BY <1>1, DropTakes, Removed
<1>3. open' \subseteq Collection /\ UNCHANGED req
  BY DEF DropCollection, Inv, TypeOK
<1> QED
  BY <1>2, <1>3, Made

LEMMA MoveIs ==
    ASSUME Inv, NEW r \in Req, NEW j \in MovedId, EndMove(r, j), CanMove(r)
    PROVE  \E i \in Row, x \in Entry :
              /\ Live(i) /\ row[i].place = "personal" /\ row[i].type # "SSH_KEY"
              /\ row[j] = Unborn /\ Whole(x) /\ x.item = row[i].item
              /\ x.place \in {"team", "account"} /\ x.type # "SSH_KEY"
              /\ Goes(i, j, x)
<1>1. PICK c \in Request : c = req[r]
  BY DEF Inv, TypeOK
<1>2. PICK i \in Row : i = c.row
  BY <1>1, At DEF EndMove
<1>3. PICK x \in Entry : x = c.copy
  BY <1>1, At DEF EndMove
<1>4. Aimed(c) /\ c.at = "move"
  BY <1>1 DEF Inv, Aims, EndMove
<1>5. row[i] # Gone /\ row[i] # Unborn
  BY <1>1, <1>2, <1>4 DEF CanMove, Aimed
<1>6. Live(i)
  BY <1>5, RowIs DEF Inv
<1>7. Whole(x)
  BY <1>3, <1>4 DEF Aimed, Whole
<1>8. Goes(i, j, x) /\ row[j] = Unborn
  BY <1>1, <1>2, <1>3 DEF EndMove, Goes
<1> QED
  BY <1>2, <1>3, <1>4, <1>6, <1>7, <1>8 DEF Aimed

LEMMA EndMoveKeeps ==
    ASSUME Inv, NEW r \in Req, NEW j \in MovedId, EndMove(r, j) PROVE Inv'
<1>1. /\ row' \in [Row -> Entry \cup {Unborn, Gone}]
      /\ Follows /\ KeysStayWhole' /\ Identity'
  <2>1. CASE CanMove(r)
    <3>1. PICK i \in Row, x \in Entry :
              /\ Live(i) /\ row[j] = Unborn /\ Whole(x) /\ x.item = row[i].item
              /\ Goes(i, j, x)
      BY <2>1, MoveIs
    <3> QED
      BY <3>1, MovedTo
  <2>2. CASE ~CanMove(r)
    BY <2>2, StaysRow DEF EndMove
  <2> QED
    BY <2>1, <2>2
<1>2. open' \subseteq Collection /\ req' = [req EXCEPT ![r] = Idle]
  BY DEF EndMove, Leave, Inv, TypeOK
<1> QED
  BY <1>1, <1>2, IdleIs, IdleAims, Stepped

LEMMA StepInv == Inv /\ [Next]_vars => Inv'
<1> SUFFICES ASSUME Inv, [Next]_vars PROVE Inv'
  OBVIOUS
<1>1. ASSUME NEW i \in Item, CreatePersonal(i) PROVE Inv'
  BY <1>1, CreationKeeps DEF CreatePersonal
<1>2. ASSUME NEW i \in Item, NEW c \in Collection, CreateTeam(i, c) PROVE Inv'
  BY <1>2, CreationKeeps DEF CreateTeam
<1>3. ASSUME NEW c \in Collection, DropCollection(c) PROVE Inv'
  BY <1>3, DropCollectionKeeps
<1>4. ASSUME NEW r \in Req, NEW k \in PrivateKey, AskKey(r, k) PROVE Inv'
  BY <1>4, AskKeyKeeps
<1>5. ASSUME NEW r \in Req, NEW i \in Item, CreateKey(r, i) PROVE Inv'
  BY <1>5, CreateKeyKeeps
<1>6. ASSUME NEW r \in Req, EndUpdate(r) \/ EndDelete(r) PROVE Inv'
  BY <1>6, EndUpdateKeeps, EndDeleteKeeps
<1>7. ASSUME NEW r \in Req, NEW j \in MovedId, EndMove(r, j) PROVE Inv'
  BY <1>7, EndMoveKeeps
<1>8. ASSUME NEW r \in Req, NEW i \in Row,
             PatchPersonal(r, i) \/ PatchTeam(r, i) \/ SaveFromSite(r, i) \/ Rotate(r, i)
             \/ AskDelete(r, i) \/ AskMoveToAccount(r, i)
      PROVE  Inv'
  BY <1>8, PatchPersonalKeeps, PatchTeamKeeps, SaveFromSiteKeeps, RotateKeeps,
     AskDeleteKeeps, AskMoveToAccountKeeps
<1>9. ASSUME NEW r \in Req, NEW i \in Row, NEW c \in Collection, AskMoveToTeam(r, i, c)
      PROVE  Inv'
  BY <1>9, AskMoveToTeamKeeps
<1>10. CASE UNCHANGED vars
  BY <1>10, StaysRow, Made DEF vars, Inv, TypeOK
<1> QED
  BY <1>1, <1>2, <1>3, <1>4, <1>5, <1>6, <1>7, <1>8, <1>9, <1>10 DEF Next

\* The inductive invariant.
THEOREM Inductive == Spec => []Inv
  BY InitInv, StepInv, PTL DEF Spec

\* Rows, collections and requests hold values of their types: what the handlers
\* compute (a conversion, a rotation's history, the copy of a move) is a row the
\* tables have.
THEOREM TypeCorrect == Spec => []TypeOK
  BY Inductive, PTL DEF Inv

\* Whatever the requests in flight, a row of an SSH key holds its private key and
\* nothing else, and no other row, of a vault, a team or a project, holds one.
THEOREM KeysWhole == Spec => []KeysStayWhole
  BY Inductive, PTL DEF Inv

-----------------------------------------------------------------------------
(* The vaults implement VaultCustody.                                      *)

\* The places of the items, as functions of the rows.
Kind(x) == IF x.place = "personal" /\ x.type = "SSH_KEY" THEN "key" ELSE x.place
Kept(rows, o) == {i \in Row : rows[i].place \in Place /\ rows[i].item = o}
PlaceIn(rows, o) ==
    IF Kept(rows, o) = {} THEN IF rows[o] = Unborn THEN "unborn" ELSE "gone"
    ELSE IF Cardinality(Kept(rows, o)) > 1 THEN "copied"
    ELSE Kind(rows[CHOOSE i \in Kept(rows, o) : TRUE])

LEMMA WhereIs == \A o : Where(o) = PlaceIn(row, o) /\ Where(o)' = PlaceIn(row', o)
  BY DEF Where, PlaceIn, RowsOf, Kept, Kind

LEMMA PlaceInIs ==
    ASSUME NEW rows, NEW o
    PROVE  /\ Kept(rows, o) = {} => PlaceIn(rows, o) = IF rows[o] = Unborn THEN "unborn" ELSE "gone"
           /\ \A i : Kept(rows, o) = {i} => PlaceIn(rows, o) = Kind(rows[i])
<1>1. Kept(rows, o) = {} => PlaceIn(rows, o) = IF rows[o] = Unborn THEN "unborn" ELSE "gone"
  BY DEF PlaceIn
<1>2. ASSUME NEW i, Kept(rows, o) = {i} PROVE PlaceIn(rows, o) = Kind(rows[i])
  <2>1. Cardinality({i}) = 1
    BY FS_Singleton
  <2>2. ~(Cardinality(Kept(rows, o)) > 1)
    BY <1>2, <2>1
  <2>3. (CHOOSE j \in Kept(rows, o) : TRUE) = i
    BY <1>2
  <2> QED
    BY <1>2, <2>2, <2>3 DEF PlaceIn
<1> QED
  BY <1>1, <1>2

LEMMA KeptIs ==
    ASSUME Identity, NEW o \in Item
    PROVE  /\ \A i \in Row : Live(i) /\ row[i].item = o => Kept(row, o) = {i}
           /\ (\A i \in Row : Live(i) => row[i].item # o) => Kept(row, o) = {}
           /\ row[o] = Unborn => Kept(row, o) = {}
  BY DEF Kept, Identity, Live

LEMMA SamePlace ==
    ASSUME NEW old, NEW new, NEW o, Kept(new, o) = Kept(old, o),
           old[o] = Unborn <=> new[o] = Unborn,
           \A i \in Kept(old, o) : Kind(new[i]) = Kind(old[i])
    PROVE  PlaceIn(new, o) = PlaceIn(old, o)
<1>1. CASE Kept(old, o) = {}
  BY <1>1 DEF PlaceIn
<1>2. CASE Kept(old, o) # {}
  <2>1. (CHOOSE i \in Kept(old, o) : TRUE) \in Kept(old, o)
    BY <1>2
  <2> QED
    BY <1>2, <2>1 DEF PlaceIn
<1> QED
  BY <1>1, <1>2

Placed == {"personal", "key", "team"}

\* A row is made.
Makes(i, x) == row' = [row EXCEPT ![i] = x]

LEMMA TakeInRefines ==
    ASSUME Inv, NEW i \in Item, row[i] = Unborn, NEW x \in Entry, x.item = i,
           Kind(x) \in Placed, Makes(i, x)
    PROVE  Custody!TakeIn(i)
<1>1. i \in Row /\ row'[i] = x /\ \A j \in Row \ {i} : row'[j] = row[j]
  BY DEF Row, Inv, TypeOK, Makes
<1>2. x.place \in Place /\ ~Live(i) /\ x # Unborn
  BY Blanks, RowIs DEF Inv, Row
<1>3. Where(i) = "unborn" /\ Kept(row, i) = {}
  BY KeptIs, PlaceInIs, WhereIs DEF Inv
<1>4. Kept(row', i) = {i}
  BY <1>1, <1>2, <1>3 DEF Kept
<1>5. Where(i)' = Kind(x)
  <2>1. PlaceIn(row', i) = Kind(row'[i])
    BY <1>4, PlaceInIs
  <2> QED
    BY <1>1, <2>1, WhereIs
<1>6. ASSUME NEW o \in Item \ {i} PROVE Where(o)' = Where(o)
  <2>0. i \notin Kept(row, o)
    BY <1>2 DEF Kept, Live
  <2>1. Kept(row', o) = Kept(row, o)
    BY <1>1, <1>2 DEF Kept, Live
  <2>2. \A j \in Kept(row, o) : Kind(row'[j]) = Kind(row[j])
    BY <1>1, <2>0 DEF Kept
  <2>3. row[o] = Unborn <=> row'[o] = Unborn
    BY <1>1 DEF Row
  <2>4. PlaceIn(row', o) = PlaceIn(row, o)
    BY <2>1, <2>2, <2>3, SamePlace
  <2> QED
    BY <2>4, WhereIs
<1>7. [o \in Item |-> Where(o)]' = [[o \in Item |-> Where(o)] EXCEPT ![i] = Kind(x)]
  BY <1>5, <1>6
<1> QED
  BY <1>3, <1>7 DEF Custody!TakeIn, Placed

LEMMA DiscardRefines ==
    ASSUME Inv, NEW D \in SUBSET Row, \A i \in D : Live(i) /\ Kind(row[i]) \in Placed,
           Clears(D)
    PROVE  Custody!Discard
<1> DEFINE S == {o \in Item : \E i \in D : row[i].item = o}
<1>1. \A i \in Row : row'[i] = IF i \in D THEN Gone ELSE row[i]
  BY DEF Clears
<1>2. \A i \in D : row[i] # Unborn /\ Gone.place \notin Place
  BY Blanks, RowIs DEF Inv, Place
<1>3. ASSUME NEW o \in S PROVE Where(o) \in Placed /\ Where(o)' = "gone"
  <2>1. PICK i \in D : row[i].item = o
    OBVIOUS
  <2>2. Kept(row, o) = {i}
    BY <2>1, KeptIs DEF Inv
  <2>3. Where(o) \in Placed
    BY <2>2, PlaceInIs, WhereIs
  <2>4. Kept(row', o) = {}
    BY <1>1, <1>2, <2>2 DEF Kept
  <2>5. row[o] # Unborn /\ o \in Row
    BY <2>1 DEF Inv, Identity, Row
  <2>6. row'[o] # Unborn
    BY <1>1, <2>5, Blanks
  <2> QED
    BY <2>3, <2>4, <2>6, PlaceInIs, WhereIs
<1>4. ASSUME NEW o \in Item \ S PROVE Where(o)' = Where(o)
  <2>1. Kept(row', o) = Kept(row, o) /\ \A i \in Kept(row, o) : Kind(row'[i]) = Kind(row[i])
    BY <1>1, <1>2 DEF Kept
  <2>2. row[o] = Unborn <=> row'[o] = Unborn
    BY <1>1, <1>2, Blanks DEF Row
  <2>3. PlaceIn(row', o) = PlaceIn(row, o)
    BY <2>1, <2>2, SamePlace
  <2> QED
    BY <2>3, WhereIs
<1> HIDE DEF S
<1>5. S \subseteq Item
  BY DEF S
<1>6. S \in SUBSET {o \in Item : [p \in Item |-> Where(p)][o] \in Placed}
  BY <1>3, <1>5
<1>7. [o \in Item |-> Where(o)]' =
        [o \in Item |-> IF o \in S THEN "gone" ELSE [p \in Item |-> Where(p)][o]]
  BY <1>3, <1>4, <1>5
<1> QED
  BY <1>6, <1>7 DEF Custody!Discard, Placed

LEMMA HandOverRefines ==
    ASSUME Inv, NEW i \in Row, NEW j \in MovedId, NEW x \in Entry, Live(i),
           row[i].place = "personal", row[i].type # "SSH_KEY", row[j] = Unborn,
           x.item = row[i].item, x.place \in {"team", "account"}, x.type # "SSH_KEY",
           Goes(i, j, x)
    PROVE  \E o \in Item : Custody!HandOver(o)
<1>0. PICK o \in Item : o = row[i].item
  BY RowIs DEF Entry, Inv
<1>j. j \in Row /\ j \notin Item /\ ~Live(j) /\ i # j
  BY RowIs, IdAssumption DEF Row, Inv
<1>1. /\ row'[i] = Gone /\ row'[j] = x /\ \A k \in Row \ {i, j} : row'[k] = row[k]
      /\ row[i] # Unborn /\ Gone.place \notin Place /\ x.place \in Place
  BY <1>j, Blanks, RowIs DEF Inv, TypeOK, Place, Goes
<1>2. Kept(row, o) = {i} /\ Where(o) = "personal"
  <2>1. Kept(row, o) = {i}
    BY <1>0, KeptIs DEF Inv
  <2> QED
    BY <2>1, PlaceInIs, WhereIs DEF Kind
<1>3. Kept(row', o) = {j}
  BY <1>0, <1>j, <1>1, <1>2 DEF Kept
<1>4. Where(o)' \in {"team", "account"}
  <2>1. PlaceIn(row', o) = Kind(row'[j])
    BY <1>3, PlaceInIs
  <2>2. Kind(x) \in {"team", "account"}
    BY DEF Kind
  <2> QED
    BY <1>1, <2>1, <2>2, WhereIs
<1>5. ASSUME NEW q \in Item \ {o} PROVE Where(q)' = Where(q)
  <2>1. Kept(row', q) = Kept(row, q) /\ \A k \in Kept(row, q) : Kind(row'[k]) = Kind(row[k])
    BY <1>0, <1>j, <1>1 DEF Kept, Live
  <2>2. row[q] = Unborn <=> row'[q] = Unborn
    BY <1>j, <1>1, Blanks DEF Row
  <2>3. PlaceIn(row', q) = PlaceIn(row, q)
    BY <2>1, <2>2, SamePlace
  <2> QED
    BY <2>3, WhereIs
<1>6. PICK p \in {"team", "account"} : p = Where(o)'
  BY <1>4
<1>7. [q \in Item |-> Where(q)]' = [[q \in Item |-> Where(q)] EXCEPT ![o] = p]
  BY <1>5, <1>6
<1> QED
  BY <1>2, <1>7 DEF Custody!HandOver

LEMMA UpdateRefines ==
    ASSUME Inv, NEW i \in Row, NEW x \in Entry, Live(i), row[i].type # "SSH_KEY",
           x.type # "SSH_KEY", x.item = row[i].item, x.place = row[i].place,
           row' = [row EXCEPT ![i] = x]
    PROVE  UNCHANGED [o \in Item |-> Where(o)]
<1>1. row'[i] = x /\ \A k \in Row \ {i} : row'[k] = row[k]
  BY DEF Inv, TypeOK
<1>2. row[i] # Unborn /\ x # Unborn /\ Kind(x) = Kind(row[i])
  BY Blanks, RowIs DEF Inv, Kind
<1>3. ASSUME NEW o \in Item PROVE Where(o)' = Where(o)
  <2>1. Kept(row', o) = Kept(row, o)
    BY <1>1 DEF Kept
  <2>2. \A k \in Kept(row, o) : Kind(row'[k]) = Kind(row[k])
    BY <1>1, <1>2 DEF Kept
  <2>3. row[o] = Unborn <=> row'[o] = Unborn
    BY <1>1, <1>2 DEF Row
  <2>4. PlaceIn(row', o) = PlaceIn(row, o)
    BY <2>1, <2>2, <2>3, SamePlace
  <2> QED
    BY <2>4, WhereIs
<1> QED
  BY <1>3

-----------------------------------------------------------------------------
(* Every step is one of VaultCustody's.                                    *)

LEMMA CreationRefines ==
    ASSUME Inv, NEW i \in Item, row[i] = Unborn, NEW p \in {"personal", "team"},
           NEW c \in Collection \cup {None}, NEW b \in Body, b.type # Keep,
           row' = [row EXCEPT ![i] = Created(i, p, c, b)]
    PROVE  Custody!TakeIn(i)
<1>1. PICK x \in Entry : x = Created(i, p, c, b)
  BY CreatedIs
<1>2. x.item = i /\ x.place = p /\ x.type # "SSH_KEY" /\ row' = [row EXCEPT ![i] = x]
  BY <1>1, CreatedIs
<1>3. Kind(x) \in Placed
  BY <1>2 DEF Kind, Placed
<1> QED
  BY <1>2, <1>3, TakeInRefines DEF Makes

LEMMA CreateKeyRefines ==
    ASSUME Inv, NEW r \in Req, NEW i \in Item, CreateKey(r, i)
    PROVE  Custody!TakeIn(i)
<1>1. PICK k \in PrivateKey : k = req[r].key
  BY At DEF CreateKey, Inv, TypeOK
<1> DEFINE x == [place |-> "personal", coll |-> None, item |-> i, type |-> "SSH_KEY",
                 extras |-> {}, pwd |-> None, blob |-> [kind |-> "key", held |-> <<k>>],
                 past |-> <<>>]
<1>2. x \in Entry
  <2>1. <<k>> \in Seq(PrivateKey) /\ <<>> \in Seq(Value)
    OBVIOUS
  <2> QED
    BY <2>1 DEF Entry, Place, Blob
<1>3. x.item = i /\ Kind(x) \in Placed
  BY DEF Kind, Placed
<1>4. row' = [row EXCEPT ![i] = x] /\ row[i] = Unborn
  BY <1>1 DEF CreateKey
<1> HIDE DEF x
<1> QED
  BY <1>2, <1>3, <1>4, TakeInRefines DEF Makes

LEMMA EndUpdateRefines ==
    ASSUME Inv, NEW r \in Req, EndUpdate(r)
    PROVE  UNCHANGED [o \in Item |-> Where(o)]
<1>1. CASE UNCHANGED row
  BY <1>1, WhereIs
<1>2. CASE ~UNCHANGED row
  <2>1. PICK i \in Row, x \in Entry :
               /\ Live(i) /\ row[i].type # "SSH_KEY" /\ Whole(x) /\ x.type # "SSH_KEY"
               /\ x.item = row[i].item /\ x.place = row[i].place
               /\ row' = [row EXCEPT ![i] = x]
    BY <1>2, UpdateIs
  <2> QED
    BY <2>1, UpdateRefines
<1> QED
  BY <1>1, <1>2

LEMMA EndDeleteRefines ==
    ASSUME Inv, NEW r \in Req, EndDelete(r)
    PROVE  Custody!Discard
<1>1. PICK c \in Request : c = req[r]
  BY DEF Inv, TypeOK
<1>2. PICK i \in Row : i = c.row
  BY <1>1, At DEF EndDelete
<1>3. Aimed(c) /\ c.at = "delete"
  BY <1>1 DEF Inv, Aims, EndDelete
<1> DEFINE D == IF Live(i) THEN {i} ELSE {}
<1>4. Clears(D)
  <2>1. ~Live(i) => row[i] = Gone
    BY <1>2, <1>3, RowIs DEF Inv, Aimed
  <2> QED
    BY <1>1, <1>2, <2>1 DEF EndDelete, Inv, TypeOK, Clears
<1>5. D \in SUBSET Row
  OBVIOUS
<1>6. \A j \in D : Live(j) /\ Kind(row[j]) \in Placed
  BY <1>2, <1>3 DEF Aimed, Kind, Placed
<1> HIDE DEF D
<1> QED
  BY <1>4, <1>5, <1>6, DiscardRefines

LEMMA DropCollectionRefines ==
    ASSUME Inv, NEW c \in Collection, DropCollection(c)
    PROVE  Custody!Discard
<1>1. Taken(c) \in SUBSET Row
  BY DEF Taken
<1>2. \A i \in Taken(c) : Live(i) /\ Kind(row[i]) \in Placed
  BY DEF Taken, Live, Place, Kind, Placed
<1> QED
  BY <1>1, <1>2, DropTakes, DiscardRefines

LEMMA EndMoveRefines ==
    ASSUME Inv, NEW r \in Req, NEW j \in MovedId, EndMove(r, j)
    PROVE  UNCHANGED [o \in Item |-> Where(o)] \/ \E o \in Item : Custody!HandOver(o)
<1>1. CASE CanMove(r)
  <2>1. PICK i \in Row, x \in Entry :
              /\ Live(i) /\ row[i].place = "personal" /\ row[i].type # "SSH_KEY"
              /\ row[j] = Unborn /\ Whole(x) /\ x.item = row[i].item
              /\ x.place \in {"team", "account"} /\ x.type # "SSH_KEY"
              /\ Goes(i, j, x)
    BY <1>1, MoveIs
  <2>2. \E o \in Item : Custody!HandOver(o)
    BY <2>1, HandOverRefines
  <2> QED
    BY <2>2
<1>2. CASE ~CanMove(r)
  <2>1. UNCHANGED row
    BY <1>2 DEF EndMove
  <2> QED
    BY <2>1, WhereIs
<1> QED
  BY <1>1, <1>2

LEMMA InitRefines == Init => Custody!Init
<1> SUFFICES ASSUME Init PROVE Custody!Init
  OBVIOUS
<1>1. \A i \in Row : row[i] = Unborn
  BY DEF Init
<1>2. ASSUME NEW o \in Item PROVE Where(o) = "unborn"
  <2>1. Kept(row, o) = {} /\ row[o] = Unborn
    BY <1>1, Blanks DEF Kept, Place, Row
  <2> QED
    BY <2>1, PlaceInIs, WhereIs
<1> QED
  BY <1>2 DEF Custody!Init

LEMMA StepRefines ==
    Inv /\ [Next]_vars => [Custody!Next]_[o \in Item |-> Where(o)]
<1> SUFFICES ASSUME Inv, [Next]_vars
             PROVE  Custody!Next \/ UNCHANGED [o \in Item |-> Where(o)]
  OBVIOUS
<1>1. ASSUME NEW i \in Item, CreatePersonal(i) PROVE Custody!TakeIn(i)
  BY <1>1, CreationRefines DEF CreatePersonal
<1>2. ASSUME NEW i \in Item, NEW c \in Collection, CreateTeam(i, c) PROVE Custody!TakeIn(i)
  BY <1>2, CreationRefines DEF CreateTeam
<1>3. ASSUME NEW r \in Req, NEW i \in Item, CreateKey(r, i) PROVE Custody!TakeIn(i)
  BY <1>3, CreateKeyRefines
<1>4. ASSUME NEW c \in Collection, DropCollection(c) PROVE Custody!Discard
  BY <1>4, DropCollectionRefines
<1>5. ASSUME NEW r \in Req, EndDelete(r) PROVE Custody!Discard
  BY <1>5, EndDeleteRefines
<1>6. ASSUME NEW r \in Req, NEW j \in MovedId, EndMove(r, j)
      PROVE  UNCHANGED [o \in Item |-> Where(o)] \/ \E o \in Item : Custody!HandOver(o)
  BY <1>6, EndMoveRefines
<1>7. ASSUME NEW r \in Req, EndUpdate(r) PROVE UNCHANGED [o \in Item |-> Where(o)]
  BY <1>7, EndUpdateRefines
<1>8. ASSUME UNCHANGED row PROVE UNCHANGED [o \in Item |-> Where(o)]
  BY <1>8, WhereIs
<1>9. ASSUME NEW r \in Req, NEW i \in Row,
             PatchPersonal(r, i) \/ PatchTeam(r, i) \/ SaveFromSite(r, i) \/ Rotate(r, i)
             \/ AskDelete(r, i) \/ AskMoveToAccount(r, i)
             \/ (\E c \in Collection : AskMoveToTeam(r, i, c))
             \/ (\E k \in PrivateKey : AskKey(r, k))
      PROVE  UNCHANGED row
  <2>1. CASE PatchPersonal(r, i) \/ PatchTeam(r, i)
    BY <2>1 DEF PatchPersonal, PatchTeam, Enter
  <2>2. CASE SaveFromSite(r, i) \/ Rotate(r, i)
    BY <2>2 DEF SaveFromSite, Rotate, Enter
  <2>3. CASE AskDelete(r, i) \/ AskMoveToAccount(r, i)
    BY <2>3 DEF AskDelete, AskMoveToAccount, Enter
  <2>4. CASE \E c \in Collection : AskMoveToTeam(r, i, c)
    BY <2>4 DEF AskMoveToTeam, Enter
  <2>5. CASE \E k \in PrivateKey : AskKey(r, k)
    BY <2>5 DEF AskKey, Enter
  <2> QED
    BY <1>9, <2>1, <2>2, <2>3, <2>4, <2>5
<1>10. ASSUME NEW r \in Req, NEW k \in PrivateKey, AskKey(r, k) PROVE UNCHANGED row
  BY <1>10 DEF AskKey, Enter
<1>11. CASE UNCHANGED vars
  BY <1>8, <1>11 DEF vars
<1> QED
  BY <1>1, <1>2, <1>3, <1>4, <1>5, <1>6, <1>7, <1>8, <1>9, <1>10, <1>11
  DEF Next, Custody!Next

\* However the requests overlap, the vaults keep the promise of VaultCustody: an
\* entry is in one place at a time, goes from its owner's vault to a team or to an
\* account and never back, is lost by a deletion only, and an SSH key leaves its
\* owner's vault for nowhere.
THEOREM Refinement == Spec => ImplementsCustody
  BY InitRefines, StepRefines, Inductive, PTL DEF Spec, ImplementsCustody, Custody!Spec

-----------------------------------------------------------------------------
(* Requests one at a time.  A handler decides from the row it read what it *)
(* will write later: what is written must still fit the row it is written  *)
(* to.  The invariant says so of each request in flight (Sound), and that  *)
(* a personal entry never has a history of rotations (Tidy).               *)

Tidy(x) == Clean(x) /\ x.past = <<>>

\* y keeps what x holds.
Keeps(x, y) == Contents(y) = Contents(x) /\ (y.type # x.type => x.extras \subseteq y.extras)

Sound(c) ==
    /\ c.at = "update" /\ row[c.row].place = "personal" =>
         /\ Tidy(Updated(row[c.row], c.update))
         /\ ~c.gives => Keeps(row[c.row], Updated(row[c.row], c.update))
    /\ c.at = "move" /\ row[c.row].place = "personal" => Keeps(row[c.row], c.copy)

TidyRows == \A i \in Row : row[i].place = "personal" => Tidy(row[i])

SerialInv == serial => OneByOne /\ TidyRows /\ \A r \in Req : Sound(req[r])

\* The columns after an update.
LEMMA UpdatedAre ==
    ASSUME NEW x \in Entry, NEW u
    PROVE  /\ Updated(x, u).type = Written(u.type, x.type)
           /\ Updated(x, u).extras = (x.extras \ u.clear) \cup u.set
           /\ Updated(x, u).pwd = Written(u.pwd, x.pwd)
           /\ Updated(x, u).blob = Written(u.blob, x.blob)
           /\ Updated(x, u).past = Written(u.past, x.past)
           /\ Updated(x, u).place = x.place
  BY DEF Updated, Entry

LEMMA CreatedTidy ==
    ASSUME NEW i, NEW p, NEW c, NEW b \in Body, b.type # Keep
    PROVE  Tidy(Created(i, p, c, b))
<1> DEFINE pwd == IF HasPassword(b.type) /\ b.pwd # Keep THEN b.pwd ELSE None
           blob == IF b.blob # Keep /\ b.blob.kind = BlobKind(b.type) THEN b.blob ELSE NoBlob
           x == Created(i, p, c, b)
<1>1. b.type \in Form /\ b.type # "SSH_KEY"
  BY BodyIs, Forms
<1>2. x.type = b.type /\ x.extras = b.set \cap Extras(b.type) /\ x.pwd = pwd /\ x.blob = blob
      /\ x.past = <<>>
  BY DEF Created
<1>3. blob.kind \in {"none", BlobKind(b.type)}
  BY DEF NoBlob
<1>4. pwd # None => HasPassword(b.type)
  OBVIOUS
<1> HIDE DEF pwd, blob, x
<1>5. Tidy(x)
  BY <1>1, <1>2, <1>3, <1>4 DEF Tidy, Clean
<1> QED
  BY <1>5 DEF x

\* A conversion leaves no column behind, and takes the value along.
LEMMA PersonalUpdateFits ==
    ASSUME NEW x \in Entry, x.type # "SSH_KEY", x.blob.kind # "key", Tidy(x), NEW b \in Body,
           ~Blocked(x, FormAfter(x, b))
    PROVE  LET y == Updated(x, PersonalUpdate(x, b)) IN
           Tidy(y) /\ (~Gives(b, FormAfter(x, b)) => Keeps(x, y))
<1> DEFINE f == FormAfter(x, b)
           converts == f # x.type
           pwd == IF HasPassword(f)
                  THEN IF b.pwd = Keep /\ converts /\ ~HasPassword(x.type) THEN Single(x) ELSE b.pwd
                  ELSE IF converts THEN None ELSE Keep
           blob == IF HasPassword(f) THEN IF converts THEN NoBlob ELSE Keep
                   ELSE IF Gives(b, f) THEN b.blob
                   ELSE IF converts THEN BlobOf(f, Single(x)) ELSE Keep
           type == IF converts THEN f ELSE Keep
           set == b.set \cap Extras(f)
           clear == Dropped(b, f, converts)
           u == [type |-> type, set |-> set, clear |-> clear, pwd |-> pwd, blob |-> blob,
                 past |-> Keep, to |-> Keep]
           y == Updated(x, u)
<1>1. x.type \in Form /\ Normal(x.type) = x.type
  BY DEF Entry, Normal
<1>2. f \in Form /\ f # "SSH_KEY" /\ (b.type = Keep => ~converts)
  BY <1>1, FormAfterIs, Forms DEF FormAfter
<1>3. PersonalUpdate(x, b) = u
  BY <1>1 DEF PersonalUpdate
<1>4. /\ x.pwd \in Value \cup {None} /\ x.blob \in Plain /\ Single(x) \in Value \cup {None}
      /\ x.extras \subseteq Extras(x.type)
      /\ x.pwd # None => HasPassword(x.type)
      /\ x.blob.kind \in {"none", BlobKind(x.type)}
      /\ x.past = <<>>
  BY <1>1, Forms, PlainBlobs, SingleIs DEF Tidy, Clean, Entry
<1>5. /\ y.type = f
      /\ y.extras = (x.extras \ clear) \cup set
      /\ y.pwd = Written(pwd, x.pwd)
      /\ y.blob = Written(blob, x.blob)
      /\ y.past = <<>>
  <2>1. /\ u.type = type /\ u.set = set /\ u.clear = clear /\ u.pwd = pwd /\ u.blob = blob
        /\ u.past = Keep
    OBVIOUS
  <2>2. Written(type, x.type) = f
    BY <1>1, <1>2, MarkAssumption DEF Written
  <2>3. Written(Keep, x.past) = <<>>
    BY <1>4 DEF Written
  <2> HIDE DEF u, type, set, clear, pwd, blob
  <2> QED
    BY <2>1, <2>2, <2>3, UpdatedAre
<1>6. y.extras \subseteq Extras(f)
  <2>1. x.extras \subseteq Extra /\ set \subseteq Extras(f)
    BY DEF Entry
  <2>2. CASE converts
    <3>1. Extra \ Extras(f) \subseteq clear
      BY <2>2 DEF Dropped
    <3> HIDE DEF clear, set, y, f
    <3> QED
      BY <1>5, <2>1, <3>1
  <2>3. CASE ~converts
    <3>1. Extras(x.type) = Extras(f)
      BY <2>3
    <3> HIDE DEF clear, set, y, f
    <3> QED
      BY <1>4, <1>5, <2>1, <3>1
  <2> QED
    BY <2>2, <2>3
<1>7. y.pwd # None => HasPassword(f)
  <2> SUFFICES ASSUME ~HasPassword(f) PROVE y.pwd = None
    OBVIOUS
  <2>1. CASE converts
    BY <1>5, <2>1, MarkAssumption DEF Written
  <2>2. CASE ~converts
    BY <1>4, <1>5, <2>2 DEF Written
  <2> QED
    BY <2>1, <2>2
<1>8. y.blob.kind \in {"none", BlobKind(f)}
  <2>1. CASE HasPassword(f)
    <3>1. CASE converts
      BY <1>5, <2>1, <3>1, PlainBlobs, MarkAssumption DEF Written, NoBlob
    <3>2. CASE ~converts
      BY <1>4, <1>5, <2>1, <3>2 DEF Written
    <3> QED
      BY <3>1, <3>2
  <2>2. CASE ~HasPassword(f) /\ Gives(b, f)
    BY <1>2, <1>5, <2>2 DEF Written, Gives
  <2>3. CASE ~HasPassword(f) /\ ~Gives(b, f)
    <3>1. CASE converts
      <4>1. BlobOf(f, Single(x)) \in Plain /\ BlobOf(f, Single(x)).kind \in {"none", BlobKind(f)}
        BY <1>2, <1>4, <2>3, BlobOfIs DEF BlobOf, NoBlob
      <4> QED
        BY <1>5, <2>3, <3>1, <4>1, MarkAssumption DEF Written
    <3>2. CASE ~converts
      BY <1>4, <1>5, <2>3, <3>2 DEF Written
    <3> QED
      BY <3>1, <3>2
  <2> QED
    BY <2>1, <2>2, <2>3
<1>9. ASSUME ~Gives(b, f) PROVE Keeps(x, y)
  <2>1. CASE ~converts
    <3>1. y.type = x.type
      BY <1>5, <2>1
    <3>2. CASE HasPassword(f)
      <4>1. y.pwd = x.pwd
        BY <1>5, <1>9, <2>1, <3>2 DEF Written, Gives
      <4> QED
        BY <2>1, <3>1, <3>2, <4>1 DEF Keeps, Contents
    <3>3. CASE ~HasPassword(f)
      <4>1. y.blob = x.blob
        BY <1>5, <1>9, <2>1, <3>3 DEF Written
      <4> QED
        BY <2>1, <3>1, <3>3, <4>1 DEF Keeps, Contents
    <3> QED
      BY <3>2, <3>3
  <2>2. CASE converts
    <3>1. /\ x.extras \subseteq Extras(f)
          /\ ~(x.type = "LIST" /\ x.blob.kind = "items" /\ Len(x.blob.held) > 1)
      BY <1>1, <2>2 DEF Blocked
    <3>2. x.extras = {}
      BY <1>4, <2>2, <3>1 DEF Extras
    <3>3. Contents(x) = IF Single(x) = None THEN <<>> ELSE <<Single(x)>>
      <4>1. CASE HasPassword(x.type)
        BY <4>1 DEF Contents, Single
      <4>2. CASE ~HasPassword(x.type)
        <5>1. /\ x.blob.held \in Seq(Value)
              /\ x.blob.kind = "none" => x.blob.held = <<>>
              /\ x.blob.kind = "text" => Len(x.blob.held) <= 1
          BY <1>4, HeldIs
        <5>2. x.type \in {"LIST", "NOTE"} /\ BlobKind(x.type) \in {"items", "text"}
              /\ (BlobKind(x.type) = "items" <=> x.type = "LIST")
          BY <1>1, <4>2 DEF HasPassword, Form, BlobKind
        <5>3. Len(x.blob.held) <= 1
          BY <1>4, <3>1, <5>1, <5>2
        <5>4. CASE x.blob.held = <<>>
          BY <4>2, <5>4 DEF Contents, Single
        <5>5. CASE x.blob.held # <<>>
          <6>1. x.blob.kind = BlobKind(x.type)
            BY <1>4, <5>1, <5>5
          <6>2. x.blob.held[1] \in Value /\ x.blob.held = <<x.blob.held[1]>>
            BY <5>1, <5>3, <5>5
          <6>3. Single(x) = x.blob.held[1] /\ Single(x) # None
            BY <4>2, <5>5, <6>1, <6>2, MarkAssumption DEF Single
          <6> QED
            BY <4>2, <6>2, <6>3 DEF Contents
        <5> QED
          BY <5>4, <5>5
      <4> QED
        BY <4>1, <4>2
    <3>4. Contents(y) = IF Single(x) = None THEN <<>> ELSE <<Single(x)>>
      <4>1. CASE HasPassword(f)
        <5>1. b.pwd = Keep
          BY <1>9, <4>1 DEF Gives
        <5>2. y.pwd = Single(x)
          <6>1. CASE HasPassword(x.type)
            BY <1>5, <4>1, <5>1, <6>1 DEF Written, Single
          <6>2. CASE ~HasPassword(x.type)
            BY <1>4, <1>5, <2>2, <4>1, <5>1, <6>2, MarkAssumption DEF Written
          <6> QED
            BY <6>1, <6>2
        <5> QED
          BY <1>5, <4>1, <5>2 DEF Contents
      <4>2. CASE ~HasPassword(f)
        <5>1. BlobOf(f, Single(x)) \in Plain
          BY <1>2, <1>4, <4>2, BlobOfIs
        <5>2. y.blob = BlobOf(f, Single(x))
          BY <1>5, <1>9, <2>2, <4>2, <5>1, MarkAssumption DEF Written
        <5> QED
          BY <1>5, <4>2, <5>2 DEF Contents, BlobOf, NoBlob
      <4> QED
        BY <4>1, <4>2
    <3> QED
      BY <3>2, <3>3, <3>4 DEF Keeps
  <2> QED
    BY <2>1, <2>2
<1>10. Tidy(y)
  <2> HIDE DEF y, f
  <2> QED
    BY <1>2, <1>5, <1>6, <1>7, <1>8 DEF Tidy, Clean
<1> QED
  BY <1>3, <1>9, <1>10

\* The extension writes into a LOGIN what a LOGIN carries.
LEMMA SavedTidy ==
    ASSUME NEW x \in Entry, x.type = "LOGIN", Tidy(x), NEW sent \in SUBSET SiteFields,
           NEW v \in Value
    PROVE  Tidy(Updated(x, [type |-> Keep, set |-> sent, clear |-> SiteFields \ sent,
                            pwd |-> v, blob |-> Keep, past |-> Keep, to |-> Keep]))
<1> DEFINE u == [type |-> Keep, set |-> sent, clear |-> SiteFields \ sent,
                 pwd |-> v, blob |-> Keep, past |-> Keep, to |-> Keep]
           y == Updated(x, u)
<1>1. /\ y.type = Written(u.type, x.type)
      /\ y.extras = (x.extras \ u.clear) \cup u.set
      /\ y.blob = Written(u.blob, x.blob)
      /\ y.past = Written(u.past, x.past)
  BY UpdatedAre
<1>2. y.type = "LOGIN" /\ y.blob = x.blob /\ y.past = x.past
  BY <1>1 DEF Written
<1>3. y.extras \subseteq Extra
  BY <1>1 DEF Entry, SiteFields
<1> HIDE DEF y
<1>4. Tidy(y)
  BY <1>2, <1>3 DEF Tidy, Clean, Extras, HasPassword
<1> QED
  BY <1>4 DEF y

\* A move copies what the entry holds.
\* What a move creates.
TeamCopy(x, c) == [x EXCEPT !.place = "team", !.coll = c]
AccountCopy(x) == [x EXCEPT !.place = "account", !.type = "LOGIN", !.blob = NoBlob,
                            !.extras = @ \cap {"username"}]

LEMMA TeamCopyKeeps ==
    ASSUME NEW x \in Entry, NEW c
    PROVE  Keeps(x, TeamCopy(x, c))
<1>1. /\ TeamCopy(x, c).type = x.type /\ TeamCopy(x, c).pwd = x.pwd
      /\ TeamCopy(x, c).blob = x.blob
  BY DEF Entry, TeamCopy
<1> QED
  BY <1>1 DEF Keeps, Contents

LEMMA AccountCopyKeeps ==
    ASSUME NEW x \in Entry, Tidy(x), HasPassword(x.type)
    PROVE  Keeps(x, AccountCopy(x))
<1>1. AccountCopy(x).type = "LOGIN" /\ AccountCopy(x).pwd = x.pwd
  BY DEF Entry, AccountCopy
<1>2. x.type # "LOGIN" => x.extras = {}
  BY DEF Tidy, Clean, Extras, HasPassword
<1> QED
  BY <1>1, <1>2 DEF Keeps, Contents, HasPassword

LEMMA IdleSound == Sound(Idle) /\ Sound(Idle)'
  BY IdleIs DEF Sound

LEMMA PersonalLive ==
    ASSUME TypeOK, NEW i \in Row, row[i].place = "personal"
    PROVE  Live(i) /\ row[i] \in Entry /\ row[i] # Unborn /\ row[i] # Gone
<1>1. Live(i)
  BY DEF Live, Place
<1> QED
  BY <1>1, RowIs

\* A handler enters a request that fits its row; it is the only one in flight.
LEMMA SerialEnter ==
    ASSUME Inv, SerialInv, serial, OneByOne', UNCHANGED serial,
           NEW r \in Req, req[r] = Idle, NEW c, c # Idle, Enter(r, c), Sound(c)
    PROVE  SerialInv'
<1>1. /\ req' = [req EXCEPT ![r] = c] /\ row' = row
      /\ req'[r] = c /\ \A q \in Req \ {r} : req'[q] = req[q]
  BY DEF Enter, Inv, TypeOK
<1>2. \A q \in Req \ {r} : req'[q] = Idle
  BY <1>1 DEF OneByOne
<1>3. \A q \in Req : Sound(req[q])'
  BY <1>1, <1>2, IdleSound DEF Sound
<1>4. TidyRows'
  BY <1>1 DEF SerialInv, TidyRows
<1> QED
  BY <1>3, <1>4 DEF SerialInv

\* A request ends; no other is in flight.
LEMMA SerialEnd ==
    ASSUME Inv, SerialInv, serial, OneByOne', UNCHANGED serial,
           NEW r \in Req, req[r] # Idle, Leave(r), TidyRows'
    PROVE  SerialInv'
<1>1. \A q \in Req : req'[q] = Idle
  BY DEF Leave, Inv, TypeOK, SerialInv, OneByOne
<1>2. \A q \in Req : Sound(req[q])'
  BY <1>1, IdleSound DEF Sound
<1> QED
  BY <1>2 DEF SerialInv

\* No request moves, nor any personal row.
LEMMA SerialAside ==
    ASSUME Inv, SerialInv, serial, OneByOne', UNCHANGED <<serial, req>>, TidyRows',
           \A i \in Row : row[i] # Unborn /\ row'[i].place = "personal" =>
               row'[i] = row[i]
    PROVE  SerialInv'
<1>1. ASSUME NEW q \in Req PROVE Sound(req[q])'
  <2>1. req[q] \in Request /\ Aimed(req[q]) /\ Sound(req[q]) /\ req'[q] = req[q]
    BY DEF Inv, TypeOK, Aims, SerialInv
  <2>2. req[q].at \in {"update", "move"} =>
          /\ req[q].row \in Row /\ row[req[q].row] # Unborn
    BY <2>1, At DEF Aimed
  <2>3. req[q].at \in {"update", "move"} /\ row'[req[q].row].place = "personal" =>
          row'[req[q].row] = row[req[q].row]
    BY <2>2
  <2> QED
    BY <2>1, <2>3 DEF Sound
<1> QED
  BY <1>1 DEF SerialInv

SerialStep(A) == Inv /\ Inv' /\ SerialInv /\ serial /\ OneByOne' /\ UNCHANGED serial /\ A

LEMMA CreateSerial ==
    ASSUME NEW i \in Item,
           SerialStep(CreatePersonal(i) \/ \E c \in Collection : CreateTeam(i, c))
    PROVE  SerialInv'
<1> USE DEF SerialStep
<1>1. PICK p \in {"personal", "team"}, c \in Collection \cup {None}, b \in Body :
        /\ b.type # Keep /\ row[i] = Unborn
        /\ row' = [row EXCEPT ![i] = Created(i, p, c, b)] /\ UNCHANGED <<open, req>>
  <2>1. CASE CreatePersonal(i)
    BY <2>1 DEF CreatePersonal
  <2>2. CASE \E c \in Collection : CreateTeam(i, c)
    BY <2>2 DEF CreateTeam
  <2> QED
    BY <2>1, <2>2
<1>2. Tidy(Created(i, p, c, b))
  BY <1>1, CreatedTidy
<1>3. \A j \in Row : row'[j] = IF j = i THEN Created(i, p, c, b) ELSE row[j]
  BY <1>1 DEF Inv, TypeOK
<1>4. TidyRows'
  BY <1>2, <1>3 DEF SerialInv, TidyRows
<1>5. \A j \in Row : row[j] # Unborn /\ row'[j].place = "personal" => row'[j] = row[j]
  BY <1>1, <1>3
<1> QED
  BY <1>1, <1>4, <1>5, SerialAside

LEMMA DropSerial ==
    ASSUME NEW c \in Collection, SerialStep(DropCollection(c))
    PROVE  SerialInv'
<1> USE DEF SerialStep
<1>1. Clears(Taken(c)) /\ UNCHANGED req
  BY DropTakes DEF DropCollection
<1>2. \A j \in Row : row'[j].place = "personal" => row'[j] = row[j]
  BY <1>1, Blanks DEF Clears
<1>3. TidyRows'
  BY <1>2 DEF SerialInv, TidyRows
<1> QED
  BY <1>1, <1>2, <1>3, SerialAside

LEMMA KeySerial ==
    ASSUME NEW r \in Req,
           SerialStep(\/ \E k \in PrivateKey : AskKey(r, k)
                      \/ \E i \in Item : CreateKey(r, i))
    PROVE  SerialInv'
<1> USE DEF SerialStep
<1>1. ASSUME NEW k \in PrivateKey, AskKey(r, k) PROVE SerialInv'
  <2> DEFINE c == [at |-> "key", key |-> k]
  <2>1. Enter(r, c) /\ req[r] = Idle
    BY <1>1 DEF AskKey
  <2>2. c.at = "key" /\ c # Idle
    BY DEF Idle
  <2> HIDE DEF c
  <2>3. Sound(c)
    BY <2>2 DEF Sound
  <2> QED
    BY <2>1, <2>2, <2>3, SerialEnter
<1>2. ASSUME NEW i \in Item, CreateKey(r, i) PROVE SerialInv'
  <2> DEFINE x == [place |-> "personal", coll |-> None, item |-> i, type |-> "SSH_KEY",
                   extras |-> {}, pwd |-> None,
                   blob |-> [kind |-> "key", held |-> <<req[r].key>>], past |-> <<>>]
  <2>1. row' = [row EXCEPT ![i] = x] /\ Leave(r) /\ req[r] # Idle
    BY <1>2, IdleIs DEF CreateKey
  <2>2. Tidy(x)
    BY DEF Tidy, Clean
  <2> HIDE DEF x
  <2>3. \A j \in Row : row'[j] = IF j = i THEN x ELSE row[j]
    BY <2>1 DEF Inv, TypeOK
  <2>4. TidyRows'
    BY <2>2, <2>3 DEF SerialInv, TidyRows
  <2> QED
    BY <2>1, <2>4, SerialEnd
<1> QED
  BY <1>1, <1>2

\* A change is asked for.
LEMMA UpdateSerial ==
    ASSUME NEW r \in Req, NEW i \in Row, NEW u, NEW g, req[r] = Idle,
           SerialStep(Enter(r, [at |-> "update", row |-> i, update |-> u, gives |-> g])),
           row[i].place = "personal" =>
               Tidy(Updated(row[i], u)) /\ (~g => Keeps(row[i], Updated(row[i], u)))
    PROVE  SerialInv'
<1> DEFINE c == [at |-> "update", row |-> i, update |-> u, gives |-> g]
<1>1. c.at = "update" /\ c.row = i /\ c.update = u /\ c.gives = g /\ c # Idle
  BY DEF Idle
<1>2. Enter(r, c)
  BY DEF SerialStep
<1> HIDE DEF c
<1>3. Sound(c)
  BY <1>1 DEF Sound
<1> QED
  BY <1>1, <1>2, <1>3, SerialEnter DEF SerialStep

LEMMA PatchSerial ==
    ASSUME NEW r \in Req, NEW i \in Row,
           SerialStep(PatchPersonal(r, i) \/ PatchTeam(r, i) \/ SaveFromSite(r, i) \/ Rotate(r, i))
    PROVE  SerialInv'
<1> USE DEF SerialStep
<1>1. CASE PatchPersonal(r, i)
  <2>1. PICK b \in Body :
          /\ ~Blocked(row[i], FormAfter(row[i], b))
          /\ Enter(r, [at |-> "update", row |-> i, update |-> PersonalUpdate(row[i], b),
                       gives |-> Gives(b, FormAfter(row[i], b))])
    BY <1>1 DEF PatchPersonal
  <2>2. req[r] = Idle /\ row[i].place = "personal" /\ row[i].type # "SSH_KEY"
    BY <1>1 DEF PatchPersonal
  <2>3. row[i] \in Entry /\ Tidy(row[i]) /\ row[i].blob.kind # "key"
    BY <2>2, PersonalLive, Editable DEF Inv, SerialInv, TidyRows
  <2>4. /\ Tidy(Updated(row[i], PersonalUpdate(row[i], b)))
        /\ ~Gives(b, FormAfter(row[i], b)) =>
             Keeps(row[i], Updated(row[i], PersonalUpdate(row[i], b)))
    BY <2>1, <2>2, <2>3, PersonalUpdateFits
  <2> QED
    BY <2>1, <2>2, <2>4, UpdateSerial
<1>2. CASE PatchTeam(r, i)
  <2>1. PICK u, g : Enter(r, [at |-> "update", row |-> i, update |-> u, gives |-> g])
    BY <1>2 DEF PatchTeam
  <2>2. req[r] = Idle /\ row[i].place # "personal"
    BY <1>2 DEF PatchTeam
  <2> QED
    BY <2>1, <2>2, UpdateSerial
<1>3. CASE SaveFromSite(r, i)
  <2>1. PICK sent \in SUBSET SiteFields, v \in Value :
          Enter(r, [at |-> "update", row |-> i, gives |-> TRUE,
                    update |-> [type |-> Keep, set |-> sent, clear |-> SiteFields \ sent,
                                pwd |-> v, blob |-> Keep, past |-> Keep, to |-> Keep]])
    BY <1>3 DEF SaveFromSite
  <2>2. req[r] = Idle /\ (row[i].place = "personal" => row[i].type = "LOGIN")
    BY <1>3 DEF SaveFromSite
  <2> DEFINE u == [type |-> Keep, set |-> sent, clear |-> SiteFields \ sent,
                   pwd |-> v, blob |-> Keep, past |-> Keep, to |-> Keep]
  <2>3. row[i].place = "personal" => Tidy(Updated(row[i], u))
    BY <2>2, PersonalLive, SavedTidy DEF Inv, SerialInv, TidyRows
  <2>4. Enter(r, [at |-> "update", row |-> i, update |-> u, gives |-> TRUE])
    BY <2>1
  <2> HIDE DEF u
  <2> QED
    BY <2>2, <2>3, <2>4, UpdateSerial
<1>4. CASE Rotate(r, i)
  <2>1. req[r] = Idle /\ row[i].place # "personal"
    BY <1>4 DEF Rotate
  <2>2. PICK u, g : Enter(r, [at |-> "update", row |-> i, update |-> u, gives |-> g])
    BY <1>4 DEF Rotate
  <2> QED
    BY <2>1, <2>2, UpdateSerial
<1> QED
  BY <1>1, <1>2, <1>3, <1>4

\* A move, or a deletion, is asked for.
LEMMA LeaveSerial ==
    ASSUME NEW r \in Req, NEW i \in Row,
           SerialStep(\/ AskDelete(r, i) \/ AskMoveToAccount(r, i)
                      \/ \E c \in Collection : AskMoveToTeam(r, i, c))
    PROVE  SerialInv'
<1> USE DEF SerialStep
<1>1. ASSUME NEW y, Enter(r, [at |-> "move", row |-> i, copy |-> y]), req[r] = Idle,
             Keeps(row[i], y)
      PROVE  SerialInv'
  <2> DEFINE c == [at |-> "move", row |-> i, copy |-> y]
  <2>1. c.at = "move" /\ c.row = i /\ c.copy = y /\ c # Idle
    BY DEF Idle
  <2>2. Enter(r, c)
    BY <1>1
  <2> HIDE DEF c
  <2>3. Sound(c)
    BY <1>1, <2>1 DEF Sound
  <2> QED
    BY <1>1, <2>1, <2>2, <2>3, SerialEnter
<1>2. CASE AskDelete(r, i)
  <2> DEFINE c == [at |-> "delete", row |-> i]
  <2>1. c.at = "delete" /\ c # Idle
    BY DEF Idle
  <2>2. Enter(r, c) /\ req[r] = Idle
    BY <1>2 DEF AskDelete
  <2> HIDE DEF c
  <2>3. Sound(c)
    BY <2>1 DEF Sound
  <2> QED
    BY <2>1, <2>2, <2>3, SerialEnter
<1>3. ASSUME row[i].place = "personal" PROVE row[i] \in Entry /\ Tidy(row[i])
  BY <1>3, PersonalLive DEF Inv, SerialInv, TidyRows
<1>4. CASE AskMoveToAccount(r, i)
  <2>1. row[i].place = "personal" /\ HasPassword(row[i].type) /\ req[r] = Idle
    BY <1>4 DEF AskMoveToAccount
  <2>2. Keeps(row[i], AccountCopy(row[i]))
    BY <1>3, <2>1, AccountCopyKeeps, Zenon
  <2>3. Enter(r, [at |-> "move", row |-> i, copy |-> AccountCopy(row[i])])
    BY <1>4, Zenon DEF AskMoveToAccount, AccountCopy
  <2> QED
    BY <1>1, <2>1, <2>2, <2>3, Zenon
<1>5. ASSUME NEW c \in Collection, AskMoveToTeam(r, i, c) PROVE SerialInv'
  <2>1. row[i].place = "personal" /\ req[r] = Idle
    BY <1>5, Zenon DEF AskMoveToTeam
  <2>2. Keeps(row[i], TeamCopy(row[i], c))
    BY <1>3, <2>1, TeamCopyKeeps, Zenon
  <2>3. Enter(r, [at |-> "move", row |-> i, copy |-> TeamCopy(row[i], c)])
    BY <1>5, Zenon DEF AskMoveToTeam, TeamCopy
  <2> QED
    BY <1>1, <2>1, <2>2, <2>3, Zenon
<1> QED
  BY <1>2, <1>4, <1>5

\* What the end of a change leaves of its row.
LEMMA EndedUpdate ==
    ASSUME Inv, NEW r \in Req, EndUpdate(r), row[req[r].row].place = "personal"
    PROVE  /\ req[r].row \in Row
           /\ \A j \in Row \ {req[r].row} : row'[j] = row[j]
           /\ \/ row'[req[r].row] = row[req[r].row]
              \/ row'[req[r].row] = Updated(row[req[r].row], req[r].update)
<1>1. req[r].row \in Row
  BY At DEF EndUpdate, Inv, TypeOK
<1> QED
  BY <1>1 DEF EndUpdate, Inv, TypeOK

LEMMA EndUpdateSerial ==
    ASSUME NEW r \in Req, SerialStep(EndUpdate(r))
    PROVE  SerialInv'
<1> USE DEF SerialStep
<1>1. req[r] # Idle /\ Leave(r) /\ req[r].at = "update" /\ req[r] \in Request /\ Sound(req[r])
  BY IdleIs DEF EndUpdate, Inv, TypeOK, SerialInv
<1>2. TidyRows'
  <2>1. CASE row[req[r].row].place = "personal"
    <3>1. /\ req[r].row \in Row
          /\ \A j \in Row \ {req[r].row} : row'[j] = row[j]
          /\ \/ row'[req[r].row] = row[req[r].row]
             \/ row'[req[r].row] = Updated(row[req[r].row], req[r].update)
      BY <2>1, EndedUpdate
    <3>2. Tidy(Updated(row[req[r].row], req[r].update)) /\ Tidy(row[req[r].row])
      BY <1>1, <2>1, <3>1 DEF Sound, SerialInv, TidyRows
    <3> QED
      BY <3>1, <3>2 DEF SerialInv, TidyRows
  <2>2. CASE row[req[r].row].place # "personal"
    <3>1. CASE UNCHANGED row
      BY <3>1 DEF SerialInv, TidyRows
    <3>2. CASE ~UNCHANGED row
      <4>1. PICK i \in Row, x \in Entry : /\ x.place = row[i].place
                                          /\ row' = [row EXCEPT ![i] = x]
        BY <3>2, UpdateIs
      <4>2. i = req[r].row
        <5>1. row' = [row EXCEPT ![req[r].row] = Updated(@, req[r].update)]
          BY <3>2 DEF EndUpdate
        <5>2. row'[i] # row[i]
          BY <3>2, <4>1 DEF Inv, TypeOK
        <5> QED
          BY <5>1, <5>2 DEF Inv, TypeOK
      <4>3. \A j \in Row : row'[j].place = "personal" => row'[j] = row[j]
        BY <2>2, <4>1, <4>2 DEF Inv, TypeOK
      <4> QED
        BY <4>3 DEF SerialInv, TidyRows
    <3> QED
      BY <3>1, <3>2
  <2> QED
    BY <2>1, <2>2
<1> QED
  BY <1>1, <1>2, SerialEnd

LEMMA EndSerial ==
    ASSUME NEW r \in Req, SerialStep(EndDelete(r) \/ \E j \in MovedId : EndMove(r, j))
    PROVE  SerialInv'
<1> USE DEF SerialStep
<1>1. req[r] # Idle /\ Leave(r)
  BY IdleIs DEF EndDelete, EndMove
<1>2. \A j \in Row : row'[j].place = "personal" => row'[j] = row[j]
  <2>1. CASE EndDelete(r)
    BY <2>1, Blanks DEF EndDelete, Inv, TypeOK
  <2>2. ASSUME NEW j \in MovedId, EndMove(r, j)
        PROVE  \A k \in Row : row'[k].place = "personal" => row'[k] = row[k]
    <3>1. CASE CanMove(r)
      <4>1. PICK i \in Row, x \in Entry :
                 /\ x.place \in {"team", "account"} /\ Goes(i, j, x) /\ row[j] = Unborn
        BY <2>2, <3>1, MoveIs
      <4> QED
        BY <4>1, Blanks DEF Goes, Inv, TypeOK
    <3>2. CASE ~CanMove(r)
      BY <2>2, <3>2 DEF EndMove
    <3> QED
      BY <3>1, <3>2
  <2> QED
    BY <2>1, <2>2
<1>3. TidyRows'
  BY <1>2 DEF SerialInv, TidyRows
<1> QED
  BY <1>1, <1>3, SerialEnd

LEMMA SerialNext == Inv /\ SerialInv /\ [MCNext]_<<vars, serial>> => SerialInv'
<1> SUFFICES ASSUME Inv, SerialInv, [MCNext]_<<vars, serial>> PROVE SerialInv'
  OBVIOUS
<1>1. CASE UNCHANGED <<vars, serial>>
  BY <1>1 DEF vars, SerialInv, TidyRows, Sound, OneByOne
<1>2. CASE MCNext /\ ~serial
  BY <1>2 DEF MCNext, SerialInv
<1>3. CASE MCNext /\ serial
  <2>1. Next /\ Inv /\ Inv' /\ SerialInv /\ serial /\ OneByOne' /\ UNCHANGED serial
    BY <1>3, StepInv DEF MCNext
  <2>2. ASSUME NEW i \in Item, CreatePersonal(i) \/ \E c \in Collection : CreateTeam(i, c)
        PROVE  SerialInv'
    BY <2>1, <2>2, CreateSerial DEF SerialStep
  <2>3. ASSUME NEW c \in Collection, DropCollection(c) PROVE SerialInv'
    BY <2>1, <2>3, DropSerial DEF SerialStep
  <2>4. ASSUME NEW r \in Req, (\E k \in PrivateKey : AskKey(r, k)) \/ \E i \in Item : CreateKey(r, i)
        PROVE  SerialInv'
    BY <2>1, <2>4, KeySerial DEF SerialStep
  <2>5. ASSUME NEW r \in Req, EndUpdate(r) PROVE SerialInv'
    BY <2>1, <2>5, EndUpdateSerial DEF SerialStep
  <2>6. ASSUME NEW r \in Req, EndDelete(r) \/ \E j \in MovedId : EndMove(r, j) PROVE SerialInv'
    BY <2>1, <2>6, EndSerial DEF SerialStep
  <2>7. ASSUME NEW r \in Req, NEW i \in Row,
               PatchPersonal(r, i) \/ PatchTeam(r, i) \/ SaveFromSite(r, i) \/ Rotate(r, i)
        PROVE  SerialInv'
    BY <2>1, <2>7, PatchSerial DEF SerialStep
  <2>8. ASSUME NEW r \in Req, NEW i \in Row,
               \/ AskDelete(r, i) \/ AskMoveToAccount(r, i)
               \/ \E c \in Collection : AskMoveToTeam(r, i, c)
        PROVE  SerialInv'
    BY <2>1, <2>8, LeaveSerial DEF SerialStep
  <2> QED
    BY <2>1, <2>2, <2>3, <2>4, <2>5, <2>6, <2>7, <2>8 DEF Next
<1> QED
  BY <1>1, <1>2, <1>3

LEMMA SerialInit == MCInit => SerialInv
<1> SUFFICES ASSUME MCInit PROVE SerialInv
  OBVIOUS
<1>1. OneByOne /\ \A r \in Req : Sound(req[r])
  BY IdleSound DEF MCInit, Init, OneByOne
<1>2. TidyRows
  BY Blanks DEF MCInit, Init, TidyRows
<1> QED
  BY <1>1, <1>2 DEF SerialInv

LEMMA SerialAlways == MCSpec => [](Inv /\ SerialInv)
<1>1. MCInit => Inv /\ SerialInv
  BY InitInv, SerialInit DEF MCInit
<1>2. Inv /\ SerialInv /\ [MCNext]_<<vars, serial>> => Inv' /\ SerialInv'
  <2>1. [MCNext]_<<vars, serial>> => [Next]_vars
    BY DEF MCNext
  <2> QED
    BY <2>1, StepInv, SerialNext
<1> QED
  BY <1>1, <1>2, PTL DEF MCSpec

\* Requests one at a time leave every personal entry with what its form carries and
\* nothing else, whatever the conversions and whoever the client.
THEOREM CleanWhenSerial == MCSpec => []SerialClean
<1>1. SerialInv => SerialClean
  BY DEF SerialInv, TidyRows, Tidy, SerialClean, In
<1> QED
  BY <1>1, SerialAlways, PTL

-----------------------------------------------------------------------------
(* The values of an entry, over the end of a request.                      *)

LEMMA KeepsItself == \A x : Keeps(x, x)
  BY DEF Keeps

\* Of the rows that live, one is the request's entry.
LEMMA OnlyRow ==
    ASSUME Inv, NEW i \in Row, row[i].place = "personal",
           NEW j \in Row, row[j].place \in Place, row[j].item = row[i].item
    PROVE  i = j
  BY DEF Inv, Identity, Live, Place

\* A request that may keep its entry's values leaves by writing or moving.
LEMMA OnlyEnds ==
    ASSUME Inv, Next, NEW r \in Req, req[r].at \in {"update", "move"}, req'[r] = Idle
    PROVE  EndUpdate(r) \/ \E j \in MovedId : EndMove(r, j)
<1>1. req[r] # Idle /\ req' # req
  BY IdleIs
<1>2. ASSUME NEW q \in Req, NEW c, Enter(q, c), req[q] = Idle PROVE FALSE
  <2>1. req' = [req EXCEPT ![q] = c]
    BY <1>2 DEF Enter
  <2> QED
    BY <1>1, <1>2, <2>1 DEF Inv, TypeOK
<1>3. ASSUME NEW q \in Req, Leave(q), q # r PROVE FALSE
  BY <1>1, <1>3 DEF Leave, Inv, TypeOK
<1>4. ASSUME NEW i \in Item, CreatePersonal(i) \/ \E c \in Collection : CreateTeam(i, c)
      PROVE  FALSE
  BY <1>1, <1>4 DEF CreatePersonal, CreateTeam
<1>5. ASSUME NEW c \in Collection, DropCollection(c) PROVE FALSE
  BY <1>1, <1>5 DEF DropCollection
<1>6. ASSUME NEW q \in Req, NEW k \in PrivateKey, AskKey(q, k) PROVE FALSE
  BY <1>2, <1>6, Zenon DEF AskKey
<1>7. ASSUME NEW q \in Req, NEW i \in Item, CreateKey(q, i) PROVE FALSE
  BY <1>3, <1>7 DEF CreateKey
<1>8. ASSUME NEW q \in Req, EndDelete(q) PROVE FALSE
  BY <1>3, <1>8 DEF EndDelete
<1>9. ASSUME NEW q \in Req, NEW i \in Row,
             PatchPersonal(q, i) \/ PatchTeam(q, i) \/ SaveFromSite(q, i) \/ Rotate(q, i)
      PROVE  FALSE
  <2>1. CASE PatchPersonal(q, i)
    BY <1>2, <2>1, Zenon DEF PatchPersonal
  <2>2. CASE PatchTeam(q, i)
    BY <1>2, <2>2, Zenon DEF PatchTeam
  <2>3. CASE SaveFromSite(q, i)
    BY <1>2, <2>3, Zenon DEF SaveFromSite
  <2>4. CASE Rotate(q, i)
    BY <1>2, <2>4, Zenon DEF Rotate
  <2> QED
    BY <1>9, <2>1, <2>2, <2>3, <2>4
<1>10. ASSUME NEW q \in Req, NEW i \in Row,
              \/ AskDelete(q, i) \/ AskMoveToAccount(q, i)
              \/ \E c \in Collection : AskMoveToTeam(q, i, c)
       PROVE  FALSE
  <2>1. CASE AskDelete(q, i)
    BY <1>2, <2>1, Zenon DEF AskDelete
  <2>2. CASE AskMoveToAccount(q, i)
    BY <1>2, <2>2, Zenon DEF AskMoveToAccount
  <2>3. ASSUME NEW c \in Collection, AskMoveToTeam(q, i, c) PROVE FALSE
    BY <1>2, <2>3, Zenon DEF AskMoveToTeam
  <2> QED
    BY <1>10, <2>1, <2>2, <2>3
<1>11. ASSUME NEW q \in Req, EndUpdate(q), q # r PROVE FALSE
  BY <1>3, <1>11 DEF EndUpdate
<1>12. ASSUME NEW q \in Req, NEW j \in MovedId, EndMove(q, j), q # r PROVE FALSE
  BY <1>3, <1>12 DEF EndMove
<1> QED
  BY <1>4, <1>5, <1>6, <1>7, <1>8, <1>9, <1>10, <1>11, <1>12 DEF Next

\* What every row of the entry holds after a write that gives no value.
LEMMA UpdateKeeps ==
    ASSUME Inv, SerialInv, serial, NEW r \in Req, EndUpdate(r), ~req[r].gives,
           row[req[r].row].place = "personal",
           NEW j \in Row, row'[j].place \in Place, row'[j].item = row[req[r].row].item
    PROVE  Keeps(row[req[r].row], row'[j])
<1>1. /\ req[r].row \in Row
      /\ \A k \in Row \ {req[r].row} : row'[k] = row[k]
      /\ \/ row'[req[r].row] = row[req[r].row]
         \/ row'[req[r].row] = Updated(row[req[r].row], req[r].update)
  BY EndedUpdate
<1>2. j = req[r].row
  BY <1>1, OnlyRow
<1>3. Keeps(row[req[r].row], Updated(row[req[r].row], req[r].update))
  BY DEF SerialInv, Sound, EndUpdate
<1> QED
  BY <1>1, <1>2, <1>3, KeepsItself

\* And after a move.
LEMMA MoveKeeps ==
    ASSUME Inv, SerialInv, serial, NEW r \in Req, NEW k \in MovedId, EndMove(r, k),
           row[req[r].row].place = "personal",
           NEW j \in Row, row'[j].place \in Place, row'[j].item = row[req[r].row].item
    PROVE  Keeps(row[req[r].row], row'[j])
<1>1. req[r].row \in Row /\ k \in Row
  BY At DEF EndMove, Inv, TypeOK, Row
<1>2. Keeps(row[req[r].row], req[r].copy)
  BY DEF SerialInv, Sound, EndMove
<1>3. CASE ~CanMove(r)
  <2>1. row' = row
    BY <1>3 DEF EndMove
  <2>2. j = req[r].row
    BY <1>1, <2>1, OnlyRow
  <2> QED
    BY <2>1, <2>2, KeepsItself
<1>4. CASE CanMove(r)
  <2>1. row' = [row EXCEPT ![req[r].row] = Gone, ![k] = req[r].copy] /\ row[k] = Unborn
    BY <1>4 DEF EndMove
  <2>2. req[r].row # k
    BY <2>1, Blanks
  <2>3. j # req[r].row
    BY <1>1, <2>1, <2>2, Blanks DEF Place, Inv, TypeOK
  <2>4. CASE j = k
    BY <1>1, <1>2, <2>1, <2>4 DEF Inv, TypeOK
  <2>5. CASE j # k
    <3>1. row'[j] = row[j]
      BY <2>1, <2>3, <2>5 DEF Inv, TypeOK
    <3>2. j = req[r].row
      BY <1>1, <3>1, OnlyRow
    <3> QED
      BY <2>3, <3>2
  <2> QED
    BY <2>4, <2>5
<1> QED
  BY <1>3, <1>4

LEMMA StepKeeps ==
    ASSUME Inv, SerialInv, serial, Next
    PROVE  KeepsContents("personal")
<1> SUFFICES ASSUME NEW r \in Req,
                    req[r].at = "move" \/ (req[r].at = "update" /\ ~req[r].gives),
                    req'[r] = Idle, row[req[r].row].place = "personal",
                    NEW j \in Row, row'[j].place \in Place,
                    row'[j].item = row[req[r].row].item
             PROVE  Keeps(row[req[r].row], row'[j])
  BY DEF KeepsContents, Keeps
<1>1. EndUpdate(r) \/ \E k \in MovedId : EndMove(r, k)
  BY OnlyEnds
<1>2. CASE EndUpdate(r)
  BY <1>2, UpdateKeeps DEF EndUpdate
<1>3. ASSUME NEW k \in MovedId, EndMove(r, k) PROVE Keeps(row[req[r].row], row'[j])
  BY <1>3, MoveKeeps
<1> QED
  BY <1>1, <1>2, <1>3

\* Requests one at a time: no conversion and no move of a personal entry loses a value
\* it was not given a new one for.
THEOREM ContentsWhenSerial == MCSpec => SerialContents
<1>1. Inv /\ SerialInv /\ [MCNext]_<<vars, serial>> => [serial => KeepsContents("personal")]_vars
  BY StepKeeps DEF MCNext, vars
<1> QED
  BY <1>1, SerialAlways, PTL DEF MCSpec, SerialContents
=============================================================================
