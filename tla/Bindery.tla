------------------------------ MODULE Bindery ------------------------------
(***************************************************************************)
(* The bindery: the four dbm files of src/src/nwdbm.c and the requests of   *)
(* src/src/nwbind.c that read and write them.                               *)
(*                                                                         *)
(* nwbind handles one request at a time, but a request writes several       *)
(* records in several files, and nwbind may be killed between two of them.  *)
(* A request is therefore the sequence of its writes; it is carried out     *)
(* completely, or a prefix of it is followed by a restart.                  *)
(*                                                                         *)
(* A member of Name is the pair (name, type) of an object; all are users or *)
(* groups.  Whether a property is a set is a flag of its record, which the  *)
(* client chooses; the calls for values and for members do not look at it.  *)
(***************************************************************************)
EXTENDS Integers, Sequences, FiniteSets, SequencesExt, Functions

CONSTANTS
  Conn,         \* connections
  Name,         \* names of objects
  Supervisor,   \* the name of the supervisor of the ini file
  Everyone,     \* the group EVERYONE
  Server,       \* names of servers, which nwserv enters and deletes
  NetAddress,   \* the property of a server
  ClientProp,   \* the properties clients ask for
  LoginName,    \* the names clients log in with
  PropName,     \* names of properties
  GroupMembers, GroupsImIn, SecurityEquals,  \* the three sets of a group
  ObjSecurity,  \* securities of created objects: <<read, write>> levels
  PropSecurity, \* securities of created properties
  Dynamic,      \* values of the dynamic flag
  Written,      \* what clients write into a segment
  MaxId,        \* bound on object ids
  MaxWrites,    \* bound on the requests that write
  KillCost,     \* bound: requests that one cut off by a kill counts for
  MaxPropId,    \* the largest property id (255)
  SegSize,      \* members in one value segment (32)
  MaxSeg        \* segments of one value (255)

Segment == [1..SegSize -> 0..MaxId]

ASSUME BinderyConstants ==
  /\ {Supervisor, Everyone} \cup Server \subseteq Name
  /\ {NetAddress, GroupMembers, GroupsImIn, SecurityEquals} \cup ClientProp \subseteq PropName
  /\ MaxId \in Nat \ {0} /\ MaxWrites \in Nat /\ KillCost \in Nat \ {0} /\ MaxPropId \in Nat \ {0}
  /\ SegSize \in Nat \ {0} /\ MaxSeg \in Nat \ {0}
  /\ Dynamic \subseteq BOOLEAN
  /\ Written \subseteq Segment

VARIABLES
  db,     \* the files nwobj, nwiobj, nwprop and nwval; an object or a
          \* property is [name, security, dynamic] and, for a property, set;
          \* a value is a segment, numbered from 0
  user,   \* object_id of every connection, 0 before the login
  su,     \* id_flags & 1 of every connection: supervisor equivalence
  torn,   \* history: the deletion of a value of several segments was cut off
  loose,  \* history: the properties whose cells the set calls did not fill
  writes  \* requests that wrote, for the bound

vars == <<db, user, su, torn, loose, writes>>

Id == 1..MaxId
Blank == [i \in 1..SegSize |-> 0]   \* a segment without members

-----------------------------------------------------------------------------
(* The dbm files and the writes to them.                                    *)

Store(f, k, v) == <<[file |-> f, key |-> k, data |-> {v}]>>
Delete(f, k) == <<[file |-> f, key |-> k, data |-> {}]>>

(* One store or delete of the dbm library.                                  *)
Write(d, w) ==
  [d EXCEPT ![w.file] =
     IF w.data = {} THEN [k \in DOMAIN @ \ {w.key} |-> @[k]]
     ELSE [k \in DOMAIN @ \cup {w.key} |-> IF k = w.key THEN CHOOSE v \in w.data : TRUE ELSE @[k]]]

WriteAll(d, ws) ==
  LET after[i \in 0..Len(ws)] == IF i = 0 THEN d ELSE Write(after[i - 1], ws[i])
  IN  after[Len(ws)]

PropsOf(d, id) == {k \in DOMAIN d.prop : k[1] = id}
Named(d, id, p) == {k \in PropsOf(d, id) : d.prop[k].name = p}
Owners(d, n) == {id \in DOMAIN d.obj : d.obj[id].name = n}

(* The members stored in the segments of the property with key k.           *)
Members(d, k) ==
  UNION {Range(d.val[<<k[1], k[2], s>>]) : s \in
           {s \in 1..MaxSeg : <<k[1], k[2], s>> \in DOMAIN d.val}} \ {0}

SetKeys(d) == {k \in DOMAIN d.prop : d.prop[k].set}

(* The properties that are a set in one of d and e only.                    *)
Flagged(d, e) == {k \in DOMAIN d.prop \cap DOMAIN e.prop : d.prop[k].set # e.prop[k].set}

-----------------------------------------------------------------------------
(* Finding objects and properties.                                          *)

(* Mutant of IndexHit: the object is not compared with the name.            *)
IndexHitAny(d, n) == n \in DOMAIN d.iobj /\ d.iobj[n] \in DOMAIN d.obj

(* The index knows the name, and its object has that name.                  *)
IndexHit(d, n) ==
  /\ n \in DOMAIN d.iobj
  /\ d.iobj[n] \in DOMAIN d.obj
  /\ d.obj[d.iobj[n]].name = n

(* find_obj_id: by the index or else by a scan; 0 when there is none.       *)
find_obj_id(d, n) ==
  IF IndexHit(d, n) THEN d.iobj[n]
  ELSE IF Owners(d, n) = {} THEN 0
  ELSE Min(Owners(d, n))

(* What find_obj_id writes: the index entry that it had to look for.        *)
Reindex(d, n) ==
  IF IndexHit(d, n) \/ Owners(d, n) = {} THEN <<>>
  ELSE Store("iobj", n, find_obj_id(d, n))

(* b_acc for connection c: read or write access at a security level.        *)
b_acc(c, id, security, forwrite) ==
  LET level == security[IF forwrite THEN 2 ELSE 1]
  IN  \/ level = 0
      \/ level = 1 /\ user[c] # 0
      \/ level = 2 /\ (user[c] = id \/ su[c])
      \/ level = 3 /\ su[c]

(* find_first_prop_id: properties the connection may not see are skipped.   *)
find_first_prop_id(c, id, p) ==
  {k \in Named(db, id, p) : b_acc(c, id, db.prop[k].security, FALSE)}

-----------------------------------------------------------------------------
(* The writes of the operations.                                            *)

(* Values are deleted from segment 1 on, up to the first that is missing.   *)
LastSeg(d, k) ==
  Max({s \in 0..MaxSeg : \A i \in 1..s : <<k[1], k[2], i>> \in DOMAIN d.val})

ValWrites(d, k) ==
  [s \in 1..LastSeg(d, k) |-> Delete("val", <<k[1], k[2], s>>)[1]]

InOrder(keys) == SetToSortSeq(keys, LAMBDA a, b : a[2] < b[2])

(* loc_delete_property: first the values of all the properties, then the    *)
(* properties.  The property id 0 is not reached by its loops, and neither  *)
(* is segment 0 of a value.                                                 *)
loc_delete_property(d, keys) ==
  LET ks == InOrder({k \in keys : k[2] # 0})
  IN  FlattenSeq([i \in DOMAIN ks |-> ValWrites(d, ks[i])])
        \o FlattenSeq([i \in DOMAIN ks |-> Delete("prop", ks[i])])

(* Mutant of Shifted: one member too many is shifted out.                   *)
ShiftedTwice(seg, i) ==
  [j \in 1..SegSize |-> IF j < i THEN seg[j]
                        ELSE IF j + 1 < SegSize THEN seg[j + 2] ELSE 0]

(* A segment without its i-th member, the others moved up.                  *)
Shifted(seg, i) ==
  [j \in 1..SegSize |-> IF j < i THEN seg[j]
                        ELSE IF j < SegSize THEN seg[j + 1] ELSE 0]

(* prop_delete_member: the first occurrence in the segments that follow     *)
(* each other.                                                              *)
prop_delete_member(d, k, m) ==
  LET at == {<<s, i>> \in (1..LastSeg(d, k)) \X (1..SegSize) :
               d.val[<<k[1], k[2], s>>][i] = m}
      s  == Min({x[1] : x \in at})
      i  == Min({x[2] : x \in {y \in at : y[1] = s}})
  IN  IF at = {} THEN <<>>
      ELSE Store("val", <<k[1], k[2], s>>, Shifted(d.val[<<k[1], k[2], s>>], i))

(* The sets that are left when the properties of an object are deleted.     *)
SetsLeft(d, id) == SetToSeq({k \in SetKeys(d) : k[1] # id \/ k[2] = 0})

(* Mutant of loc_delete_obj: the object goes first.                         *)
ObjectFirst(d, id) ==
  LET ks == SetsLeft(d, id)
  IN  Delete("obj", id) \o loc_delete_property(d, PropsOf(d, id))
        \o FlattenSeq([i \in DOMAIN ks |-> prop_delete_member(d, ks[i], id)])
        \o Delete("iobj", d.obj[id].name)

(* loc_delete_obj: its properties, its memberships, the object, the index.  *)
loc_delete_obj(d, id) ==
  LET ks == SetsLeft(d, id)
  IN  loc_delete_property(d, PropsOf(d, id))
        \o FlattenSeq([i \in DOMAIN ks |-> prop_delete_member(d, ks[i], id)])
        \o Delete("obj", id)
        \o Delete("iobj", d.obj[id].name)

(* prop_add_member: the first empty cell, else a new segment.               *)
prop_add_member(d, k, m) ==
  LET free == {s \in 1..LastSeg(d, k) :
                 \E i \in 1..SegSize : d.val[<<k[1], k[2], s>>][i] = 0}
      s    == IF free = {} THEN LastSeg(d, k) + 1 ELSE Min(free)
      key  == <<k[1], k[2], s>>
      seg  == IF free = {} THEN Blank ELSE d.val[key]
      i    == Min({j \in 1..SegSize : seg[j] = 0})
  IN  IF s > MaxSeg THEN <<>> ELSE Store("val", key, [seg EXCEPT ![i] = m])

(* ins_prop_val: a segment above 1 follows the one before it; erase deletes *)
(* those behind it.  Nobody asks whether the property is a set.             *)
ins_prop_val(d, k, s, seg, erase) ==
  LET behind == IF erase
                  THEN {t \in s + 1..MaxSeg : \A u \in s + 1..t :
                          <<k[1], k[2], u>> \in DOMAIN d.val}
                  ELSE {}
  IN  IF s > 1 /\ <<k[1], k[2], s - 1>> \notin DOMAIN d.val THEN <<>>
      ELSE Store("val", <<k[1], k[2], s>>, seg)
             \o FlattenSeq([i \in 1..Cardinality(behind) |->
                              Delete("val", <<k[1], k[2], s + i>>)])

(* The property id nw_create_obj_prop takes: the lowest free one from 1 on, *)
(* cut to a byte when there is none.                                        *)
FreePropId(d, id) ==
  Min(1..MaxPropId + 1 \ {k[2] : k \in PropsOf(d, id)}) % (MaxPropId + 1)

(* nw_create_obj_prop: the key of the property, and the write.  One that    *)
(* exists gets the new security and flags, whatever its values are; and the *)
(* id 0 may be that of another property, which is written over.             *)
PropKey(d, id, p) ==
  IF Named(d, id, p) # {} THEN CHOOSE k \in Named(d, id, p) : TRUE
  ELSE <<id, FreePropId(d, id)>>

nw_create_obj_prop(d, id, p, security, dynamic, set) ==
  LET prop == [name |-> p, security |-> security, dynamic |-> dynamic, set |-> set]
  IN  IF \E k \in Named(d, id, p) : d.prop[k] = prop THEN <<>>
      ELSE Store("prop", PropKey(d, id, p), prop)

(* The first free object id.                                                *)
FreeIds(d, from) == {i \in from..MaxId : i \notin DOMAIN d.obj}

(* nw_create_obj after its tests.                                           *)
nw_create_obj(d, n, from, security, dynamic) ==
  LET id == Min(FreeIds(d, from))
  IN  Store("obj", id, [name |-> n, security |-> security, dynamic |-> dynamic])
        \o Store("iobj", n, id)

-----------------------------------------------------------------------------
(* The start of the server.                                                 *)

(* nw_init_dbm_1: dynamic objects and then dynamic properties are deleted,  *)
(* and the security of users is corrected.                                  *)
DeleteObjs(d, ids) ==
  IF ids = {} THEN d ELSE FoldSet(LAMBDA id, e : WriteAll(e, loc_delete_obj(e, id)), d, ids)

StaticObjs(d) ==
  LET corrected == [d EXCEPT !.obj = [i \in DOMAIN @ |->
                      IF @[i].dynamic \/ @[i].name = Everyone THEN @[i]
                      ELSE [@[i] EXCEPT !.security = <<1, 3>>]]]
  IN  DeleteObjs(corrected, {i \in DOMAIN d.obj : d.obj[i].dynamic})

nw_init_dbm_1(d) ==
  LET e == StaticObjs(d)
  IN  FoldSet(LAMBDA k, f : WriteAll(f, loc_delete_property(f, {k})),
              e, {k \in DOMAIN e.prop : e.prop[k].dynamic})

(* check_compress_bindery: properties without an object go, and so do       *)
(* values without a property and segments 0; sets are written anew, without *)
(* holes, without repetitions and without members that do not exist.        *)
Listed(d, k) ==
  LET cells == FlattenSeq([s \in 1..MaxSeg |->
                 IF <<k[1], k[2], s>> \in DOMAIN d.val
                   THEN [i \in 1..SegSize |-> d.val[<<k[1], k[2], s>>][i]]
                   ELSE <<>>])
      keep  == {i \in DOMAIN cells : cells[i] \in DOMAIN d.obj
                                      /\ \A j \in 1..i - 1 : cells[j] # cells[i]}
  IN  [n \in 1..Cardinality(keep) |->
         cells[CHOOSE i \in keep : Cardinality({j \in keep : j <= i}) = n]]

Packed(list) ==
  [s \in 1..(Len(list) + SegSize - 1) \div SegSize |->
    [i \in 1..SegSize |-> IF (s - 1) * SegSize + i <= Len(list)
                            THEN list[(s - 1) * SegSize + i] ELSE 0]]

check_compress_bindery(d) ==
  LET e     == WriteAll(d, loc_delete_property(d, {k \in DOMAIN d.prop : k[1] \notin DOMAIN d.obj}))
      items == {v \in DOMAIN e.val :
                  v[3] # 0 /\ <<v[1], v[2]>> \in DOMAIN e.prop \ SetKeys(e)}
      sets  == UNION {{<<k[1], k[2], s>> : s \in DOMAIN Packed(Listed(e, k))} : k \in SetKeys(e)}
  IN  [e EXCEPT !.val = [v \in items \cup sets |->
         IF v \in items THEN e.val[v] ELSE Packed(Listed(e, <<v[1], v[2]>>))[v[3]]]]

(* nw_new_obj with a wanted id: the database and the id of the name.        *)
nw_new_obj(d, n, wanted) ==
  IF Owners(d, n) # {} \/ FreeIds(d, wanted) = {} THEN d
  ELSE WriteAll(d, nw_create_obj(d, n, wanted, <<1, 3>>, FALSE))

(* nw_new_add_prop_member: the set is made when it is missing.              *)
nw_new_add_prop_member(d, id, p, security, m) ==
  LET k == PropKey(d, id, p)
      e == WriteAll(d, nw_create_obj_prop(d, id, p, security, FALSE, TRUE))
  IN  IF m \in Members(e, k) THEN e ELSE WriteAll(e, prop_add_member(e, k, m))

add_user_to_group(d, u, g) ==
  nw_new_add_prop_member(
    nw_new_add_prop_member(
      nw_new_add_prop_member(d, u, GroupsImIn, <<1, 3>>, g),
      u, SecurityEquals, <<2, 3>>, g),
    g, GroupMembers, <<1, 3>>, u)

(* add_user_g: a user of the ini file and its group.                        *)
add_user_g(d, n, wanted, g) ==
  LET e == nw_new_obj(d, n, wanted)
  IN  IF Owners(e, n) = {} THEN e ELSE add_user_to_group(e, Min(Owners(e, n)), g)

(* nw_fill_standard: EVERYONE and the supervisor of the ini file.           *)
nw_fill_standard(d) ==
  LET e == nw_new_obj(d, Everyone, 2)
      g == Min(Owners(e, Everyone))
  IN  IF Owners(e, Everyone) = {} THEN e
      ELSE add_user_g(WriteAll(e, nw_create_obj_prop(e, g, GroupMembers, <<1, 3>>, FALSE, TRUE)),
                      Supervisor, 1, g)

(* nw_init_dbm; the bindery is repaired when the ini file says so.          *)
Opened(d, repair) ==
  IF repair THEN check_compress_bindery(nw_init_dbm_1(d)) ELSE nw_init_dbm_1(d)

nw_init_dbm(d, repair) == nw_fill_standard(Opened(d, repair))

(* A property with the id 0 that the start has to delete: the id stands for *)
(* "by name", and there is no name.  nwbind ends with a fault, at this      *)
(* start and at every other.                                                *)
Unstartable(d, repair) ==
  LET e == StaticObjs(d)
  IN  \E k \in DOMAIN e.prop :
        k[2] = 0 /\ (e.prop[k].dynamic \/ (repair /\ k[1] \notin DOMAIN e.obj))

EmptyDb == [obj |-> <<>>, iobj |-> <<>>, prop |-> <<>>, val |-> <<>>]

Init ==
  /\ db = nw_init_dbm(EmptyDb, FALSE)
  /\ user = [c \in Conn |-> 0]
  /\ su = [c \in Conn |-> FALSE]
  /\ torn = FALSE
  /\ loose = {}
  /\ writes = 0

-----------------------------------------------------------------------------
(* A segment without the one before it.                                     *)
Hole(d) == \E v \in DOMAIN d.val : v[3] > 1 /\ <<v[1], v[2], v[3] - 1>> \notin DOMAIN d.val

(* The server is started with the files d, in which the properties in ps    *)
(* are loose; the repair writes the sets among them anew.  No connection    *)
(* survives that.                                                           *)
Started(d, ps) ==
  /\ \E repair \in BOOLEAN : \E opened \in {Opened(d, repair)} :
       /\ ~Unstartable(d, repair)
       /\ db' = nw_fill_standard(opened)
       /\ torn' = ((torn /\ ~repair) \/ Hole(db') \/ (Hole(d) /\ ~repair))
       /\ loose' = ({k \in ps : ~(repair /\ k \in SetKeys(d))}
                      \cup Flagged(opened, db')) \cap DOMAIN db'.prop
  /\ user' = [c \in Conn |-> 0]
  /\ su' = [c \in Conn |-> FALSE]

(* A request that fills cells of the properties ps without asking for the   *)
(* members carries out its writes ws ...                                    *)
Carried(ws, ps) ==
  /\ ws # <<>>
  /\ db' = WriteAll(db, ws)
  /\ loose' = (loose \cup ps \cup Flagged(db, db')) \cap DOMAIN db'.prop
  /\ UNCHANGED <<user, su, torn>>

(* ... or nwbind is killed after some of them.                              *)
Killed(ws, ps) ==
  \E k \in 1..Len(ws) - 1 :
    LET d == WriteAll(db, SubSeq(ws, 1, k))
    IN  Started(d, loose \cup ps \cup Flagged(db, d))

WritesCells(ws, ps) ==
  \/ /\ writes + 1 <= MaxWrites /\ writes' = writes + 1
     /\ Carried(ws, ps)
  \/ /\ writes + KillCost <= MaxWrites /\ writes' = writes + KillCost
     /\ Killed(ws, ps)

Writes(ws) == WritesCells(ws, {})

(* 0x17/0x32                                                                *)
CreateObject(c, n, security, dynamic) ==
  /\ b_acc(c, 0, <<3, 3>>, TRUE)
  /\ Owners(db, n) = {}
  /\ FreeIds(db, 2) # {}      \* bound on the number of objects
  /\ Writes(nw_create_obj(db, n, 2, security, dynamic))

(* 0x17/0x33                                                                *)
DeleteObject(c, n) ==
  LET id == find_obj_id(db, n)
  IN  /\ id # 0
      /\ b_acc(c, id, <<3, 3>>, TRUE)
      /\ Writes(Reindex(db, n) \o loc_delete_obj(WriteAll(db, Reindex(db, n)), id))

(* 0x17/0x34: the index entry of the old name, the object, the new entry.   *)
RenameObject(c, n, new) ==
  LET id == find_obj_id(db, n)
  IN  /\ su[c] /\ id # 0 /\ new # n
      /\ Writes(Reindex(db, n) \o Delete("iobj", n)
                  \o Store("obj", id, [db.obj[id] EXCEPT !.name = new])
                  \o Store("iobj", new, id))

(* 0x17/0x38                                                                *)
ChangeObjectSecurity(c, n, security) ==
  LET id == find_obj_id(db, n)
  IN  /\ su[c] /\ id # 0
      /\ b_acc(c, id, db.obj[id].security, TRUE)
      /\ Writes(Reindex(db, n)
                  \o Store("obj", id, [db.obj[id] EXCEPT !.security = security]))

(* 0x17/0x35, and every request that fails after it has found its object.   *)
FindObject(n) == Writes(Reindex(db, n))

(* 0x17/0x39                                                                *)
CreateProperty(c, n, p, security, dynamic, set) ==
  LET id == find_obj_id(db, n)
  IN  /\ id # 0
      /\ b_acc(c, id, db.obj[id].security, TRUE)
      /\ Writes(Reindex(db, n) \o nw_create_obj_prop(db, id, p, security, dynamic, set))

(* 0x17/0x3a: a name or a pattern for a set of names.                       *)
DeleteProperty(c, n, ps) ==
  LET id == find_obj_id(db, n)
      ks == {k \in PropsOf(db, id) :
               /\ db.prop[k].name \in ps
               /\ b_acc(c, id, db.prop[k].security, TRUE)}
  IN  /\ id # 0
      /\ Writes(Reindex(db, n) \o loc_delete_property(db, ks))

(* 0x17/0x3b                                                                *)
ChangePropSecurity(c, n, p, security) ==
  LET id == find_obj_id(db, n)
  IN  /\ id # 0
      /\ \E k \in Named(db, id, p) :
           /\ b_acc(c, id, db.prop[k].security, TRUE)
           /\ Writes(Reindex(db, n)
                       \o Store("prop", k, [db.prop[k] EXCEPT !.security = security]))

(* 0x17/0x3e: of a set, too, and of the segment 0.                          *)
WritePropertyValue(c, n, p, s, seg, erase) ==
  LET id == find_obj_id(db, n)
  IN  /\ id # 0
      /\ \E k \in find_first_prop_id(c, id, p) :
           /\ b_acc(c, id, db.prop[k].security, TRUE)
           /\ WritesCells(Reindex(db, n) \o ins_prop_val(db, k, s, seg, erase),
                          {k} \cap SetKeys(db))

(* prop_find_member                                                         *)
IsMember(d, k, m) == m \in Members(d, k)

(* 0x17/0x41                                                                *)
AddToSet(c, n, p, mn) ==
  LET id == find_obj_id(db, n)
      m  == find_obj_id(db, mn)
  IN  /\ id # 0 /\ m # 0
      /\ \E k \in find_first_prop_id(c, id, p) :
           /\ ~IsMember(db, k, m)
           /\ b_acc(c, id, db.prop[k].security, TRUE)
           /\ Writes(Reindex(db, n) \o Reindex(db, mn) \o prop_add_member(db, k, m))

(* 0x17/0x42                                                                *)
DeleteFromSet(c, n, p, mn) ==
  LET id == find_obj_id(db, n)
      m  == find_obj_id(db, mn)
  IN  /\ id # 0 /\ m # 0
      /\ \E k \in find_first_prop_id(c, id, p) :
           /\ b_acc(c, id, db.prop[k].security, TRUE)
           /\ Writes(Reindex(db, n) \o Reindex(db, mn) \o prop_delete_member(db, k, m))

(* build_login_response, after the tests of the login: supervisor rights    *)
(* are decided once.                                                        *)
Login(c, n) ==
  LET id == find_obj_id(db, n)
  IN  /\ id # 0
      /\ user' = [user EXCEPT ![c] = id]
      /\ su' = [su EXCEPT ![c] =
                  \/ id = 1
                  \/ \E k \in Named(db, id, SecurityEquals) : IsMember(db, k, 1)]
      /\ db' = WriteAll(db, Reindex(db, n))
      /\ UNCHANGED <<torn, loose, writes>>

(* 0x19                                                                     *)
Logout(c) ==
  /\ user[c] # 0
  /\ user' = [user EXCEPT ![c] = 0]
  /\ su' = [su EXCEPT ![c] = FALSE]
  /\ UNCHANGED <<db, torn, loose, writes>>

(* The server is stopped and started.                                       *)
Restart == Started(db, loose) /\ UNCHANGED writes

(* handle_bind_calls 1: a server that was heard of.  Its object and its     *)
(* property are made when they are missing, and the address is written.     *)
InsertServer(n) ==
  LET ows == IF Owners(db, n) = {} THEN nw_create_obj(db, n, 2, <<0, 4>>, TRUE) ELSE <<>>
      d   == WriteAll(db, ows)
      id  == Min(Owners(d, n))
      k   == PropKey(d, id, NetAddress)
      pws == nw_create_obj_prop(d, id, NetAddress, <<0, 4>>, TRUE, FALSE)
  IN  /\ Owners(db, n) = {} => FreeIds(db, 2) # {}
      /\ Writes(ows \o pws \o ins_prop_val(WriteAll(d, pws), k, 1, Blank, TRUE))

(* handle_bind_calls 2: a server that is down.                              *)
RemoveServer(n) ==
  LET id == find_obj_id(db, n)
  IN  /\ id # 0
      /\ Writes(Reindex(db, n) \o loc_delete_obj(WriteAll(db, Reindex(db, n)), id))

(* Requests for objects and properties.                                     *)
Objects(c) ==
  \E n \in Name :
    \/ \E s \in ObjSecurity, d \in Dynamic : CreateObject(c, n, s, d)
    \/ DeleteObject(c, n)
    \/ \E new \in Name : RenameObject(c, n, new)
    \/ \E s \in ObjSecurity : ChangeObjectSecurity(c, n, s)
    \/ FindObject(n)

Properties(c) ==
  \E n \in Name :
    \/ \E p \in ClientProp, s \in PropSecurity, d \in Dynamic, set \in BOOLEAN :
         CreateProperty(c, n, p, s, d, set)
    \/ \E ps \in {{p} : p \in ClientProp} \cup {PropName} : DeleteProperty(c, n, ps)
    \/ \E p \in ClientProp, s \in PropSecurity : ChangePropSecurity(c, n, p, s)
    \/ \E p \in ClientProp, s \in 0..MaxSeg, seg \in Written, e \in BOOLEAN :
         WritePropertyValue(c, n, p, s, seg, e)

Sets(c) ==
  \E n, mn \in Name, p \in ClientProp :
    AddToSet(c, n, p, mn) \/ DeleteFromSet(c, n, p, mn)

Next ==
  \/ \E c \in Conn : Objects(c) \/ Properties(c) \/ Sets(c) \/ Logout(c)
  \/ \E c \in Conn, n \in LoginName : Login(c, n)
  \/ \E n \in Server : InsertServer(n) \/ RemoveServer(n)
  \/ Restart

Spec == Init /\ [][Next]_vars

-----------------------------------------------------------------------------
(* The four files fit together whatever request was cut off by the end of   *)
(* nwbind (nwdbm.c, loc_delete_obj): a property belongs to an object, a     *)
(* value to a property, the members of a set are objects and none is there  *)
(* twice.  A new object with the id of a former one thus starts empty.  The *)
(* code keeps this but for what it really leaves behind: the rest of a      *)
(* value of several segments whose deletion was cut off (torn), segments    *)
(* and properties with the number 0, which loc_delete_property never        *)
(* reaches, and the cells of a set that a client filled itself or that was  *)
(* an item before (loose).                                                  *)
NoOrphans ==
  torn \/
  /\ \A k \in DOMAIN db.prop : k[2] # 0 => k[1] \in DOMAIN db.obj
  /\ \A v \in DOMAIN db.val : v[3] # 0 => <<v[1], v[2]>> \in DOMAIN db.prop
  /\ \A k \in SetKeys(db) \ loose :
       /\ Members(db, k) \subseteq DOMAIN db.obj
       /\ Cardinality({<<s, i>> \in (1..MaxSeg) \X (1..SegSize) :
              <<k[1], k[2], s>> \in DOMAIN db.val /\ db.val[<<k[1], k[2], s>>][i] # 0})
            = Cardinality(Members(db, k))

(* An object that alone has its name is the one find_obj_id finds, whatever *)
(* is left in the index by requests that were cut off, by renaming and by   *)
(* ids given again.                                                         *)
ObjectFound ==
  \A id \in DOMAIN db.obj :
    Owners(db, db.obj[id].name) = {id} => find_obj_id(db, db.obj[id].name) = id

Memberships(d) == UNION {{k} \X Members(d, k) : k \in SetKeys(d)}

(* No request takes an object out of a set but the one that removes that    *)
(* object: the memberships that are lost while member, owner and property   *)
(* stay are those of one object (prop_delete_member, loc_delete_obj).  A    *)
(* restart loses those and, when a deletion was cut off, the ones of the    *)
(* sets of one owner.  Only a client that writes the value of a set itself  *)
(* (nw_write_prop_value) may take out any.                                  *)
MembersKept ==
  [][db.val # db'.val =>
      LET lost == {x \in Memberships(db) \ Memberships(db') :
                     /\ x[1] \in SetKeys(db') \ loose' /\ x[2] \in DOMAIN db'.obj
                     /\ db'.prop[x[1]] = db.prop[x[1]]}
      IN  \E id \in Id : \A x \in lost :
            \/ x[2] = id
            \/ x[1][1] = id /\ \A c \in Conn : user'[c] = 0]_vars

=============================================================================
