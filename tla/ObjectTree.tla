----------------------------- MODULE ObjectTree -----------------------------
(***************************************************************************)
(* The tree of D-Bus objects that an application builds (DBusObject.cpp),    *)
(* the paths of its objects (DBusObjectPath.h), and the walks that look for   *)
(* an interface (Server::findInterface) and tell BlueZ what there is          *)
(* (ServerUtils::getManagedObjects).                                         *)
(*                                                                          *)
(* A tree is the sequence of its objects in the order of a walk that visits   *)
(* an object before its children; `depth' says how they hang together.  A     *)
(* path is a sequence of names and slashes.                                  *)
(***************************************************************************)
EXTENDS Naturals, SequencesExt

Slash == "/"

\* The interfaces a published object may have, by the depth of their object.
GattKinds == <<"none", "GattService1", "GattCharacteristic1", "GattDescriptor1">>
Gatt      == {GattKinds[d] : d \in 2 .. 4}
Manager   == "ObjectManager"

\* Mutant: a slash whatever is there already.
JoinedPlainly(p, q) == p \o <<Slash>> \o q

\* DBusObjectPath::append
Joined(p, q) ==
  IF q = <<>> THEN p
  ELSE IF p = <<>> THEN q
  ELSE CASE Last(p) = Slash /\ Head(q) = Slash -> Front(p) \o q
         [] Last(p) # Slash /\ Head(q) # Slash -> p \o <<Slash>> \o q
         [] OTHER -> p \o q

\* What D-Bus accepts as the path of an object.
IsObjectPath(p) ==
  /\ p # <<>> /\ Head(p) = Slash
  /\ p # <<Slash>> => Last(p) # Slash
  /\ \A i \in 1 .. Len(p) - 1 : p[i] = Slash => p[i + 1] # Slash

-----------------------------------------------------------------------------
(* The shape of a tree                                                       *)

IsAncestor(tree, j, k) ==
  j < k /\ \A i \in j + 1 .. k : tree[j].depth < tree[i].depth

\* On the way from the root to k, with k.
IsAbove(tree, j, k) == j = k \/ IsAncestor(tree, j, k)

\* Mutant: the kind of the parent.
ChildOfParentKind(parent, name) ==
  [depth |-> parent.depth + 1, name |-> name, publish |-> parent.publish,
   interfaces |-> <<GattKinds[parent.depth]>>]

\* The next object below a root, a service or a characteristic.
Child(parent, name) ==
  [depth |-> parent.depth + 1, name |-> name, publish |-> parent.publish,
   interfaces |-> <<GattKinds[parent.depth + 1]>>]

\* A walk that leaves out what is below k goes on at n.
IsBehind(tree, k, n) ==
  /\ n > k
  /\ n <= Len(tree) => tree[n].depth <= tree[k].depth
  /\ \A i \in k + 1 .. n - 1 : tree[k].depth < tree[i].depth

\* The interfaces of the tree: the object and the place in its list.
Slots(tree) ==
  {s \in (DOMAIN tree) \X (1 .. 2) : s[2] <= Len(tree[s[1]].interfaces)}

Interface(tree, s) == tree[s[1]].interfaces[s[2]]

-----------------------------------------------------------------------------
(* Paths: on the way down, as the walks build them, and on the way up.       *)

PathFrom(tree, base, k) ==
  LET path[j \in 0 .. k] ==
        IF j = 0 THEN base
        ELSE IF IsAbove(tree, j, k) THEN Joined(path[j - 1], tree[j].name)
        ELSE path[j - 1]
  IN path[k]

\* registerNodeHierarchy begins with the path of the root itself.
RegisteredPath(tree, k) == PathFrom(tree, <<>>, k)

\* Mutant: the path of the parent is not handed down.
LookupPathOfNode(tree, k) == Joined(<<Slash>>, tree[k].name)

\* findInterface and callMethod begin with the default path.
LookupPath(tree, k) == PathFrom(tree, <<Slash>>, k)

\* getManagedObjects begins with an empty path.
ManagedPath(tree, k) == PathFrom(tree, <<>>, k)

\* getPath, which signals carry.
GetPath(tree, k) ==
  LET path[j \in 1 .. k] ==
        IF j = k THEN tree[k].name
        ELSE IF IsAbove(tree, j, k) THEN Joined(tree[j].name, path[j + 1])
        ELSE path[j + 1]
  IN path[1]

-----------------------------------------------------------------------------
(* Searches                                                                  *)

\* The one that a walk comes to first.
FirstSlot(slots) ==
  CHOOSE s \in slots : \A t \in slots : s[1] < t[1] \/ (s[1] = t[1] /\ s[2] <= t[2])

\* The first slot of the walk with this path and interface, or <<>>.
FindInterface(tree, path, name) ==
  LET found == {s \in Slots(tree) : LookupPath(tree, s[1]) = path
                                      /\ Interface(tree, s) = name}
  IN IF found = {} THEN <<>> ELSE FirstSlot(found)

\* addManagedObjectsNode stops at an object that is not published or that has an
\* interface of no GATT type, and leaves out what is below it.
Tells(tree, k) ==
  \A j \in 1 .. k : IsAbove(tree, j, k) =>
    tree[j].publish /\ ToSet(tree[j].interfaces) \subseteq Gatt

ManagedObjects(tree) ==
  {[path |-> ManagedPath(tree, s[1]), name |-> Interface(tree, s)] :
     s \in {t \in Slots(tree) : Tells(tree, t[1])}}
=============================================================================
