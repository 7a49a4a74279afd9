------------------------------- MODULE Notify -------------------------------
(***************************************************************************)
(* The change-notification utility of notify.cpp.  A table of             *)
(* MAX_ITEMS_WATCHED slots records, for each watched memory item, its id,  *)
(* handler and the byte sum and byte xor of the item's contents when they  *)
(* were last seen.  Notify::task, called from the main loop, recomputes    *)
(* both checksums of every active slot and calls the slot's handler when  *)
(* either differs.  watch() first drops the (id, handler) pair and then    *)
(* takes the first inactive slot; a full table drops the request.          *)
(*                                                                         *)
(* Memory items are model values whose contents are byte sequences of a   *)
(* fixed size; the rest of the firmware writes them between two polls.    *)
(* Handlers are external code: a handler call is recorded in `notified`.  *)
(* The ghost variable `seen` holds, per slot, the contents the handler was *)
(* last told about (at watch time or at its last notification).           *)
(***************************************************************************)
EXTENDS Naturals, Sequences, SequencesExt, Bitwise

CONSTANTS
    Ids,                \* watch ids passed by callers (uint8_t id)
    Handlers,           \* handler functions
    Items,              \* watched memory items (void *item)
    ItemSize,           \* ItemSize[it]: the size argument used for item it
    Bytes,              \* byte values the items' bytes take
    MAX_ITEMS_WATCHED,  \* size of the watchedItems table
    MaxWrites           \* bound on the writes the rest of the firmware makes

ASSUME MAX_ITEMS_WATCHED \in Nat \ {0}
ASSUME Bytes \subseteq 0..255

Slots == 0 .. MAX_ITEMS_WATCHED - 1

Contents == UNION {[1 .. ItemSize[it] -> Bytes] : it \in Items}

Slot == [active : BOOLEAN, id : Ids, item : Items, handler : Handlers,
         chksum : 0..255, chkxsum : 0..255]

VARIABLES
    watchedItems,   \* the table, Notify::watchedItems
    mem,            \* mem[it]: current contents of item it
    seen,           \* ghost: contents last reported to each slot's handler
    notified,       \* slots whose handler the last task() call ran
    writes          \* writes made so far (bounded by MaxWrites)

vars == <<watchedItems, mem, seen, notified, writes>>

(* The two checksums of notify.cpp: uint8_t sum and xor of the bytes.     *)
ByteSum(c) == FoldLeft(LAMBDA a, b : (a + b) % 256, 0, c)
ByteXor(c) == FoldLeft(LAMBDA a, b : a ^^ b, 0, c)

Active(i) == watchedItems[i].active

Unchanged(i) ==
    LET c == mem[watchedItems[i].item]
    IN  ByteSum(c) = watchedItems[i].chksum /\ ByteXor(c) = watchedItems[i].chkxsum

-----------------------------------------------------------------------------
(* Notify::task: poll every active slot; a slot whose checksums changed   *)
(* takes the new ones and its handler is called with its id.             *)
Polled_SkipLast == {i \in Slots : Active(i) /\ i < MAX_ITEMS_WATCHED - 1}

Polled == {i \in Slots : Active(i)}

Resync_SumOnly(i) ==
    [watchedItems[i] EXCEPT !.chksum = ByteSum(mem[watchedItems[i].item])]

(* The changed slot stores the checksums of the contents it now has.     *)
Resync(i) ==
    LET now == mem[watchedItems[i].item]
    IN  [watchedItems[i] EXCEPT !.chksum = ByteSum(now), !.chkxsum = ByteXor(now)]

Task ==
    LET changed == {i \in Polled : ~Unchanged(i)}
    IN  /\ watchedItems' = [i \in Slots |->
                              IF i \in changed THEN Resync(i) ELSE watchedItems[i]]
        /\ seen' = [i \in Slots |-> IF i \in changed
                                     THEN mem[watchedItems[i].item]
                                     ELSE seen[i]]
        /\ notified' = changed
        /\ UNCHANGED <<mem, writes>>

(* The three unWatch overloads: deactivate the matching active slots.    *)
UnWatchWhere(matching) ==
    [i \in Slots |-> IF i \in matching
                     THEN [watchedItems[i] EXCEPT !.active = FALSE]
                     ELSE watchedItems[i]]

WatchesOf(id, h) == {i \in Slots : Active(i) /\ watchedItems[i].id = id /\ watchedItems[i].handler = h}

UnWatchId(id) ==
    /\ watchedItems' = UnWatchWhere({i \in Slots : Active(i) /\ watchedItems[i].id = id})
    /\ notified' = {}
    /\ UNCHANGED <<mem, seen, writes>>

UnWatchIdHandler(id, h) ==
    /\ watchedItems' = UnWatchWhere(WatchesOf(id, h))
    /\ notified' = {}
    /\ UNCHANGED <<mem, seen, writes>>

UnWatchHandler(h) ==
    /\ watchedItems' = UnWatchWhere({i \in Slots : Active(i) /\ watchedItems[i].handler = h})
    /\ notified' = {}
    /\ UNCHANGED <<mem, seen, writes>>

(* Notify::watch: unWatch(id, handler), then the first inactive slot     *)
(* takes the item with the checksums of its current contents; with no   *)
(* inactive slot the request is dropped (only a debug message).          *)
Watch(id, it, h) ==
    LET cleared == UnWatchWhere(WatchesOf(id, h))
        free    == {i \in Slots : ~cleared[i].active}
        first   == CHOOSE i \in free : \A j \in free : i <= j
    IN  /\ IF free = {}
           THEN /\ watchedItems' = cleared
                /\ UNCHANGED seen
           ELSE /\ watchedItems' = [cleared EXCEPT ![first] =
                        [active |-> TRUE, id |-> id, item |-> it, handler |-> h,
                         chksum |-> ByteSum(mem[it]), chkxsum |-> ByteXor(mem[it])]]
                /\ seen' = [seen EXCEPT ![first] = mem[it]]
        /\ notified' = {}
        /\ UNCHANGED <<mem, writes>>

(* The rest of the firmware stores a new value into a watched item.      *)
Write(it, c) ==
    /\ writes < MaxWrites
    /\ c # mem[it]
    /\ mem' = [mem EXCEPT ![it] = c]
    /\ writes' = writes + 1
    /\ notified' = {}
    /\ UNCHANGED <<watchedItems, seen>>

-----------------------------------------------------------------------------
(* watchedItems is a global object: zero-initialised, every slot inactive *)
(* (the other fields of an inactive slot are never read).                 *)
EmptySlot == [active |-> FALSE, id |-> CHOOSE x \in Ids : TRUE,
              item |-> CHOOSE x \in Items : TRUE,
              handler |-> CHOOSE x \in Handlers : TRUE, chksum |-> 0, chkxsum |-> 0]

Init ==
    /\ watchedItems = [i \in Slots |-> EmptySlot]
    /\ mem \in [Items -> Contents] /\ \A it \in Items : Len(mem[it]) = ItemSize[it]
    /\ seen \in [Slots -> {<<>>}]
    /\ notified = {}
    /\ writes = 0

Next ==
    \/ Task
    \/ \E id \in Ids, it \in Items, h \in Handlers : Watch(id, it, h)
    \/ \E id \in Ids : UnWatchId(id)
    \/ \E id \in Ids, h \in Handlers : UnWatchIdHandler(id, h)
    \/ \E h \in Handlers : UnWatchHandler(h)
    \/ \E it \in Items, c \in Contents : Len(c) = ItemSize[it] /\ Write(it, c)

Spec == Init /\ [][Next]_vars /\ WF_vars(Task)

-----------------------------------------------------------------------------
TypeOK ==
    /\ watchedItems \in [Slots -> Slot]
    /\ mem \in [Items -> Contents]
    /\ notified \subseteq Slots
    /\ writes \in 0..MaxWrites

(* Every change of a watched item between two polls reaches its handler:  *)
(* a task() call runs the handler of each active slot whose item differs  *)
(* from what that handler was last told (at watch() or its last call).    *)
ChangeNotified ==
    [][Task => \A i \in Slots :
                 Active(i) /\ mem[watchedItems[i].item] # seen[i] => i \in notified']_vars

(* task() runs a handler only for a real change: the item differs from   *)
(* what the handler last saw, so the checksums stored by watch() and by   *)
(* the previous call always describe that contents.                      *)
NotifyOnlyOnChange ==
    [][Task => \A i \in notified' : mem[watchedItems[i].item] # seen[i]]_vars

====
