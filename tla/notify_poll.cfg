\* Two slots for four (id, handler) pairs, so the table fills; one-byte items.
SPECIFICATION Spec
CONSTANTS
    i1 = i1
    i2 = i2
    h1 = h1
    h2 = h2
    a = a
    b = b
    Ids <- MC_Ids
    Handlers <- MC_Handlers
    Items <- MC_Items
    ItemSize <- MC_ByteItems
    Bytes = {0, 1, 2}
    MAX_ITEMS_WATCHED = 2
    MaxWrites = 3
PROPERTIES ChangeNotified NotifyOnlyOnChange
