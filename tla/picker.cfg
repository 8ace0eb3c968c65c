SPECIFICATION PickerSpec
INVARIANTS
    OnlyTheRowFound
    SentOnceAndInOrder
