\* Three invoices one after the other on one page.
SPECIFICATION Spec
CONSTANTS
    Invoice = {i1, i2, i3}
    None = None
INVARIANTS
    OneLoop
    OnlyLateAnswersUndo
    RefusedDownloadIsLate
PROPERTIES
    ReadyIsShown
