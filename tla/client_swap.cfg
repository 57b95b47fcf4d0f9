\* One swap of each kind and pair, in turn; the settings page is the other
\* reader of the settings.  Fees change once.  The system may stop: a swap may
\* be over, and blocks, restarts and saves are bounded.
SPECIFICATION Spec
CONSTANTS
    Settings <- MCSettings
    Default <- MainSettings
    Readers = {s1, page}
    MaxSaves = 2
    Swaps = {s1}
    Page = page
    Orders <- MCOrders
    FeeTables <- MCFeeTables
    Minimal = 4
    Maximal = 20
    Timeout = 1
    Paid = {4, 12}
    MaxHeight = 1
    MaxRestarts = 1
    MaxFeeChanges = 1
    NoOrder = NoOrder
    NoClient = NoClient
    NoFees = NoFees
    NoDeal = NoDeal
    NoTx = NoTx
INVARIANTS
    TypeOK
    SavedSettingsAreUsed
    AskedAmountArrives
    SentAmountSuffices
    SpendsLoseNothing
    LooksFailForAReason
CHECK_DEADLOCK FALSE
