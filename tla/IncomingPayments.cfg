\* MCIncomingPayments: exports that overlap, a feed beside them, and deposit files of two companies.
SPECIFICATION Spec
CONSTANTS
    NoSaldo = NoSaldo
    Nobody = Nobody
    NoInvoice = NoInvoice
    NoPayer = NoPayer
    NoReceiver = NoReceiver
    NoDeposit = NoDeposit
    swedbank = swedbank
    other = other
    c1 = c1
    c2 = c2
    c3 = c3
    i1 = i1
    i2 = i2
    j1 = j1
    s1 = s1
    swish = swish
    fee = fee
    deposit = deposit
    credit = credit
    Companies <- MCCompanies
    Invoices <- MCInvoices
    Invoice <- MCInvoice
    BankOf <- MCBankOf
    Ruled <- MCRuled
    Phones <- MCPhones
    LabelOf <- MCLabelOf
    Receiver <- MCReceiver
    Kinds <- MCKinds
    BareTexts = {}
    SwishTexts = {swish}
    CsvCompanies = {swedbank}
    FeedCompanies = {swedbank, other}
    ValueDated = {swedbank}
    DaysOff = 2
    Registered = {swedbank, other}
    Automatic = {swedbank}
    MaxDays = 2
    MaxPayments = 3
    MaxEvents = 4
INVARIANTS
    OncePerPayment
    OwnCompany
    NamedOrNothing
    MoneyOnce
PROPERTY
    DoublesTold
