SPECIFICATION Spec
CONSTANTS
    Webhooks = {w1}
    Sellers = {d1}
    Editors = {d1}
    Payments = {q1, q2}
    Reported = {"approved", "in_mediation", "rejected", "charged_back"}
    Deletable = TRUE
    Bodies <- EditBodies
SYMMETRY Interchangeable
INVARIANTS TypeOK FulfilledOnlyPaid StagesInOrder ChargebackCancels
CONSTRAINT NotAllNamed
CHECK_DEADLOCK FALSE
