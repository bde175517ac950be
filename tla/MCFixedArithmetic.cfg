CONSTANT Types <- const_Types
SPECIFICATION Spec
INVARIANTS NoDivideTrap RoundingHeadroom
PROPERTIES ImplementsExactArithmetic AnswersEveryCall
