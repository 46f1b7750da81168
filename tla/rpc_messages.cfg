SPECIFICATION Spec
CONSTANTS
  Ints = {1, 2}
  Datas <- MCDatas
INVARIANTS AnswerArrives RequestArrives AliasesHold
CHECK_DEADLOCK FALSE
