SPECIFICATION ParserSpec
CONSTANT MaxLen = 5
INVARIANTS FitsArray FreeSafe SpansOrdered StatementsFound SplitsAgree
CHECK_DEADLOCK FALSE
