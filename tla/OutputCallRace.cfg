SPECIFICATION CallSpec
CONSTANTS
  Threads = {t1, t2}
  Sizes = {1, 2, 3}
  Attempts = 3
INVARIANT SizingAnswered
