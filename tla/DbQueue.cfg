\* Two rooms of one board and one of another share the edit task.
SPECIFICATION Spec
CONSTANTS
  ra = ra
  rb = rb
  rc = rc
  bp = bp
  bq = bq
  Board = {bp, bq}
  Room = {ra, rb, rc}
  BoardOf <- Boards3
  Edit = {e1, e2}
  DB_QUEUE_ITEM_SIZE = 2
  MaxItems <- Items3
SYMMETRY Symmetry
INVARIANTS DbQueueInv Stored
