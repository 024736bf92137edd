CONSTANTS
    Operadores = {o1, o2}
    Pessoas = {1}
    Iniciais = {}
    Atendimentos = {1, 2}
    Telefones = {1}
    Limites = {1, 2}
    Requisicoes = {r1, r2}
    Nada = Nada
SPECIFICATION SpecJusta
\* every attendance id of the instance may be used up
CHECK_DEADLOCK FALSE
PROPERTY TodaRequisicaoTermina
